# Verification of the face-recognition service

TLA+ specifications of the multi-tenant face-recognition API in `src/app`, the TLC
configurations that check them on small instances, and TLAPS proofs of what holds for every
value of their constants. The source lines of each definition are in `PROJECT.json` under `map`.

Run a configuration with `tlc -config <name>.cfg MC<module>.tla`, the proofs with
`tlapm <name>Proofs.tla` for each of `QuotaLedgerProofs`, `QuotaHandlerProofs`,
`QuotaStorageProofs`, `FaceProofs`, `FaceRegistryProofs`, `SubscriptionProofs`, `AccessProofs` and
`LegacyProofs`.

## 1. The system

A FastAPI process serves requests on one event loop, several such processes may run. Behind
them are PostgreSQL (rows, READ COMMITTED transactions), Redis (idempotency cache, rate
limits, API counters) and an object storage. Every request gets a session from `get_db`
(`app/core/database.py`): its handler runs in that session's transaction, which is committed
after the handler and rolled back when it raises. Handlers interleave at every `await`, and
requests of other processes interleave anyway: **the shared state is the database, the cache
and the object storage, and the hard questions are what concurrent transactions do to it and
what is left behind when a step fails.**

| Component | State | Operations | Properties that make it correct |
|---|---|---|---|
| Quota and usage (`quota_service`, `usage_service`) | one row of counters per tenant and month; the reservations a handler holds | get_or_create_period, reserve, release, release_all, commit, usage_summary | counters equal what is counted, limits are never exceeded, failures consume nothing, storage carries over |
| Face pipeline (`face_service`, `api/v1/faces`) | persons, images, faces; the idempotency cache | upload_face, delete_face, delete_person, update_person, search_face | one image per digest, one person per external id, no orphans, replays are true |
| Object storage (`storage_service`) | objects | store_image, delete_keys | objects match live images |
| Packages and subscriptions (`package_service`) | packages, subscriptions | create, update and delete a package, change_package, ensure_subscription | one active subscription, one default package, history keeps its packages |
| Provisioning and authentication (`auth_service`, `api/deps`) | tenants, profiles, keys | get_or_create_profile, authenticate_jwt, authenticate_api_key, get_principal | first login provisions once and whole; revoked keys and deleted users stay out |
| API keys (`api_key_service`) | keys: status, expires_at, revoked_at | create, list (lazy expiry), revoke, rotate | revocation is final |
| Administration (`admin_service`, `api/v1/admin`) | admins, roles, sessions | bootstrap, create, set roles, login, logout, user status and deletion | somebody keeps SUPER_ADMIN; deleted users stay out |
| Rate limiter (`rate_limit_service`) | a Redis counter per tenant and window | check_rate_limit | at most the limit per window, late hits bounded |
| API counter (`usage_service`) | a Redis counter, copied to the month's row | record_api_request, _sync_api_count | the copy follows the counter (a race may set it back until the next page) |
| Connection pool (`core/database`) | connections of a process | checkout by the request, a second one by every quota call | nobody waits for ever |
| Legacy payments (`main.py`) | donors, pending payments, the leaderboard (PostgreSQL) | payment intents, checkout sessions, Stripe webhooks, direct donations, the leaderboard page, the relabelling of old rows at each start | a completed payment is on the leaderboard, an acknowledged delivery is not lost, one event credits |
| Legacy image index (`main.py`, `facefindr/`) | images, faces, events, photographers, a bucket | uploads, scans, process_image, searches by file, URL and path, deletion, clean-up | a processed image has its faces, answers belong to the event asked for |
| Engines, audit log, shell, migrations | none that other parts read | - | - |

How they interact: `get_principal` (authentication, provisioning, subscription check, rate
limit, API counter) runs before every handler in the same transaction; `upload_face` and
`search_face` call the quota service, **whose reserve and release run in sessions of their own
and commit at once** (`usage_service.py:48`), the storage, and Redis; the deletion of a face
calls release_storage in the same way before its own transaction commits. Admin handlers write
the rows that the next `get_principal` reads. The legacy application is mounted under
`/legacy` if `LEGACY_API_ENABLED` is set; it has tables of its own, which clash with the platform's,
in a database of its own, and shares nothing with the rest.

Hard behaviours, listed one by one under `hazards` in `PROJECT.json`: transactions that
interleave between a read and the write that depends on it; a month's end inside a request;
partial failure between the separate commits of quota, storage, cache and main transaction;
retries under an Idempotency-Key; lock cycles; ordering by the start of a transaction;
workers that die.

## 2. The modules

| Module | Models | Proofs |
|---|---|---|
| `UsagePeriods` | the table usage_periods: get_or_create_period, reserve, release | `QuotaLedgerProofs` |
| `QuotaLedger` (extends it) | the handlers' use of quota: uploads, searches, deletions, the usage page | `QuotaLedgerProofs`, `QuotaHandlerProofs`, `QuotaStorageProofs` |
| `QuotaPromise` | what the quota service promises, without counters; QuotaLedger implements it | `QuotaLedgerProofs` |
| `FacePipeline` | uploads, deletions and person updates over rows, objects and the idempotency cache | `FaceProofs` |
| `FaceRegistry` | what the face service promises, without requests: faces and persons registered, renamed and deleted at once; FacePipeline implements it | `FaceRegistryProofs` |
| `Subscriptions` | first logins, package changes, package administration | `SubscriptionProofs` |
| `SubscriptionBook` | what the package service promises, without transactions: each operation done at once; Subscriptions implements it | `SubscriptionProofs` |
| `Accounts` | profiles, keys, admins, roles and sessions: who is admitted, and every write of those rows | `AccessProofs` |
| `RateWindow` | the limiter's window in Redis, the request counter and its copy | `AccessProofs` |
| `Access` (extends both) | a request's way through connection pool, authentication, limit, count and handler to its commit | `AccessProofs` |
| `LegacyBase` | the calls of the event application, its workers that die, events, the bucket | `LegacyProofs` |
| `LegacyPayments` (extends it) | donors, intents, checkouts, webhooks, direct donations, the leaderboard | `LegacyProofs` |
| `LegacyIndex` (extends it) | photographers, uploads, scans, process_image, the searches, deletion, clean-up | `LegacyProofs` |
| `LegacyApp` (extends both) | the event application over one database | `LegacyProofs` |
| `MC...` | the constants of small instances for TLC | |

### Common conventions

One action is what runs between two points at which another transaction can come in: a
statement with its lock waits, a call to Redis or the storage, a commit. `pc[r]` names what the
handler of request `r` does next. A SELECT sees committed rows only, pending writes are derived
from the `pc` and the draft of the other requests, and `Blockers(r)` is the set of requests
whose locks or pending unique keys `r`'s next statement must wait for. A statement takes all its
row locks in one step, but for the UPDATE of many rows in Subscriptions, which takes them one by
one. `Victim` is PostgreSQL's deadlock detection, which aborts a transaction on a cycle of waiting
ones; `Fail` is any exception, a failing commit, or the death of the
worker (for the rows they are the same: a rollback). Constraints (unique keys, foreign keys) are
read from `app/models` and modelled as the IntegrityErrors they raise. `map` marks PostgreSQL's
and Redis's own mechanisms as external.

### UsagePeriods and QuotaLedger

`rows` and `used[m][k]` are the committed rows of one tenant, `now` the month of the clock. A
usage transaction has two steps: `Open` (the clock and the previous month's storage are read:
`get_or_create_period` up to its INSERT) and the call itself (`ReserveCall`, `ReleaseCall`,
`FreeCall`, `ReportCall`). From the INSERT ... ON CONFLICT on, the unique key or the row lock
keeps every other writer of that row waiting until the commit, so the rest of the transaction is
one step. A month's row is created with the storage read at `Open` (`RowOf`), which may be stale
by then. `held[r]` is `QuotaReservation._held`; `charge[r]` is a history variable that remembers
to which month each of `r`'s reservations was added, and the properties compare the counters
with it. What the pipeline does between quota calls is one step that succeeds (`Validate`,
`Register`, `Rank`, `Settle`) or raises (`Fail`). `Faults` switches on what the properties must
tolerate or exclude: `crash`, `late` (a failure after `quota.commit()` or after a search has set
its status), `release` (release_all raises), `rollover` (the month turns under running
requests), `redelete` (an image is deleted again while an earlier deletion of it runs), `retry` (it
is deleted again after a deletion that gave it back has failed).

A deletion is of one face or of a person with all its faces (`delete_person`, `PersonOf`). It reads the
live images at once (`todo[r]`), gives back one after the other, each in a usage transaction that
commits by itself (`FreeCall`, `freed[r]`), and removes them all at its own commit. Between two of these it
may fail in its ordinary course (`Abandon`: a later release, a flush, the commit raises): the request
rolls back, all its faces stay live, and those in `freed[r]` are unpaid from then on. That is what the
code does, so `LiveImagesCharged` and `StoredWithinLimit` except exactly these images (`Refunded`), and a
client that repeats the deletion gives them back once more, which is the fault `retry`.

Abstractions: one tenant (rows of two tenants never meet); the wait of two requests on the
unique key of usage_logs is left out; log rows are written with their transaction.

### FacePipeline

`faces`, `persons`, `ext` are committed rows; an upload's image and face, always written and
deleted together, are one row named for the upload, and so is the person an upload creates.
`objects` holds the uploads whose original and thumbnail are stored, `cache` the answer kept
under each Idempotency-Key. `draft`, `gone` and the `pc` are a request's pending writes.
`upload_face` is the sequence lookup, check, resolve, attach, insert, store, answer, commit;
`delete_person` is collect, then erase and flush for each face, bury, commit. Quota calls in
between are QuotaLedger's and leave no trace here. Objects and cache change at once, whether the
transaction commits or not. `stray` is a storage that refuses to delete (`_cleanup` ignores it),
`expire` a key that Redis forgets. `raced` and `struck` are history.

### Subscriptions

`packages` and `subs` are the committed rows of the package table and of one tenant's
subscriptions, `profile` is the login that provisioned the user. `begun[r]` orders the starts of
the transactions: it is `created_at`, because its server default is PostgreSQL's `now()`, and
get_current_subscription sorts by it. An UPDATE of many rows is `Snapshot` (which rows it will
touch) and a `Clear` for each of them, when its lock is free, in any order. `was[r]` is the row as
loaded: a flush writes a column only if it differs from that (`Effective`). `overlaps` is history: the pairs of requests
that ran at the same time. Abstractions: an update changes one column; renames are left out
(names are identities); `active` stands for trial and active, `suspended` for the other states
and for a passed expired_at; an admin who sets `cancelled` directly is left out.

### QuotaPromise

The abstract specification has no counters, rows or transactions: a calendar month, and for each
operation the month it stands granted in. `Grant` needs fewer than `Cap[k]` standing grants,
`GiveBack` is possible only in the month of the grant, `Turn` begins a month. `Promise` in
QuotaLedger instantiates it with `month <- now` and `granted` taken from `charge`, which the
detailed model keeps beside its counters; that the conditional UPDATE on a counter grants within
the limit is what the refinement shows. It covers the counted kinds (uploads, searches); storage,
whose units are bytes that live longer than a month, has `StorageExact` and `LiveImagesCharged`.

### FaceRegistry

The abstract specification has the committed rows only: which faces and persons are there, under
which person a face is, and the persons' external ids. `Register`, `DeleteFace`, `DeletePerson` and
`Rename` each happen at once and against what is registered at that moment: a face goes under a
person that exists, with a digest no face ever had; a live person has no other live person's external
id; a person goes with all of its live faces. The handlers make these checks many steps before they
commit, in transactions that see each other's rows only after the commit, so that a commit is one of
these operations is not plain from the code: it is what `KeepsRegistry`, the refinement, says. The one
thing the code does not keep is part of the abstract specification too, as `raced`: an upload that
has met a deletion of its person (`Meet`) may register a face of a person that is gone (the run
`face_orphan`).

### SubscriptionBook

The abstract specification has the committed packages and subscriptions and no transactions: `Provision`,
`Change`, `Create`, `Update` and `Delete` happen at once, against what is there at that moment. The
first login gets the default package of that moment; a change ends the current subscription and its own
becomes the current one; making a package the default takes that from every other; a package that
anybody ever subscribed to is deactivated, any other deleted. The handlers read all this without a lock
and commit later, so that each commit is such an operation is what `KeepsBook`, the refinement, says. Where
the service falls short the abstract action says so, with `Met(r, kinds)`: only a request that ran at the
same time as one of these kinds may do otherwise. A change that met a change may end another
subscription than the current one, or not become current itself; an update that met an edit may be
lost; a promotion that met a creation may leave another default; a deletion may commit over what it met,
and of two that met both may be answered. No `Met` excuses a subscription whose package is gone, a
subscription to a package that is not there, or a refused request that changed something. `Rows` shows
of a deleted package only that it is deleted; rejected and failed requests are stutters.

### Accounts, RateWindow and Access

A request is a sequence of places of `pc`: `connect` (wait for a connection of the pool), `account`,
`limit`, `count`, then `reserve` and `reserving` (the second connection of a quota call) or `load`,
then `commit`. An arrow is an await. A handler's rows are loaded in one step, into `seen[r]`, and
written at the commit: only the columns that differ from the loaded row, which is what an ORM
session does. That is why a deletion and a status change, or two revocations, do not simply overwrite one another
(`Written`, `Revoked`). `auth[r]` is what authentication has loaded; an admin's roles in it are as
old as that. `gone`, `given`, `admitted`, `changes` and `overlapped` are history. A window's index
comes from the application's clock before the await and its key lives by Redis's clock after it:
`seen[r].window` and `now` in `Limit`. Redis may fail at once in the limiter and in the usage page;
in `record_api_request` it raises, which is `Fail`.

Abstractions: the callers that are limited share one tenant; a key's text is its id, so no two
keys have one text; a handler's load and its first writes are one step, whose locks nobody
observes but by the order of the commits; with overlapping role changes a waiting DELETE may miss
a row that the other change re-inserted, which is left out (the property excepts overlapping
changes); an answer that Redis loses after it has executed a command is left out, so is the reuse
of an id.

### The legacy application

`LegacyBase` has what the two halves share. A step is one query with its commit (`execute_query`
opens and commits one transaction for each) or one method of `FaceDatabase`. The handlers never
await between their queries, so one process would run them one after the other; they interleave
because the application is run with `--workers N` or as several containers (`README.md:136` of the
sources), and because image jobs run in threads. `Fault` is a query or a service that fails in a
call, `Die` the death of the worker, `faulted` remembers the former. Each delivery of a Stripe
event is a call of its own, so deliveries repeat, come in any order, late, or never: what Stripe
does is `Pay` and `Arrive`, marked external. A donation is named by the call that inserted it and
knows the intent it is of, so two credits of one payment are two rows.

In `LegacyIndex` a face is an image and a person; two faces match if they show the same person, and
the answer is any `MaxResults` of the matches, so nothing depends on a similarity. A job is the
path of `process_image`: the look-up, the image row, one face after the other, the mark, each in a
transaction of its own. `scene.corrupt` are stored embeddings that cannot be read.

## 3. The runs

| Run | Shows |
|---|---|
| `quota_ledger` | The counters are exact, what is held is charged to the month it will be released from, the newest row's storage is right, failures without a fault consume nothing, a live image is paid for unless a deletion gave it back and has not succeeded, the live images but for those fit the storage limit, and every step is one of QuotaPromise's, whose grants stay within the limits (`KeepsPromise`, a refinement): with crashes, late failures, failing releases and deletions that fail half-way through a person's faces. |
| `quota_rollover` | *Violation.* `release` uses the month of its own clock reading: a search reserved before the month's end and failing after it lowers the new month's counter, and one search too many succeeds. |
| `quota_late_failure` | *Violation.* A search whose `log_usage` or commit fails has already set its status and keeps its quota. |
| `quota_redelete` | *Violation.* Two concurrent deletions of one face free its bytes twice, later uploads exceed the storage limit. |
| `face_pipeline` | One image per digest and one person per external id whatever races and retries; live faces have their objects; objects match the live faces when nothing failed; orphans and false replays have only the causes of the next two runs; every commit is one operation of FaceRegistry (`KeepsRegistry`, a refinement); every request ends. |
| `face_orphan` | *Violation.* An upload that resolved a person before its deletion commits a live face of a deleted person. |
| `face_replay` | *Violation.* The answer is cached before the commit: when that fails, retries are answered with a face that does not exist. |
| `subscriptions` | Every answered request is one operation of SubscriptionBook (`KeepsBook`, a refinement), so that subscriptions keep their packages; a first login provisions once and whole; one active and current subscription, and no deletion of a package in use or of the default, but for requests that overlap; every request ends. |
| `package_edits` | At most one default package but for edits that overlap; only the edits that make a package the default can end as the victim of a deadlock. |
| `access` | Revoked and rotated keys, ended sessions and deleted users stay out, whatever requests that had loaded their rows write afterwards; a replacement has its predecessor's expiry and scopes; without overlapping role changes somebody is SUPER_ADMIN and roles are those last given; a window has let through at most the limit, and once more for every window begun since (late hits on a dead key begin a new count); every request ends although each may wait for a second connection. |
| `legacy` | With failing queries, dying workers and repeated deliveries: a paid intent can be looked up and a completed one is on the leaderboard; only the intent's event credits; what was acknowledged is credited unless a query failed; the page's statistics include its donors; a processed image has its faces; answers belong to the event asked for. |
| `subscription_ended` | *Violation.* Of two package changes, the one that began first and reads last ends the other's subscription and inserts one dated before it: the current subscription is a cancelled one. |

Further things the models showed. *Digest of a deleted image*: the duplicate check leaves
deleted images out, the unique constraint of (tenant, sha256) does not, so an image that was
once deleted can never be uploaded again: it passes the check and ends in an IntegrityError
(`Insert` in FacePipeline). *Lock cycles*: `delete_person` updates faces and images before the
person's row, an upload the person's row before its image; two admins who promote two packages
lock the other rows one by one and may each hold the row the other needs next. In both cases
PostgreSQL must abort one. `VictimsClear` says that no other edit, login or change is exposed. *Two
defaults*: two packages created as default at once both
stay default, because the second UPDATE's snapshot does not contain the first's row; every
following first login raises in `scalar_one_or_none`. `OneDefault` therefore excepts overlapping
edits. *No SUPER_ADMIN*: two
SUPER_ADMINs who take the role from each other at once both succeed, because each guard looks at
its own caller; nobody is left who may give it back. Overlapping changes of one admin leave the
union of both, or one fails on the primary key. `RolesAsGiven` excepts both. *Status of a revoked
key*: `list_keys` may write "expired" over "revoked"; the key stays out only because
`revoked_at` is looked at too. *Rotation*: `rotate_key` does not look at the status, so a key that was
revoked or has been rotated issues another active one with the same expiry. *Deletion and
activation* at once may leave the tenant active; the account stays out by its own columns. *Commit
after the answer*: from FastAPI 0.118 on (the requirement is open above 0.115) the part of `get_db`
after its `yield` runs when the answer has been sent; a `commit` place then lies behind the
answer, which no property here relies on.

In the legacy application: a webhook that comes twice credits twice (the donation is inserted
without looking at the intent); an event whose donor or name is unknown, or whose words do not fit
their column, is lost, because every exception is logged and the delivery acknowledged, and
`create_checkout_session` looks nothing up; `donate` builds its request without the required
e-mail and the cart's queries name a column that does not exist, so both always fail;
`search-image-url` awaits a result that is not returned and always answers 500, after it has
indexed its query; `search_image` deletes the stored image it was asked about; an image is never skipped as already
processed, because `get_image_info` parses what the driver has parsed.

### Bounds, and why they are enough

* `quota_ledger`: 4 requests, 2 months, limits of 2 uploads, 1 search, 3 bytes, images of 2 and 1
  bytes. Of three uploads two are counted and fit, two searches compete for one unit, a deletion frees
  one image or both images of their person and may fail between them, the last request uses the room a
  deletion has made, and the month can end between any two requests. A lost update or a wrong release
  needs two requests, a deletion that fails half-way two images, a wrong carry-over one month's end.
* `quota_rollover`, `quota_late_failure`, `quota_redelete`: the fewest requests with the effect.
* `face_pipeline`: 4 requests, 2 digests, 2 external ids, 1 key. An upload and its retry share
  digest and key, a third request uploads to the same person or deletes, a fourth deletes or
  renames. Every constraint relates two requests and every lock cycle found has three.
* `subscriptions`: 3 requests, 3 packages (the default, another, one to be created). A race over
  one subscription or one default needs two edits and a login that set the stage or meets the
  result: one request is the login, the two others may be any edit or change, one of them a login too. Two
  of the three requests may fail.
* `package_edits`: 3 creations, updates or deletions of 3 packages, two of them seeded: two that
  clear `is_default` and one that changes the default before, between or after.

* `access`: fourteen settings of 3 or 4 requests, with 2 users, 2 scopes, a key, 2 admins and 2
  sessions. Each setting is one of the races: every pair of key operations with a use, a chain of
  rotations, status against deletion against use, two role changes and a third admin operation,
  creations of one name, bootstraps with a login, a login whose session is used, ended and
  expires (`SessionTTL` 1), two usage pages with a failing Redis, a pool of as many connections as
  requests that work the pipeline, and a window boundary (`Window` 2, clock to `LastTime` 2) with a limit that is
  reached in the window and again by hits after it. A stale write needs two requests; a wrong chain of rotations three.
* `legacy`: fifteen settings of up to 5 calls, at most two of which die, with 2 events, a donor, a photographer and 2
  images. One intent or checkout with three deliveries and a page, a job against a deletion and a search, two
  jobs of one source, searches of each kind. The thread pools have one thread each (2 and 4 in the code) and an answer 2
  matches (30): the smallest sizes at which the queue and the cut happen.

Months (`MaxMonth`), the clock (`LastTime`) and requests are bounds, the clock stops at the last month. Deadlock checking
is off: a behaviour ends when all its requests have ended.

### Fairness

`FairSpec` of FacePipeline and Subscriptions, and `Spec` of Access, ask weak fairness of `Step(r)`, the continuation of
each handler that has arrived. The event loop runs every ready handler, statements return, and
PostgreSQL grants a freed lock and breaks lock cycles; a step that stays enabled is therefore
taken. Nothing is assumed about arrivals, failures and expiry. In Access a wait for a connection is
enabled when one is free, and `PoolTimeout` when none is: SQLAlchemy gives up after its default
of 30 seconds. That Redis answers or raises is an assumption: the client is built without a socket
timeout. QuotaLedger has no liveness property: its handlers have no loop but `release_all`'s. The
legacy application has none either: its workers may die at any time, and nothing resumes a job or
asks for a delivery again.

## 4. The proofs

`QuotaLedgerProofs` proves, for every finite set of requests, all sizes, limits, numbers of months and
assignments of operations:

* `TypeCorrect`: `Spec => []TypeOK`, with every fault.
* `CountersAlwaysExact`: `Spec => []CountersExact` if `"rollover" \notin Faults`.
* `NoOverspend`: `Spec => []SuccessesWithinLimit` under the same assumption;
* `PromiseKept`: `Spec => KeepsPromise` under the same assumption, the refinement of QuotaPromise: a
  grant, a return and a month's end map to its three actions, every other step to a stutter.

The assumption is needed: run `quota_rollover` is its counterexample. Crashes, late failures,
failing releases and repeated deletions are all allowed.

`CountersExact` is not inductive. A release subtracts one, clamped at zero, from the month its
transaction read, and that is the right month only because of other facts. The inductive
invariant `LedgerInv` adds:

* `TxCurrent`: an open usage transaction belongs to the current month (no month ends under it);
* `UnreservedUncharged`: a request that has yet to reserve a kind is not charged for it, so a
  grant adds a new member to the set counted;
* `CountedHeld`: a held reservation is charged to the current month, so a release removes a
  member of the set it decrements;
* `NoRowNoCount`: a month without a row counts nothing, so the row an INSERT adds starts right;
* `LimitKept`: no counter exceeds its limit; `SuccessesWithinLimit` follows from it and
  `CountersExact`.

`OneMoreCounted` and `OneLessCounted` are the steps of the cardinality argument, `LedgerStep`
has one case per action. The bare-operator lemmas (`ReserveCounts`, `ReleaseCounts`,
`TouchCounts`) say what the table's operations do to the counters.

`QuotaHandlerProofs` builds on them: what a handler may believe of its own reservations, again
without a month's end under a running request. `HandlerInv` adds to `LedgerInv`:

* `ChargedHeld`: a request that is still working or giving back is charged for nothing but what it
  holds, and `StruckEnded`: the exceptions are those a fault has ended;
* `UploadsPaid`: an upload past its last reservation is charged for its bytes until its image is
  freed; `StoredDone` and `DeletionsOK`: only a deletion that has read committed images frees them.

From it `ReleasesMatch` (`HeldIsCharged`), `FailuresAreFree` (`FailedConsumesNothing`) and `ImagesPaid`
(`LiveImagesCharged`), the last for deletions of one or many faces that fail at any of their steps.

`QuotaStorageProofs` is about bytes. `Bytes(S)` is a sum over a set, a fold of the community modules,
and what it computes is defined by induction, which the provers cannot do over an operator. The
lemmas need only that two functions which obey the same recursion agree (`SumsAgree`): the sets
on which they differ, if there were any, would have a smallest one (the strict subset order of a
finite set is well founded), and the recursion contradicts that one. From there `BytesOfOne` and
`BytesOfFewer` say what a step does to the sum. The invariants:

* `DeletionInv`: unless an image is deleted again, it is in the hands of at most one deletion, is freed
  by it only, and is charged until then (`OneDeletion`, `FreesCharged`, `StorageOnce`), so that a
  release of bytes subtracts bytes that are in the sum.
* `StorageInv`: no row is newer than the clock's month (`RowsPast`); a transaction that has read the
  previous month's storage, and finds no row of its own month yet, carries the sum itself
  (`CarriedExact`: whoever changes the sum meanwhile makes that row first); the newest row has the sum
  (`StorageExact`); and the sum fits in the limit (`StorageKept`).

`StorageAlwaysExact` and `StorageNeverOverspent` need `"rollover"`, `"redelete"` and `"retry"` to be no
faults; the run `quota_redelete` shows why for the second, and a repeated deletion frees the same bytes as a
concurrent one. From them and `HandlerInv` follow two claims which the runs `quota_redelete` and
`quota_late_failure` refute in general, with what it takes for them to hold:

* `ImagesFit` (`StoredWithinLimit`), under the same assumptions: once no request runs, the live images fit
  the limit but for those that failed deletions gave back. The exception is needed without any fault: a
  deletion of two faces whose second release raises leaves the first image live and unpaid. Crashes, late
  failures and failing releases are allowed.
* `NothingConsumed` (`NoFailureConsumes`): without late failures, failing releases and a month's end,
  a failed request has consumed nothing; crashes and repeated deletions are allowed.

`FaceProofs`, for all sets of requests, digests, external ids and keys, and any failures. Each theorem
rests on an invariant that says which *pending* writes exclude each other, because the properties
speak of committed rows only:

* `TypeCorrect`, from `PlaceInv`: what each place of a handler says of its request.
* `RegisteredOnce`, from `ImageInv`: of the uploads past their INSERT and the committed images, no
  two have one digest (`DigestsOK`): an INSERT waits for the pending ones and fails on the committed.
* `FacesStored`, `ReplaysKept`, `ObjectsMatch`, from `StorageInv`: an upload past its store has its
  objects until it commits (`StoredOK`), a cached answer is backed by a face or by an upload that commits
  or was struck (`AnswersOK`), and while nothing is struck an object belongs to a live face or to an
  upload that goes on (`CleanOK`).
* `OnePerson`, from `KeyInv`: drafts that will commit and live persons name each external id once.
* `OrphansAreRaced`, from `RaceInv`: a deletion has collected every face of its person but those
  whose uploads it has met (`MeetingsOK`, `CollectedOK`).

`FaceRegistryProofs` proves `RegistryKept`: `Spec => KeepsRegistry`, the refinement of FaceRegistry. Every step
but a commit leaves the mapped variables alone or is `Meet` (`OtherSteps`); a commit is `Register`,
`DeleteFace`, `DeletePerson` or `Rename` (`UploadCommit`, `FaceDeletionCommit`, `PersonDeletionCommit`,
`RenameCommit`). The invariants above supply the abstract guards: `ImageInv` that the digest is new at the
commit, `KeyInv` that the external id is free at the commit, `RaceInv` that a deletion has every live
face. `DeletionsOK` is new: a deletion holds faces and persons that are registered.
`RegistryIsEnough` is about FaceRegistry alone: `KeepsRegistry` implies `RetriesRegisterOnce`,
`OnePersonPerExternalId` and `OrphansRaced`, so a rewrite of the handlers that still implements it keeps them.

`SubscriptionProofs`, for every finite set of requests and all packages, failures included:

* `TypeCorrect`; `ProvisionedOnce`: the unique user id makes all first logins but one wait or fail
  (`ProvisionOK`).
* `PackagesStay`: those that subscribe to a package and those that drop it exclude each other
  between their lock and their commit (`KeptOK`).
* `DeletionsAreSafe`, an action property: what a deletion did not see was committed by a request it
  overlapped (`OverlapOK`, `DeleteOK`).
* `DefaultIsOne` and `CurrentIsOne`, unless two edits or two changes overlapped: the default rows are
  among those the one running edit has cleared or will clear (`DefaultOK`); starts are a
  total order, and a running change began after every subscription there is (`OrderOK`, `SubsOK`).
* `VictimsPromote`, an action property about cycles of any length: a transaction of a cycle waits, so it
  holds only rows that an UPDATE of many rows has locked before, and only an edit that makes a
  package the default runs one (`LocksOK`).
* `BookKept`: `Spec => KeepsBook`, the refinement of SubscriptionBook. Each commit has its lemma
  (`BookProvision`, `BookChange`, `BookCreate`, `BookUpdate`, `BookDelete`), arrivals are `BookArrival`, everything
  else leaves the mapped variables alone (`BookQuiet`). The inductive invariant `BookInv` joins those above
  with what each handler's early reads are still worth at its commit: no row is locked twice, and a pending
  edit's row is there (`HoldsOK`); a row is as it was loaded unless another edit was met (`LoadedOK`); a
  promotion has cleared every package but those whose creation it met (`ClearsOK`); a first login's choice
  is the default unless an edit was met (`ChosenOK`); a deletion that found subscriptions has some (`RefsOK`);
  what a change has read is the current subscription unless a change was met (`ChangeOK`).
* `BookIsEnough`: `KeepsBook` alone implies `PackagesKept`, `OneSubscription` and `OneDefault` (`EnoughInv`, an
  invariant of SubscriptionBook); what the book lets a request miss, because it met another, is no more
  than these allow.

`AccessProofs`, for all sets of requests, users and scopes, all settings and any window and clock:

* `WithdrawnStaysOut`, `DeletedStayOut`, `ReplacementsBounded`. A stale handler may write
  `status` back, so admission cannot rest on it: the inductive invariant `AccessInv` says that the
  columns nobody clears (`revoked_at`, `deleted_at`, `revoked_at` of sessions) are set for whatever is in `gone`
  (`KeysOK`, `SessionsOK`, `ProfilesOK`), and that what a handler has loaded agrees with the row in
  the columns that never change (`SeesOK`). `IdsOK` says that a row a request adds is new.
* `LimitHolds` (`WindowAdmits`), which counts every request a window's key lets through, the late ones
  included. `WindowInv`: a key lives for a whole window, so each further life of it ends at least one
  window later than the one before (`NextWindow`, `LaterWindows`), and in each at most the limit pass. Hence
  at most the limit while the window lasts, and once more for each window begun since.
* `SuperAdminStays`. `RolesInv`, relative to `AccessInv`: while no changes have overlapped, the caller
  of a pending change is still the SUPER_ADMIN it was when it was authenticated, and its rows are those
  there are, so the guard on oneself leaves one.
* `TypeCorrect`, from `AccessInv` and `WindowInv`.

`LegacyProofs`, for all sets of calls and settings, any number of failures and deaths:

* `PendingTracked`, `CreditedByOneEvent`, `AcknowledgedIsCredited` from `PaymentsInv`: what is paid
  was answered first, an answered intent has its row and names what exists, and a delivery that
  goes on to settle has its donation.
* `ProcessedIsIndexed` from `IndexInv`: a job that is at its faces has stored those that are done
  with, and one about to mark its image all of them.
* `PageComplete` (`PageNotBehind`) from `PageInv`: no row of the leaderboard goes or leaves the statistics
  (a worker's start relabels rows only towards them), so what a page counts last includes what it
  listed first.
* `AnswersStayInEvent` (`AnswersOfEvent`) from `AnswersInv`: an image keeps the event it was added with,
  and one that is gone does not come back (whoever adds it is past that), so neither what a search
  has matched nor what it shows bare changes its meaning before the answer.
* `TypeCorrect`.

The assumptions of the proofs are those on the constants (sets of requests are finite where requests are
counted; the placeholders are no members) and `"rollover" \notin Faults` above. Those of Access and
LegacyApp say that the settings' rows are well formed, an intact table's (no replaced keys, a
revoked key says when, some SUPER_ADMIN if there are admins), and that requests name rows of their
own: no row that is there at the start is one a call will insert.

Only model-checked: the liveness of FacePipeline, Subscriptions and Access (`Answered` twice,
`EveryRequestEnds`), which needs fairness and is out of the prover's reach. Every other property of a
passing run is a theorem. Of the properties the violation runs refute, `SuccessesWithinLimit`,
`StoredWithinLimit` and `NoFailureConsumes` are theorems without the fault that breaks them; what remains true
of `FacesHavePersons`, `ReplaysRegistered` and `CurrentNotEnded` is `OrphansRaced`, `ReplaysAccounted` and
`OneSubscription`.

## 5. The plan

Done: UsagePeriods, QuotaLedger and QuotaPromise; FacePipeline and FaceRegistry; Subscriptions and
SubscriptionBook; Accounts, RateWindow and Access; the legacy application: each with its runs and its proofs.

Left, in order:

1. The composition of Access and QuotaLedger: one pool of connections under real reservations,
   and a month's end inside `_sync_api_count`.
2. The ranking of search results as operators against a reference definition.

## 6. Not modelled, and why

Face detection, embeddings, similarity and thumbnails (pure computation: a step that returns or
raises, or a choice of who is shown); token, password and hash checks (cryptography); the MinIO and
Supabase clients, signed URLs, health probes, settings, logging, envelopes and schemas (I/O,
wiring, formatting); the audit log (append-only, read by nobody but its listing); listings, the
dashboard and the legacy statistics and debug pages (they only read); a user's name, avatar and
role (read by nothing that decides); `set_subscription_status` and `handle_failed_payment` (no caller); amounts of donations (added up, and cut to
whole cents by `int(amount * 100)`; no property is about them); the rows of events and details that a
failing legacy handler leaves behind are in the model, the object of a failed `create_event` is
left in the bucket there as in the code; migrations (read for their constraints).
