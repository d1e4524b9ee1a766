# Verification of the onboarding dashboard

TLA+ modules, TLC configurations and TLAPS proofs about the services of this
repository. Line numbers are those of the files under `src/`.

## 1. The system

| Part | State it keeps | Operations | Talks to |
|------|----------------|------------|----------|
| Auth service (`services/auth`) | table `users`; `token:*` in Redis, never read | Register, Login, Health; GenerateToken, AuthMiddleware | PostgreSQL, Redis |
| User service (`services/user`) | table `profiles`; `profile:<id>` in Redis, 15 minutes | CreateProfile, GetProfile, UpdateOnboarding, Health; `go assignStarterPack` | PostgreSQL, Redis, gRPC to inventory |
| Inventory service (`services/inventory`) | collection `assets`; `assets:all` in Redis, 5 minutes; one circuit breaker | ListAssets, CreateAsset, AssignAsset, Health; gRPC AssignStarterPack | MongoDB, Redis |
| Circuit breaker (`circuitbreaker/breaker.go`) | state, failures, lastFailure, under a mutex | Execute, doExecute, GetState | wraps every Redis command of inventory |
| Mesh (`mesh/envoy-*.yml`) | retry budget of each request | retries on 5xx, connect failure and reset: 3 of at most 3 s, 10 s in all | between gateway and services |
| Dashboard (`frontend/app.js`) | token, `currentStep`, what it shows | register, log in, next step, load profile, load and add assets, health poll | the three HTTP APIs |
| Startup (`cmd/server/main.go`) | attempt counter | 5 connection attempts, then `log.Fatal`; Docker restarts | databases |
| Gateway, tracing, monitoring, generated stubs | none that the services read | routing, spans, scraping | |

How they interact: the browser calls the three services over HTTP through the
gateway and one Envoy per service; the user service calls the inventory service
by gRPC, from a goroutine nobody waits for; all three services share one Redis,
which evicts (`allkeys-lru`), expires keys, saves snapshots and is restarted.

What is hard here: handlers of one service interleave at every database and
Redis command; the breaker's lock is not held while the wrapped command runs;
invalidations may be refused, fail or be cancelled after the write they belong
to; a command's answer may be lost; services and Redis crash and come back,
Redis with an old snapshot; and a miss of the cache is, to the breaker, a
failure. `PROJECT.json` lists each such hazard at its line.

What makes each part correct:

* breaker: its state agrees with its counters in every order of outcomes, the
  backend is left alone after an outage, and the breaker does not stay open;
* inventory: an asset is assigned once and keeps its owner; no list shows what
  never was; a stale list has a known cause and goes away; every request is
  answered whatever Redis does; misses alone do not trip the breaker;
* user service: profiles in the cache are old states of the same user's row, a
  stale one has a known cause and goes away; a PATCH with step 5 leads to a
  whole starter pack unless one of four named failures loses it or leaves it
  short, and never to two;
* auth service: an email is registered once, a token is that of the account
  with the client's own email and password, and who was given one can log in;
* mesh: what a service does twice because Envoy repeats a request has no other
  effects than those named in the properties of the services;
* dashboard: the step it shows is one that the profile of the user whose answer
  came last really had (she need not be the one who is logged in), and users go
  through the steps one by one, unless a known cause makes them skip one or go back;
* startup: what listens is prepared, and comes up for good once its database does.

## 2. The modules

| Module | Models | Depends on |
|--------|--------|------------|
| `Breaker` | the breaker as a data type: one operator per critical section of `breaker.go` | |
| `AdmissionPolicy` | what the breaker promises: an admission rule without modes | |
| `BreakerCalls` | goroutines calling `Execute`; implements `AdmissionPolicy` | `Breaker` |
| `AssetStore` | what the inventory promises: assets assigned once, lists that were true once | |
| `Inventory` | the handlers of `inventory.go` and `grpc.go`, MongoDB, Redis, breaker; implements `AssetStore` | `Breaker` |
| `InventoryBlame` | `Inventory` with a history variable: why the cached list is stale | `Inventory` |
| `ProfileStore` | what the user service promises: one profile per user, copies that were true once, one pack per claim | |
| `Profiles` | the handlers of `user.go`, PostgreSQL, Redis, `assignStarterPack`; implements `ProfileStore` | |
| `ProfilesBlame` | `Profiles` with a history variable: why a cached profile is stale | `Profiles` |
| `ProfilesReward` | `Profiles` with a history variable: whose claim to a pack was lost | `Profiles` |
| `Mesh` | Envoy in front of a service: tries, timeouts, retries, late answers | |
| `Accounts` | `auth.go` behind its Envoy, and the clients that register and log in | `Mesh` |
| `Onboarding` | `app.js` in a browser that users share, Envoy, and the user service as far as `Profiles` implements it; implements `ProfileStore` again | `Mesh`, `ProfileStore` |
| `Startup` | `cmd/server/main.go` of the services, Docker, the databases' coming and going | |
| `MC...` | values of the constants for TLC, one module per module that a run checks | |
| `BreakerTheorems`, `MeshTheorems` | lemmas about the modules that others are built on | `TLAPS` |
| `BreakerCallsProofs`, `InventoryProofs`, `ProfilesProofs`, `AccountsProofs`, `OnboardingProofs`, `StartupProofs` | theorems | `TLAPS` |

`Onboarding` takes the user service from its abstract specification and not from
`Profiles`: a GET may show any step its user's profile ever had (which is what
`ImplementsStore` says of the cache in `profiles_safety` and for all constants in
`ProfilesProofs`), and a claim to a pack is granted once or lost.

### State and actions against the code

`Breaker`. `state` and `failures` are the fields of the struct. `lastFailure`
is the time `quiet` elapsed since it, because the code only asks whether
`time.Since(lastFailure) > timeout`; it stops at `Timeout + 1`. `failures`
stops at `FailureCap`, because the code only asks whether it has reached
`maxFailures`. `Admits`/`Admit` are `Execute` up to the unlock,
`RecordFailure`/`RecordSuccess` are `doExecute` after `fn` returned.

`BreakerCalls`. `Start` and `Reject` are the two ways through `Execute`'s
critical section, `Succeed` and `Fail` those through `doExecute`'s. In between
the caller is not `"idle"` and holds no lock.

`Inventory`. A goroutine of `Request` serves one request after the other. `pc`
says where it is: `gate` (about to call `Execute`), `redis` (command sent),
`report` (about to record the outcome), `find` (list missed, about to query
MongoDB), `pack` (in the loop over starter assets). `cmd`, `view`, `out`, `live`
and `pack` are its local variables: the Redis command, the list it holds,
`err`, whether its context is still alive, what is left of the pack. `docs` is
the collection, `cache` the key `assets:all`, `dump` the same key in Redis's
snapshot.

| Action | Code |
|--------|------|
| `ListAssets`, `ListFind`, `ListFindFails` | `ListAssets`: to the GET; Find and cursor.All; their errors |
| `CreateAsset`, `AssignAsset` | the insert, the `FindOneAndUpdate` filtered on `available`; then the DEL, unless the answer is lost |
| `AssignStarterPack`, `InsertStarter`, `InsertStarterFails`, `NextStarter` | the gRPC method: the loop, `continue` on an error, the DEL at the end |
| `Health` | the ping of MongoDB, which may use up the two seconds both pings share |
| `Execute`, `ExecuteRejects`, `RedisAnswers`, `RedisFails`, `Report` | one Redis command through the breaker |
| `Cancel`, `Crash`, `RedisCrash`, `RedisRestart`, `RedisSave`, `Expire`, `Evict`, `Tick` | the surroundings |

The first database command of `CreateAsset`, `AssignAsset` and `Health` is one
step with the arrival of the request: nothing shared is read before it. A query
is atomic, as it is for collections that fit one batch. A command that is
carried out after its request was cancelled is covered by the order in which it
is carried out first. MongoDB does not lose what it acknowledged. After a
service crash the new process is there at once: while it starts it serves
nothing.

`Profiles`. A goroutine of `Request` serves one request after the other; after
the last step it stands for the goroutine `assignStarterPack` that the handler
leaves behind, so that `call` comes after the reply. `row` is the table: the step
of each user, 0 for no row. `onboarding_done` is not a variable, because every
statement writes it together with the step. `cache` and `dump` are the keys
`profile:<id>` in Redis and in its snapshot, `held` is the handler's `profile`.
`packs` counts the whole starter packs, those of which the inventory service
inserted every asset, up to `PackCap`. There is no breaker here, and a Redis command is one step: its outcome is dropped.

| Action | Code |
|--------|------|
| `CreateProfile` | INSERT (`user_id` is UNIQUE), then the SET of the new row |
| `GetProfile`, `SelectProfile`, `SelectFails` | the GET that misses or fails; the SELECT; 404 or 500 |
| `UpdateOnboarding` | UPDATE ... RETURNING, then the DEL |
| `RedisAnswers`, `RedisFails` | the SET or DEL; after the DEL of a last step, `go assignStarterPack` |
| `PackAssigned` | the gRPC call, with its own context of five seconds: all assets are inserted |
| `PackShort` | the gRPC call answers without an error although inserts failed (`grpc.go:77-101`) |
| `PackFails` | the gRPC call fails |
| `Cancel`, `Crash`, `RedisCrash`, `RedisRestart`, `RedisSave`, `Expire`, `Evict` | the surroundings |

The queries do not take the request's context, the Redis commands do: `Cancel`
only makes the SET or DEL fail. A GET that is cancelled leads to a SET that
fails as well, so it changes nothing. Of the step that a client sends the handler
asks only whether it has reached 5 (`user.go:142`): `LastStep` stands for 5 and
all above, a smaller step for all below, zero and negative ones included. The
model sends no 0 because there it says that there is no row. A pack of which only
some assets were inserted, or none, counts as no pack; which ones were is the
matter of `Inventory`.

`Mesh`. A call is one request of a client, a try one request of Envoy's to the
service. `tries` counts the tries of each open call, `stage` is where each try
is: `run` until the service has dealt with it, then its answer. Only the last
try's answer counts. `Retry` follows an error, or no answer in three seconds
(`"slow"`); it needs a retry left of the call's `num_retries` and of the
cluster's `max_retries`. A try that was given up keeps running and may be served
after the next one, because the handlers do not bind their queries to the
request's context (`auth.go:65`, `user.go:145`). There is no clock: a try may time
out at any moment. The route's timeout of ten seconds can end only the fourth
try, since three take at most nine. The limits on connections and
pending requests answer 503 before a try starts, which is a try that fails.

`Accounts`. `users` is the table; rows are never changed. A password stands for
its hash, a token for the id it carries. `redis` is the set of ids whose `token:*`
key exists: `Login` writes it and nothing reads it. `told`, `own` and
`entitled` are history: who got which token, which calls made their account, and
which were sent by somebody who had a token before.

| Action | Code |
|--------|------|
| `Send`, `Reply`, `ReplyError`, `Leave` | a client (`handleRegister`, `handleLogin`) and the end of its request |
| `Register`, `RegisterTaken` | the INSERT and the token, or the unique constraint: 409 |
| `Login`, `LoginDenied` | SELECT, comparison, token, the SET in Redis; 401 |
| `Fail`, `TryAgain` | the try fails before its query; Envoy repeats it |
| `ExpireToken` | the key's 24 hours end, or it is evicted |

`Onboarding`. `token`, `screen`, `step` and `hidden` are the page's token,
visible screen, `currentStep` and the button's class; `shown` is history: whose
profile `step` is from. `loads` are the users whose profiles the page has asked
for: the answers to those GETs may come at any time, and one that fails changes
nothing. `who` and `asks` are the token and the step of each POST or PATCH under
way. `row`, `claims`, `packs` are those of `ProfileStore`; `past` is all that the
cache may hold. `blame` is history: whether a user clicked behind another's step
(`"stranger"`), or on an outdated page or while a try of an earlier request might
still be served (`"haste"`), or whether Envoy repeated her last step while the try before might still be served
(`"retry"`). `"haste"` is wider than the word: a request whose last try was
answered may have a try before it that Envoy gave up and that the service is
still to carry out. A user who waits for the answer, and sees the right step,
is then in haste all the same, because that try can still write the older step
over the one she asks for, and the page could not have told her.

| Action | Code |
|--------|------|
| `Register`, `ProfileAnswer` | `handleRegister`: the token is there before the POST of the profile, whose answer is not looked at |
| `RegisterUnheard` | an account whose owner was told nothing (`Accounts`): it has no profile |
| `Login`, `Logout`, `Reload` | `handleLogin`, `logout`, a fresh page with the token it kept in `localStorage` |
| `LoadAnswer` | `loadProfile`, whoever is logged in when the answer comes |
| `Click`, `Advance`, `Remain` | `advanceStep` up to the PATCH; its answer, ok or not |
| `Create`, `CreateAgain`, `Update`, `UpdateUnanswered`, `NotFound`, `Unauthorized`, `Fail` | the user service, one step per try |
| `Grant`, `LoseClaim` | `assignStarterPack` |
| `Break`, `TryAgain` | the connection breaks; Envoy repeats the request |

`Startup`. `pc` is where `main` is; `failed` counts its attempts, `grpc` is the
goroutine of the inventory service. `db` says whether a database answers: each
service has its own (users and profiles are tables of one PostgreSQL, which the
services reach, or fail to reach, each for itself). `Despair` and the failing
`CreateTable` are `log.Fatal`. The inventory service creates no table, the others
serve no gRPC (`ServiceAssumption`).

## 3. The runs

| Run | Question | Bounds |
|-----|----------|--------|
| `breaker` | do state and counters agree, does the backend rest, is the breaker the modeless policy, does it leave OPEN, what may set its timer back, and does it close once calls succeed? | 3 callers, threshold 2, timeout 2 |
| `breaker_oneprobe` (violated) | does HALF-OPEN let one probe through (breaker.go:16)? | same |
| `inventory_safety` | does the service implement `AssetStore`, without phantoms, and what makes a cached list stale? | 1 reader, 1 goroutine for every endpoint, 2 users, 1 asset, packs of 2, every fault |
| `inventory_nofaults` | do misses alone trip the breaker or skip invalidations? | 3 readers, 1 writer, 2 assets, packs of 2, threshold 5 as in main.go:76, no faults |
| `inventory_live` | is every request answered, does each step bring the answer nearer, do stale lists go away, do health checks close the breaker after an outage? | 1 reader, 1 goroutine for the other endpoints, threshold 2, crashes of Redis and the service, failures of MongoDB, cancellations |
| `inventory_misses` (violated) | does the breaker trip only in an outage (breaker.go:48)? | 5 lists, threshold 5, no faults |
| `profiles_safety` | does the service implement `ProfileStore`, and what makes a cached profile stale? | 2 users, one served by one goroutine and one by two, 2 steps, every fault but cancellation |
| `profiles_live` | do stale copies go away, and does a completed onboarding lead to a pack unless a claim is lost, and who is to ask for it until then? | 1 user, 2 goroutines, 3 steps, every fault |
| `onboarding` | does the page show true steps, who skips a step, who goes back, who is given a second pack, is the user service used as `ProfileStore` allows? | 2 users, 2 calls at a time and 4 in all, 2 tries each, 1 retry at a time, 3 steps, every fault |
| `onboarding_twice` (violated) | does a user get one pack (grpc.go:30-31, envoy-user.yml:36-37)? | 1 user, 1 call at a time, 2 tries, 2 steps, late answers only |
| `accounts` | whose tokens do clients get, can they log in later, also after a refusal, who is refused? | 2 calls at a time, 2 tries each, 1 retry at a time, 2 emails, 2 passwords, 2 ids, every fault |
| `startup` | is what listens prepared, does it come up, and does each step bring it nearer? | one service with a table, one with gRPC, 5 attempts, databases and processes stop at any time |

Why the bounds are enough to see the interesting cases: three callers let a
breaker trip with one call still in flight and another one waiting; a timeout of
two units distinguishes early, late and elapsed; a threshold of two distinguishes
the first failure from the one that trips. Two users are needed for two owners of
an asset; one asset suffices to make a list stale, so the runs with faults use
one and spend the states on the faults: there the second insert of a pack finds
the pool full, which is one way an insert fails. `inventory_nofaults` inserts
whole packs. What lists with several assets may show is proved for any number of
them. `Asset` bounds the number of inserts in all runs. Three steps let a row go
forth and back past a copy; the two steps of `profiles_safety` are the first and
the last, the only ones the code treats differently, and two users are there for
one's copy under the other's key. A cancelled Redis command has the same effects
as one that times out without being carried out, so `profiles_safety` leaves
cancellation to the other runs. `PackCap` is 2 in `onboarding_twice`, where no, one and too many
packs must be told apart, and 1 elsewhere, where each pack must use up
a claim: a second pack shows there as a claim beside a pack or beside another
claim (`SecondPackHasCause`), and the theorem counts packs up to any bound.

With one retry there are already a try that is given up and one that counts,
carried out in either order; the second and third retry of the code add more of
the same, and the theorems hold for any number. One retry at a time of two
calls lets the cluster's budget refuse one. Calls are reused as soon as their
last try is over: `Accounts` has no bound on the number of requests but the ids,
and `Onboarding` allows four calls of the user service, enough for two
registrations and two clicks, or one registration, two steps and one repeated
click. `LastStep` is 3: a first step, one in between and one that completes; two
steps could not be skipped. Logins, logouts, reloads and loads are not
bounded. The user service starts like the auth service, so `startup` has one of
them; services do not act on each other while they start. Symmetry is used for
users, assets, calls, emails, passwords, ids and equal readers, in runs without
liveness properties only.

Fairness. `BreakerCalls`: time passes, a call that runs ends, callers keep
calling. `Inventory`: a goroutine that can proceed does, which assumes that
each command sent to MongoDB or Redis returns (go-redis has read timeouts;
MongoDB's driver notices broken connections); keys expire; time passes; health
checks keep coming, because Prometheus scrapes `/api/inventory/health` every 15
seconds (`monitoring/prometheus.yml`) and each open dashboard asks as often
(`app.js`, `checkHealth`). `Profiles`: a goroutine that can proceed does (the
queries and Redis commands return, the gRPC call has a deadline), and keys
expire. `Startup`: processes run on and Docker starts what has ended
(`restart: unless-stopped`); that databases come back is a premise of
`EventuallyServes`, not an assumption about the system. Faults, arrivals of other
requests, eviction and snapshots are never assumed to happen. No strong fairness is
used. `Accounts` and `Onboarding` have no liveness properties: a client may
leave at any moment, and each try ends or is given up by `Mesh`'s own steps.

`QuietRecovery` has premises where the code has no remedy: lists keep the breaker
open (below), and MongoDB can use up the two seconds that Health allows for both
pings (`inventory.go:224`), so that the ping of Redis fails although Redis works.

`CompletionIsRewarded` is about whole packs and names the four ways in which one is
lost: the service dies before the call; the call fails or takes more than five
seconds; the call is answered without an error, but the inventory service could
not insert some of the assets, or any of them, and logged and skipped those
(`grpc.go:77-101`), while the user service does not look at how many came
(`user.go:199`); or PostgreSQL's answer to the UPDATE is lost, and the handler
never starts the goroutine. The call is made once and its error is logged only.
Then the row says done, and when the PATCH itself was answered, the dashboard says
"Starter pack assigned" (`app.js:137`); there is none, or a part of one. Failures of Redis, cancelled requests and a failing
DEL do not lose the pack: that is what the property shows.

Four of the liveness properties have a safety property beside them that says why
they hold, and that is proved: the breaker does not stay OPEN because only calls
that were in flight when it tripped set its timer back (`LateFailuresRunOut`); a
request is answered because each of its steps lowers a measure that no other step
raises (`AnswerComesNearer`); a service comes up because each of its steps,
giving up and being restarted too, brings it nearer to its listener while its
database answers (`NearerWithDatabase`); and a pack comes because somebody is there
to ask for it (`PackIsComing`). What fairness adds, that those steps are taken,
is left to the runs.

### What the violated runs show

* Any number of probes run in HALF-OPEN, where the comment promises one.
* `redis.Nil`, the answer to a GET of a missing key, is an error to the breaker:
  with an empty cache, five concurrent lists open it while Redis works.
* Each PATCH with the last step asks for a pack, whether or not the onboarding was
  done. One click suffices for two of them: Envoy gives the PATCH up after three
  seconds and repeats it, both tries are carried out, and the user has six assets
  instead of three. `envoy-user.yml:36` says that the service does not even know
  that a retry happened: that is why it asks again. `SecondPackHasCause` says
  that this retry, or a click the page should not have offered, is the only way:
  an UPDATE whose answer is lost asks for no pack, and its retry asks for one.

Other things that happen in states which the properties allow, so that no run ends
in them:

* Because a miss is a failure to the breaker, lists keep an empty cache empty after
  an outage: the GET that is let through as a probe misses and reopens the
  breaker, and the SET that would follow is refused. It takes a health check
  that comes first, or a pause in the lists, to close the breaker:
  `QuietRecovery` has the end of the lists as a premise for that reason.
* A completed onboarding may end with a part of a pack, or with nothing, although
  every service is up and every call was answered (`PackShort`).
* A registration whose first try was carried out late or unanswered is answered
  409 after the retry (`OwnRefusalIsRetry`); the account exists, its owner can log
  in (`OwnAccountOpens`), but has no profile, and the dashboard offers no other way to get one.
* On a shared browser the second user sees the first one's step until her own
  profile is loaded, and a click in that time sends the step after his
  (`SkipHasCause`, cause `"stranger"`).
* Two clicks in a row, one on a page that shows a cached old step, or one while a
  try that Envoy gave up is still to be served can take a user back
  (`BackHasCause`, cause `"haste"`): the UPDATE does not compare with the row.

## 4. The proofs

All theorems hold for any values of the constants that meet the named
assumptions of the modules: any goroutines, users, assets, calls, emails and
services; any threshold, timeout, number of retries, of attempts and of steps;
any workload and any faults (`MaxFailures` at least 1, `FailureCap` at least
`MaxFailures`, packs of at least one asset, packs counted up to at least 1, a
last step above 1, users distinct from the marks of a free asset, answers distinct
from the stages of a try).

Three groups of theorems have a hypothesis on the constants besides.
`FailuresAreMissesCorrect`, `OnlyOvertakenCorrect` and `NeverTrips` assume
`FewAndFaultless`: no faults, and fewer requests at a time than `MaxFailures`.
Without that they are false (run `inventory_misses`). `ClaimedOrGivenCorrect`
assumes that the service does not crash, that PostgreSQL and the inventory answer
and that no insert of an asset fails, `ReadYourWrites` (`Reliable`) that the service does not crash, PostgreSQL
and Redis answer and no request is cancelled; each of these faults alone is a
cause that `PackIsComing` or `StaleHasCause` has to name.

`BreakerTheorems` has one lemma per operator of `Breaker`: it keeps a breaker
`Consistent`, that is typed, CLOSED exactly below the threshold, and HALF-OPEN
only when the timeout is over.

`BreakerCallsProofs`: `IInv` is the types and `StateMatchesCounters`, which is
inductive with them. On a consistent breaker the test on the state field is the
modeless test (`AdmitsIsModeless`); this gives `BackendRestsCorrect`, and, one
action after the other, `PolicyImplemented`. `LateFailuresRunOutCorrect` needs the
modes: a breaker that is OPEN before and after a step has let nobody in.

`InventoryProofs`: the types alone are not inductive, because the loop of
`AssignStarterPack` subtracts one in each round; `IInv` adds that a request in
the loop knows its user and has something left to insert (`StarterLoop`), and
that the breaker is consistent. `StoreImplemented` maps each action to a step of
`AssetStore` or to a stutter; the argument is that no step puts into Redis, its
snapshot or a handler anything but a list already kept or the present collection
(`KeptFrom`). `PhantomFree` follows: no step of `AssetStore` outruns a list.

`StaleHasCauseCorrect`: each step is shown to be `Accounted`, that is, to leave no
stale list, or a request that still owes its DEL, or one of the four causes, or
nothing worse than before; the history variable then keeps the cause as long
as the list is stale.

`FailuresAreMissesCorrect` needs to know that nothing goes wrong (`Calm`: Redis is up,
all contexts are alive, an error that is about to be recorded is a GET's), because
only then is each failure a miss, and each miss followed by its SET. The bound
on the failures keeps the breaker CLOSED, so Execute refuses nothing, which in turn
keeps the bound: neither is inductive alone. `OnlyOvertakenCorrect` rests on
the same invariant, under which the other three causes have no step, and
`NeverTrips` states the part of it that the comment at `breaker.go:48` is about.

`AnswerComesNearerCorrect` takes the steps one by one: what a step of a request
does to its measure `Ahead`, and that the steps of all others leave its program
counter, its command and its pack alone. It needs of `IInv` that a loop over a pack
has something left. `AssetsStayCorrect` follows from the refinement: no step of
`AssetStore` takes an asset from its owner or out of the collection.

`ProfilesProofs`, for any goroutines, users, last step above 1 and faults:
`IInv` adds to the types that a goroutine that is not idle serves a user, without
which `row[user[r]]` has no type. `StoreImplemented` shows that copies are old
copies or the row before or after the step (`CopyStep`), that a step of one
goroutine leaves the claims of the others alone (`ClaimsOfOthers`), and that its
own claim is made by the UPDATE of a last step, kept through the DEL, and used up
or lost by the call. So no PATCH is worth two packs, for any interleaving.
`StaleHasCauseCorrect` is argued as in `InventoryProofs`, user by user. While the
stores answer, only one cause of it can still happen, the late fill, which cannot
happen to a user whose requests are served one after the other: `ReadYourWrites`.

`PackIsComing` is inductive with the types, because each step `Cares` for the
pack: it takes none away (`KeepsPack`), hands a claim on, uses it up or loses it
for one of the first three reasons (`PassesClaim`), and completes an onboarding only
together with a claim or with the loss of it (`MakesClaim`). The same three facts
give `ClaimedOrGivenCorrect`, once `NothingLost` has shown that without those
faults nothing is lost.

`MeshTheorems`: `Orderly` says that only the last try of an open call has an
answer and that none is made after it; the lemmas say what each operator of
`Mesh` does to tries and to calls that are over. The two modules that use `Mesh`
cite them instead of its definitions.

`AccountsProofs`: the conjuncts of `IInv` are the properties themselves and the
facts that connect them: an open call asks for something, who is entitled was
told so by an account that is in the table (rows are never changed), and a call
whose own registration succeeded has not been refused in its first try. An
email is free only if nobody was welcomed with it, hence `OneWelcome`. The account
of a client's own try stays in the table for as long as her request lasts
(`OwnSteps`), hence `OwnAccountOpens`.

`OnboardingProofs`: the properties are about the past, so `IInv` has to say what
requests under way may still do. `Served`: an ok means that the step was written.
`NoSkip`: a request of a user who never clicked behind another's step asks for
the step after those she had. `NoBack`: a user to be blamed for nothing has at
most one PATCH under way, for the row's step or the next, so however often it is
tried, and in whatever order, the row does not go back. `ClaimedOnce`: a try that
made a claim is not served again, which `StoreImplemented` needs.
`SecondPackHasCauseCorrect` rests on two facts more about a user to be blamed for
nothing (`PackInv`): her PATCH of the last step has one try that is not over
(`OneTry`), because a try that may still be served is repeated only at the
price of the cause `"retry"`; and once she has a claim or a pack, her row is at the
last step and no try of hers is running or has failed (`Settled`), so that neither
Envoy nor the page asks again. Neither is inductive without the other.

`StartupProofs`: `InOrder` is what `main` has behind it at each point; the
goroutine is never ahead of the ping. `NearerWithDatabaseCorrect` needs of the
types that `Ahead` tells all states of `main` apart.

Only model-checked: the liveness properties (`OpenIsTemporary`, `Recovers`,
`EveryRequestIsAnswered`, `EventuallyFresh` of both services, `QuietRecovery`,
`CompletionIsRewarded`, `EventuallyServes`). That a fair action is enabled, and that a
measure which falls cannot fall for ever, is out of the prover's reach; the measures
themselves are proved. `Recovers`, `QuietRecovery` and `EventuallyFresh` have no
such measure: they hold because of what stops happening, not of what each step does.
Every invariant and action property of the passing runs is proved.

## 5. Not modelled

* Gateway routing, tracing, generated stubs, monitoring and the page's layout keep
  no state that the services act on.
* The cryptography of tokens and passwords is taken as given. That a token ends
  after 24 hours is not modelled: the services then answer 401, as they do in
  `Unauthorized`.
* `AuthMiddleware` (`jwt.go`) is not installed on any route; user and inventory
  service parse tokens themselves.
* The dashboard's list of assets, its forms and its health lights: nothing of them
  is kept or sent back. Hence its status "partly". That the list is loaded
  once, two seconds after the last step (`app.js:158`), whether or not the pack
  is there by then, has no property for this reason, and neither have the polls of
  `checkHealth`, of which each login starts one more.
* Asset names, categories and metadata do not change what the handlers do; lists
  with a filter bypass the cache.
* In `Profiles` and `Onboarding` whole packs are counted, and one that comes short is
  lost. Which assets a pack consists of, and which of them are inserted when some
  inserts fail, is modelled in `Inventory`; no property there asks for all of them.
* Envoy in front of the inventory service: a repeated POST or assignment is one
  more request to `Inventory`, which puts no bound on them but the pool of assets.

## 6. Plan

1. `Breaker`, `BreakerCalls`, `Inventory` with their abstract specifications and
   proofs: done.
2. `Profiles`, `ProfileStore`, `ProfilesBlame`, `ProfilesReward` and the proofs: done.
3. `Mesh`, `Accounts`, `Onboarding`, `Startup` and their proofs: done.
4. Proofs of all safety properties of the runs, and of the safety part of four of
   the liveness properties: done.
5. Proofs still worth having: that a request to the auth service, or of the
   dashboard, is answered within a bounded number of tries, as a measure like
   `Ahead`.
6. Worth adding if the code grows: an inbox for starter packs (the code has no
   retry to model), and the dashboard's list of assets once it is kept anywhere.
