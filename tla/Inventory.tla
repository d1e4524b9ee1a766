----------------------------- MODULE Inventory -----------------------------
(***************************************************************************)
(* The inventory service: the goroutines that serve its HTTP endpoints     *)
(* (handler/inventory.go) and its gRPC method (handler/grpc.go), the       *)
(* MongoDB collection they share, the one Redis key "assets:all" in which  *)
(* they cache the full list, and the circuit breaker around every Redis    *)
(* command (circuitbreaker/breaker.go).                                    *)
(*                                                                         *)
(* A Redis command takes three steps, between which anything may happen:   *)
(* Execute decides under the breaker's lock whether to run it, Redis       *)
(* carries it out, and doExecute takes the lock again to record the        *)
(* outcome, after which the handler goes on.                               *)
(*                                                                         *)
(* Requests that change nothing are left out: those refused for method,    *)
(* token or body, the 409 of AssignAsset, and the lists with a filter,     *)
(* which bypass the cache.  Of an asset the model keeps whether it exists, *)
(* whether it is available, and to whom it is assigned.                    *)
(***************************************************************************)
EXTENDS Breaker, FiniteSets

CONSTANTS
  Request,    \* goroutines that serve requests, one after the other
  Workload,   \* the endpoints each of them serves
  User,
  Asset,      \* the pool of ids; bounds how many assets are ever inserted
  PackSize,   \* assets in a starter pack (3 in grpc.go)
  Faults      \* what may go wrong

Endpoint == {"list", "create", "assign", "pack", "health"}

ASSUME WorkloadAssumption == Workload \in [Request -> SUBSET Endpoint]
ASSUME UserAssumption == User \cap {"absent", "available", "nobody"} = {}
ASSUME PackSizeAssumption == PackSize \in Nat \ {0}
ASSUME FaultsAssumption ==
  Faults \subseteq {"mongo",     \* a MongoDB command fails, or its answer is lost
                    "timeout",   \* a Redis command goes unanswered
                    "redis",     \* Redis crashes, saves and restarts
                    "cancel",    \* a request's context is cancelled
                    "crash"}     \* the service crashes and restarts

VARIABLES
  docs,     \* the collection "assets"
  cache,    \* the value of "assets:all" in Redis: {} or {list}
  dump,     \* that key in the snapshot Redis keeps on disk
  redisUp,
  breaker,  \* RedisBreaker
  pc,       \* where each goroutine is
  cmd,      \* the Redis command it is about
  view,     \* the list it holds: {} or {list}
  out,      \* err after the Redis command: "ok" is nil
  live,     \* FALSE once r.Context() is done
  pack      \* AssignStarterPack: for whom, and how many are left to insert

store == <<docs, cache, dump, redisUp>>
locals == <<pc, cmd, view, out, live, pack>>
vars == <<docs, cache, dump, redisUp, breaker, pc, cmd, view, out, live, pack>>

Doc == {"absent", "available"} \cup User
List == [Asset -> Doc]
NoPack == [user |-> "nobody", left |-> 0]

TypeOK ==
  /\ docs \in List
  /\ cache \in SUBSET List /\ dump \in SUBSET List
  /\ redisUp \in BOOLEAN
  /\ breaker \in BreakerType
  /\ pc \in [Request -> {"idle", "find", "pack", "gate", "redis", "report"}]
  /\ cmd \in [Request -> {"none", "get", "set", "del", "ping"}]
  /\ view \in [Request -> SUBSET List]
  /\ out \in [Request -> {"ok", "err"}]
  /\ live \in [Request -> BOOLEAN]
  /\ pack \in [Request -> [user : User \cup {"nobody"}, left : 0 .. PackSize]]

Init ==
  /\ docs = [a \in Asset |-> "absent"]
  /\ cache = {} /\ dump = {}
  /\ redisUp = TRUE
  /\ breaker = NewBreaker
  /\ pc = [r \in Request |-> "idle"]
  /\ cmd = [r \in Request |-> "none"]
  /\ view = [r \in Request |-> {}]
  /\ out = [r \in Request |-> "ok"]
  /\ live = [r \in Request |-> TRUE]
  /\ pack = [r \in Request |-> NoPack]

-----------------------------------------------------------------------------
\* A request arrives at goroutine r, which serves this endpoint.
Serves(r, endpoint) == pc[r] = "idle" /\ endpoint \in Workload[r]

\* cacheGet, cacheSet, cacheDel and the Ping of Health: call Execute.
CallRedis(r, command) ==
  /\ pc' = [pc EXCEPT ![r] = "gate"]
  /\ cmd' = [cmd EXCEPT ![r] = command]
  /\ out' = [out EXCEPT ![r] = "ok"]

\* The handler returns.
Reply(r) ==
  /\ pc' = [pc EXCEPT ![r] = "idle"]
  /\ cmd' = [cmd EXCEPT ![r] = "none"]
  /\ view' = [view EXCEPT ![r] = {}]
  /\ out' = [out EXCEPT ![r] = "ok"]
  /\ live' = [live EXCEPT ![r] = TRUE]
  /\ pack' = [pack EXCEPT ![r] = NoPack]

\* ListAssets falls through to the database, on a miss as on an error.
FallThrough(r) ==
  /\ pc' = [pc EXCEPT ![r] = "find"]
  /\ cmd' = [cmd EXCEPT ![r] = "none"]
  /\ out' = [out EXCEPT ![r] = "ok"]
  /\ UNCHANGED <<view, live, pack>>

RetryGet(r, err) ==
  IF cmd[r] = "get" /\ err # "ok"
  THEN CallRedis(r, "get") /\ UNCHANGED <<view, live, pack>>
  ELSE Reply(r)

\* Execute has returned err to the handler.
AfterExecute(r, err) ==
  IF cmd[r] = "get" /\ err # "ok" THEN FallThrough(r) ELSE Reply(r)

-----------------------------------------------------------------------------
(* The handlers, up to their first Redis command and between two of them.  *)

\* ListAssets, without a filter.
ListAssets(r) ==
  /\ Serves(r, "list")
  /\ CallRedis(r, "get")
  /\ UNCHANGED <<store, breaker, view, live, pack>>

\* Find and cursor.All.
ListFind(r) ==
  /\ pc[r] = "find"
  /\ live[r]
  /\ view' = [view EXCEPT ![r] = {docs}]
  /\ CallRedis(r, "set")
  /\ UNCHANGED <<store, breaker, live, pack>>

ListFindFails(r) ==
  /\ pc[r] = "find"
  /\ ~ live[r] \/ "mongo" \in Faults
  /\ Reply(r)
  /\ UNCHANGED <<store, breaker>>

\* A write of the collection by the handler in r: acknowledged, and then the
\* cached list is invalidated; or carried out, but its answer is lost, and
\* the handler replies 500 at once.
WriteThenInvalidate(r, a, doc) ==
  /\ docs' = [docs EXCEPT ![a] = doc]
  /\ \/ CallRedis(r, "del")
     \/ "mongo" \in Faults /\ UNCHANGED <<pc, cmd, out>>
  /\ UNCHANGED <<cache, dump, redisUp, breaker, view, live, pack>>

CreateAssetInCacheFirst(r, a) ==
  /\ Serves(r, "create")
  /\ docs[a] = "absent"
  /\ cache' = {[docs EXCEPT ![a] = "available"]}
  /\ docs' \in cache' \cup {docs}
  /\ UNCHANGED <<dump, redisUp, breaker, locals>>

CreateAsset(r, a) ==
  /\ Serves(r, "create")
  /\ docs[a] = "absent"
  /\ WriteThenInvalidate(r, a, "available")

AssignAnyAsset(r, u, a) ==
  /\ Serves(r, "assign")
  /\ docs[a] # "absent"
  /\ WriteThenInvalidate(r, a, u)

\* FindOneAndUpdate with the filter status = "available".
AssignAsset(r, u, a) ==
  /\ Serves(r, "assign")
  /\ docs[a] = "available"
  /\ WriteThenInvalidate(r, a, u)

AssignStarterPack(r, u) ==
  /\ Serves(r, "pack")
  /\ pc' = [pc EXCEPT ![r] = "pack"]
  /\ pack' = [pack EXCEPT ![r] = [user |-> u, left |-> PackSize]]
  /\ UNCHANGED <<store, breaker, cmd, view, out, live>>

StartersLeftForever(r) ==
  /\ pack' = [pack EXCEPT ![r] = [user |-> @.user, left |-> @.left - 1]]
  /\ UNCHANGED <<pc, cmd, out>>

NextStarterNoInvalidation(r) ==
  IF pack[r].left = 1
  THEN Reply(r)
  ELSE /\ pack' = [pack EXCEPT ![r] = [user |-> @.user, left |-> @.left - 1]]
       /\ UNCHANGED <<pc, cmd, out>>

\* One round of the loop over the starter assets ends; after the last one
\* the cached list is invalidated, whatever was inserted.
NextStarter(r) ==
  /\ pack' = [pack EXCEPT ![r] = [user |-> @.user, left |-> @.left - 1]]
  /\ IF pack[r].left = 1 THEN CallRedis(r, "del") ELSE UNCHANGED <<pc, cmd, out>>

InsertStarter(r, a) ==
  /\ pc[r] = "pack"
  /\ live[r]
  /\ docs[a] = "absent"
  /\ docs' = [docs EXCEPT ![a] = pack[r].user]
  /\ NextStarter(r)
  /\ UNCHANGED <<cache, dump, redisUp, breaker, view, live>>

\* An insert that fails is logged and skipped.  (The answer of an insert that
\* was carried out may be lost too: the loop goes on just as after a success.)
InsertStarterFails(r) ==
  /\ pc[r] = "pack"
  /\ \/ ~ live[r]
     \/ "mongo" \in Faults
     \/ \A a \in Asset : docs[a] # "absent"
  /\ NextStarter(r)
  /\ UNCHANGED <<store, breaker, view, live>>

\* Health pings MongoDB first; if that hangs, the two seconds that the
\* context allows for both pings are over.
Health(r) ==
  /\ Serves(r, "health")
  /\ CallRedis(r, "ping")
  /\ \/ UNCHANGED live
     \/ "mongo" \in Faults /\ live' = [live EXCEPT ![r] = FALSE]
  /\ UNCHANGED <<store, breaker, view, pack>>

-----------------------------------------------------------------------------
(* A Redis command: Execute, Redis, doExecute.                             *)

Execute(r) ==
  /\ pc[r] = "gate"
  /\ Admits(breaker)
  /\ breaker' = Admit(breaker)
  /\ pc' = [pc EXCEPT ![r] = "redis"]
  /\ UNCHANGED <<store, cmd, view, out, live, pack>>

\* ErrCircuitOpen; Health keeps redisErr = nil.
ExecuteRejects(r) ==
  /\ pc[r] = "gate"
  /\ ~ Admits(breaker)
  /\ AfterExecute(r, "open")
  /\ UNCHANGED <<store, breaker>>

Carried(r) ==
  CASE cmd[r] = "set" -> view[r]
    [] cmd[r] = "del" -> {}
    [] OTHER -> cache

\* Redis carries the command out and answers.  The answer to a GET of a key
\* that is not there is the error redis.Nil.
RedisAnswers(r) ==
  /\ pc[r] = "redis"
  /\ redisUp /\ live[r]
  /\ cache' = Carried(r)
  /\ view' = IF cmd[r] = "get" THEN [view EXCEPT ![r] = cache] ELSE view
  /\ out' = [out EXCEPT ![r] =
               IF cmd[r] = "get" /\ cache = {} THEN "err" ELSE "ok"]
  /\ pc' = [pc EXCEPT ![r] = "report"]
  /\ UNCHANGED <<docs, dump, redisUp, breaker, cmd, live, pack>>

\* Redis is down, or the context is done, or no answer comes in time
\* although the command was perhaps carried out.
RedisFails(r) ==
  /\ pc[r] = "redis"
  /\ \/ ~ redisUp /\ UNCHANGED cache
     \/ ~ live[r] /\ UNCHANGED cache
     \/ "timeout" \in Faults /\ redisUp /\ live[r] /\ cache' \in {cache, Carried(r)}
  /\ out' = [out EXCEPT ![r] = "err"]
  /\ pc' = [pc EXCEPT ![r] = "report"]
  /\ UNCHANGED <<docs, dump, redisUp, breaker, cmd, view, live, pack>>

\* doExecute records the outcome and returns it.
Report(r) ==
  /\ pc[r] = "report"
  /\ breaker' = IF out[r] = "ok" THEN RecordSuccess(breaker)
                                 ELSE RecordFailure(breaker)
  /\ AfterExecute(r, out[r])
  /\ UNCHANGED store

-----------------------------------------------------------------------------
(* The surroundings.                                                       *)

\* The client disconnects, or the deadline of the gRPC call passes.
Cancel(r) ==
  /\ "cancel" \in Faults
  /\ pc[r] # "idle" /\ live[r]
  /\ live' = [live EXCEPT ![r] = FALSE]
  /\ UNCHANGED <<store, breaker, pc, cmd, view, out, pack>>

\* The service dies and is started again (restart: unless-stopped).
Crash ==
  /\ "crash" \in Faults
  /\ breaker' = NewBreaker
  /\ pc' = [r \in Request |-> "idle"]
  /\ cmd' = [r \in Request |-> "none"]
  /\ view' = [r \in Request |-> {}]
  /\ out' = [r \in Request |-> "ok"]
  /\ live' = [r \in Request |-> TRUE]
  /\ pack' = [r \in Request |-> NoPack]
  /\ UNCHANGED store

RedisCrash ==
  /\ "redis" \in Faults
  /\ redisUp
  /\ redisUp' = FALSE
  /\ cache' = {}
  /\ UNCHANGED <<docs, dump, breaker, locals>>

\* Redis loads its snapshot.
RedisRestart ==
  /\ ~ redisUp
  /\ redisUp' = TRUE
  /\ cache' = dump
  /\ UNCHANGED <<docs, dump, breaker, locals>>

RedisSave ==
  /\ "redis" \in Faults
  /\ redisUp /\ dump # cache
  /\ dump' = cache
  /\ UNCHANGED <<docs, cache, redisUp, breaker, locals>>

ExpireNever == FALSE /\ UNCHANGED vars

\* The list's time to live of five minutes is over.  A copy of the key in
\* the snapshot is at least as old and expires with it.
Expire ==
  /\ cache \cup dump # {}
  /\ cache' = {} /\ dump' = {}
  /\ UNCHANGED <<docs, redisUp, breaker, locals>>

\* allkeys-lru: the key makes room for others.
Evict ==
  /\ cache # {}
  /\ cache' = {}
  /\ UNCHANGED <<docs, dump, redisUp, breaker, locals>>

Tick ==
  /\ ~ TimedOut(breaker)
  /\ breaker' = Elapse(breaker)
  /\ UNCHANGED <<store, locals>>

-----------------------------------------------------------------------------
Arrive(r) ==
  \/ ListAssets(r)
  \/ \E a \in Asset : CreateAsset(r, a) \/ \E u \in User : AssignAsset(r, u, a)
  \/ \E u \in User : AssignStarterPack(r, u)
  \/ Health(r)

Proceed(r) ==
  \/ ListFind(r) \/ ListFindFails(r)
  \/ InsertStarterFails(r) \/ \E a \in Asset : InsertStarter(r, a)
  \/ Execute(r) \/ ExecuteRejects(r)
  \/ RedisAnswers(r) \/ RedisFails(r)
  \/ Report(r)

Environment ==
  \/ \E r \in Request : Cancel(r)
  \/ Crash
  \/ RedisCrash \/ RedisRestart \/ RedisSave
  \/ Expire \/ Evict
  \/ Tick

Next == \/ \E r \in Request : Arrive(r) \/ Proceed(r)
        \/ Environment

Spec == Init /\ [][Next]_vars

(***************************************************************************)
(* Goroutines are scheduled, every command sent to MongoDB or Redis        *)
(* returns, time passes and keys expire, and Prometheus keeps asking for   *)
(* the health of the service (monitoring/prometheus.yml:20-23).            *)
(***************************************************************************)
Fairness ==
  /\ \A r \in Request : WF_vars(Proceed(r)) /\ WF_vars(Health(r))
  /\ WF_vars(Expire) /\ WF_vars(Tick)

FairSpec == Spec /\ Fairness

-----------------------------------------------------------------------------
(***************************************************************************)
(* The lists kept anywhere - in Redis, in its snapshot, in a handler that  *)
(* is about to cache or to send one - are old states of the collection,    *)
(* and assets are registered and assigned once, as AssetStore says.        *)
(***************************************************************************)
Store == INSTANCE AssetStore
           WITH lists <- cache \cup dump \cup UNION {view[r] : r \in Request}

ImplementsStore == Store!Spec

(***************************************************************************)
(* No list shows an asset or an owner that never was, even after stale     *)
(* fills, lost answers and a restored snapshot.                            *)
(***************************************************************************)
NoPhantoms == Store!NoPhantoms

(***************************************************************************)
(* Misses are failures to the breaker (redis.Nil is an error), but without *)
(* faults every miss is followed by the SET of the same request, which     *)
(* resets the counter: with fewer than MaxFailures requests at a time the  *)
(* counter never exceeds the number of those between their miss and their  *)
(* SET, and the breaker does not trip.                                     *)
(***************************************************************************)
AfterMiss(r) == pc[r] = "find" \/ cmd[r] = "set"

FailuresAreMisses ==
  breaker.failures <= Cardinality({r \in Request : AfterMiss(r)})

(***************************************************************************)
(* Every request is answered, with Redis and the breaker in any state:     *)
(* the cache is never waited for (handler/inventory.go:28-30).             *)
(***************************************************************************)
EveryRequestIsAnswered ==
  \A r \in Request : pc[r] # "idle" ~> pc[r] = "idle"

(***************************************************************************)
(* Why it is: each step of a request brings its answer nearer, for as many *)
(* starter assets as there are, and no step of another request, of Redis   *)
(* or of the breaker sets it back.  A list is at most seven steps away     *)
(* from its answer, a pack PackSize + 3: nothing is tried again.           *)
(***************************************************************************)
Ahead(r) ==
  CASE pc[r] = "idle" -> 0
    [] pc[r] = "find" -> 4
    [] pc[r] = "pack" -> pack[r].left + 3
    [] OTHER -> (IF pc[r] = "gate" THEN 3 ELSE IF pc[r] = "redis" THEN 2 ELSE 1)
                  + (IF cmd[r] = "get" THEN 4 ELSE 0)

AnswerComesNearer ==
  [][\A r \in Request : pc[r] # "idle" =>
       \/ Ahead(r)' < Ahead(r)
       \/ pc'[r] = pc[r] /\ cmd'[r] = cmd[r] /\ pack'[r] = pack[r]]_vars

(***************************************************************************)
(* A stale list does not stay: once the writes are over, late fills and    *)
(* restored snapshots cannot keep it in the cache for ever.                *)
(***************************************************************************)
Stale == \E l \in cache : l # docs

EventuallyFresh == <>[] ~ Stale

(***************************************************************************)
(* Once Redis stays up and no list is asked for, health checks close the   *)
(* breaker for good, whatever MongoDB does - as long as it leaves them the *)
(* time for their own ping of Redis (inventory.go:224), that is, as long   *)
(* as no context ends.                                                     *)
(***************************************************************************)
QuietRecovery ==
  /\ <>[] redisUp
  /\ <>[][\A r \in Request : ~ ListAssets(r) /\ (live[r] => live'[r])]_vars
  => <>[] (breaker.state = "CLOSED")

-----------------------------------------------------------------------------
(***************************************************************************)
(* breaker.go:48 says "5 consecutive failures = real outage".  With Redis  *)
(* up all the time the breaker would never trip; five lists at once, of an *)
(* empty cache, trip it.                                                   *)
(***************************************************************************)
TripsOnlyOnOutage == redisUp => breaker.state # "OPEN"
=============================================================================
