------------------------------ MODULE Profiles ------------------------------
(***************************************************************************)
(* The user service (handler/user.go): the goroutines that serve its HTTP  *)
(* endpoints, the PostgreSQL table "profiles" they share, the Redis key    *)
(* "profile:<id>" in which they cache each row, and the goroutines that    *)
(* ask the inventory service for a starter pack after the last step.       *)
(*                                                                         *)
(* Anything may happen between two commands of a request.  The queries are *)
(* not bound to the request's context, the Redis commands are.             *)
(*                                                                         *)
(* Requests that change nothing are left out: those refused for method,    *)
(* token or body, Health, and the GetProfile that hits the cache.  Of a    *)
(* profile the model keeps its step; onboarding_done is step >= 5, since   *)
(* both are always written together.                                       *)
(***************************************************************************)
EXTENDS Naturals

CONSTANTS
  Request,    \* goroutines that serve requests, one after the other
  Clients,    \* the users each of them serves
  User,
  LastStep,   \* the step that completes the onboarding (5 in user.go)
  PackCap,    \* packs are counted up to this bound
  Faults      \* what may go wrong

Step == 1 .. LastStep

ASSUME ClientsAssumption == Clients \in [Request -> SUBSET User]
ASSUME UserAssumption == "nobody" \notin User
ASSUME LastStepAssumption == LastStep \in Nat /\ LastStep > 1
ASSUME PackCapAssumption == PackCap \in Nat \ {0}
ASSUME FaultsAssumption ==
  Faults \subseteq {"postgres",    \* a query fails, or its answer is lost
                    "timeout",     \* a Redis command goes unanswered
                    "redis",       \* Redis crashes, saves and restarts
                    "cancel",      \* a request's context is cancelled
                    "crash",       \* the service crashes and restarts
                    "inventory",   \* the inventory service does not answer
                    "insert"}      \* it cannot insert an asset of a pack

VARIABLES
  row,      \* the table: the step of each user's profile, 0 for no row
  cache,    \* the value of each user's key in Redis: {} or {step}
  dump,     \* those keys in the snapshot Redis keeps on disk
  redisUp,
  packs,    \* the whole starter packs each user got, up to PackCap
  pc,       \* where each goroutine is
  user,     \* userID
  held,     \* profile, the row it has read or written: {} or {step}
  live      \* FALSE once r.Context() is done

store == <<row, cache, dump, redisUp, packs>>
locals == <<pc, user, held, live>>
vars == <<row, cache, dump, redisUp, packs, pc, user, held, live>>

TypeOK ==
  /\ row \in [User -> Step \cup {0}]
  /\ cache \in [User -> SUBSET Step] /\ dump \in [User -> SUBSET Step]
  /\ redisUp \in BOOLEAN
  /\ packs \in [User -> 0 .. PackCap]
  /\ pc \in [Request -> {"idle", "select", "set", "del", "call"}]
  /\ user \in [Request -> User \cup {"nobody"}]
  /\ held \in [Request -> SUBSET Step]
  /\ live \in [Request -> BOOLEAN]

Init ==
  /\ row = [u \in User |-> 0]
  /\ cache = [u \in User |-> {}] /\ dump = [u \in User |-> {}]
  /\ redisUp = TRUE
  /\ packs = [u \in User |-> 0]
  /\ pc = [r \in Request |-> "idle"]
  /\ user = [r \in Request |-> "nobody"]
  /\ held = [r \in Request |-> {}]
  /\ live = [r \in Request |-> TRUE]

-----------------------------------------------------------------------------
\* A request of user u arrives at goroutine r.
Serves(r, u) == pc[r] = "idle" /\ u \in Clients[r]

\* The handler goes on, for user u, with these rows in hand.
Continue(r, at, u, rows) ==
  /\ pc' = [pc EXCEPT ![r] = at]
  /\ user' = [user EXCEPT ![r] = u]
  /\ held' = [held EXCEPT ![r] = rows]
  /\ UNCHANGED live

\* The handler returns.
Reply(r) ==
  /\ pc' = [pc EXCEPT ![r] = "idle"]
  /\ user' = [user EXCEPT ![r] = "nobody"]
  /\ held' = [held EXCEPT ![r] = {}]
  /\ live' = [live EXCEPT ![r] = TRUE]

\* A statement of the handler in r that writes step s of u's row: answered
\* by the new row, or carried out but its answer is lost, and the handler
\* replies 500.
Write(r, u, s, next) ==
  /\ row' = [row EXCEPT ![u] = s]
  /\ \/ Continue(r, next, u, {s})
     \/ "postgres" \in Faults /\ UNCHANGED locals
  /\ UNCHANGED <<cache, dump, redisUp, packs>>

\* INSERT; user_id is UNIQUE.
CreateProfile(r, u) ==
  /\ Serves(r, u)
  /\ row[u] = 0
  /\ Write(r, u, 1, "set")

\* UPDATE ... RETURNING.  The handler takes any integer and asks only whether it
\* has reached 5: LastStep stands for those, the smaller steps for the others.
UpdateOnboarding(r, u, s) ==
  /\ Serves(r, u)
  /\ row[u] # 0
  /\ Write(r, u, s, "del")

\* The GET finds nothing or fails.
GetProfile(r, u) ==
  /\ Serves(r, u)
  /\ cache[u] = {} \/ ~ redisUp \/ "timeout" \in Faults
  /\ Continue(r, "select", u, {})
  /\ UNCHANGED store

SelectProfileUnchecked(r) ==
  /\ pc[r] = "select"
  /\ Continue(r, "set", user[r], {row[user[r]]})
  /\ UNCHANGED store

SelectProfile(r) ==
  /\ pc[r] = "select"
  /\ row[user[r]] # 0
  /\ Continue(r, "set", user[r], {row[user[r]]})
  /\ UNCHANGED store

\* 404 or 500.
SelectFails(r) ==
  /\ pc[r] = "select"
  /\ row[user[r]] = 0 \/ "postgres" \in Faults
  /\ Reply(r)
  /\ UNCHANGED store

-----------------------------------------------------------------------------
(* The Redis command that ends a handler; its outcome is not looked at.    *)

CarriedWrongKey(r) ==
  [u \in User |-> IF pc[r] = "set" THEN held[r] ELSE {}]

Carried(r) ==
  [cache EXCEPT ![user[r]] = IF pc[r] = "set" THEN held[r] ELSE {}]

PackOnlyAfterInvalidation(r) ==
  IF pc[r] = "del" /\ held[r] = {LastStep} /\ redisUp /\ live[r]
  THEN Continue(r, "call", user[r], {})
  ELSE Reply(r)

\* After the DEL of a completed onboarding the handler starts the goroutine
\* assignStarterPack and replies; the model follows the goroutine.
AfterCommand(r) ==
  IF pc[r] = "del" /\ held[r] = {LastStep}
  THEN Continue(r, "call", user[r], {})
  ELSE Reply(r)

RedisAnswers(r) ==
  /\ pc[r] \in {"set", "del"}
  /\ redisUp /\ live[r]
  /\ cache' = Carried(r)
  /\ AfterCommand(r)
  /\ UNCHANGED <<row, dump, redisUp, packs>>

\* Redis is down, or the context is done, or no answer comes in time
\* although the command was perhaps carried out.
RedisFails(r) ==
  /\ pc[r] \in {"set", "del"}
  /\ \/ (~ redisUp \/ ~ live[r]) /\ UNCHANGED cache
     \/ "timeout" \in Faults /\ redisUp /\ live[r] /\ cache' \in {cache, Carried(r)}
  /\ AfterCommand(r)
  /\ UNCHANGED <<row, dump, redisUp, packs>>

PackAssignedAgain(r) ==
  /\ pc[r] = "call"
  /\ packs' = [packs EXCEPT ![user[r]] = IF @ < PackCap THEN @ + 1 ELSE @]
  /\ UNCHANGED locals \/ Reply(r)
  /\ UNCHANGED <<row, cache, dump, redisUp>>

\* assignStarterPack: the inventory service inserts all assets of the pack.
\* Whether its answer arrives makes no difference.
PackAssigned(r) ==
  /\ pc[r] = "call"
  /\ packs' = [packs EXCEPT ![user[r]] = IF @ < PackCap THEN @ + 1 ELSE @]
  /\ Reply(r)
  /\ UNCHANGED <<row, cache, dump, redisUp>>

\* The inventory service logs and skips the assets it cannot insert, maybe
\* all of them, and answers without an error; nobody looks at their number.
PackShort(r) ==
  /\ pc[r] = "call"
  /\ "insert" \in Faults
  /\ Reply(r)
  /\ UNCHANGED store

\* The call fails or takes longer than five seconds; the error is logged.
PackFails(r) ==
  /\ pc[r] = "call"
  /\ "inventory" \in Faults
  /\ Reply(r)
  /\ UNCHANGED store

-----------------------------------------------------------------------------
(* The surroundings.                                                       *)

\* The client disconnects.  The goroutine of the call has its own context.
Cancel(r) ==
  /\ "cancel" \in Faults
  /\ pc[r] \in {"select", "set", "del"} /\ live[r]
  /\ live' = [live EXCEPT ![r] = FALSE]
  /\ UNCHANGED <<store, pc, user, held>>

\* The service dies, with all its goroutines, and is started again.
Crash ==
  /\ "crash" \in Faults
  /\ pc' = [r \in Request |-> "idle"]
  /\ user' = [r \in Request |-> "nobody"]
  /\ held' = [r \in Request |-> {}]
  /\ live' = [r \in Request |-> TRUE]
  /\ UNCHANGED store

RedisCrash ==
  /\ "redis" \in Faults
  /\ redisUp
  /\ redisUp' = FALSE
  /\ cache' = [u \in User |-> {}]
  /\ UNCHANGED <<row, dump, packs, locals>>

\* Redis loads its snapshot.
RedisRestart ==
  /\ ~ redisUp
  /\ redisUp' = TRUE
  /\ cache' = dump
  /\ UNCHANGED <<row, dump, packs, locals>>

RedisSave ==
  /\ "redis" \in Faults
  /\ redisUp /\ dump # cache
  /\ dump' = cache
  /\ UNCHANGED <<row, cache, redisUp, packs, locals>>

ExpireNever(u) == FALSE /\ UNCHANGED vars /\ u \in User

\* The time to live of fifteen minutes is over, in the snapshot too.
Expire(u) ==
  /\ cache[u] \cup dump[u] # {}
  /\ cache' = [cache EXCEPT ![u] = {}]
  /\ dump' = [dump EXCEPT ![u] = {}]
  /\ UNCHANGED <<row, redisUp, packs, locals>>

\* allkeys-lru: the key makes room for others.
Evict(u) ==
  /\ cache[u] # {}
  /\ cache' = [cache EXCEPT ![u] = {}]
  /\ UNCHANGED <<row, dump, redisUp, packs, locals>>

-----------------------------------------------------------------------------
Arrive(r) ==
  \E u \in User : \/ CreateProfile(r, u)
                  \/ GetProfile(r, u)
                  \/ \E s \in Step : UpdateOnboarding(r, u, s)

Proceed(r) ==
  \/ SelectProfile(r) \/ SelectFails(r)
  \/ RedisAnswers(r) \/ RedisFails(r)
  \/ PackAssigned(r) \/ PackShort(r) \/ PackFails(r)

Environment ==
  \/ \E r \in Request : Cancel(r)
  \/ Crash
  \/ RedisCrash \/ RedisRestart \/ RedisSave
  \/ \E u \in User : Expire(u) \/ Evict(u)

Next == \/ \E r \in Request : Arrive(r) \/ Proceed(r)
        \/ Environment

Spec == Init /\ [][Next]_vars

-----------------------------------------------------------------------------
\* The goroutines that are to ask for a pack for u, or are asking.
Claims(u) ==
  {r \in Request : /\ user[r] = u
                   /\ \/ pc[r] = "call"
                      \/ pc[r] = "del" /\ held[r] = {LastStep}}

Kept(u) == cache[u] \cup dump[u] \cup UNION {held[r] : r \in {s \in Request : user[s] = u}}

(***************************************************************************)
(* Rows, cached copies, and packs are as ProfileStore says: a copy under a *)
(* user's key, or in a handler's hands, is an old row of that user, and    *)
(* each PATCH that completes an onboarding is worth at most one pack,      *)
(* however requests, faults and the calls to the inventory interleave; a   *)
(* pack that comes short uses its claim up.                                *)
(***************************************************************************)
Store == INSTANCE ProfileStore
           WITH copies <- [u \in User |-> Kept(u)],
                claims <- [u \in User |-> Claims(u)],
                Ticket <- Request

ImplementsStore == Store!Spec

(***************************************************************************)
(* An outdated copy of a profile goes away for good once its row is left   *)
(* alone: late fills and restored snapshots cannot keep it for ever.       *)
(***************************************************************************)
Stale(u) == ~ cache[u] \subseteq {row[u]}

EventuallyFresh ==
  \A u \in User : <>[][row'[u] = row[u]]_vars => <>[] ~ Stale(u)
=============================================================================
