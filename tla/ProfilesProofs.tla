--------------------------- MODULE ProfilesProofs ---------------------------
(***************************************************************************)
(* Theorems about Profiles, for any goroutines, users, steps and faults:   *)
(* the types, inductive once a busy goroutine is known to serve somebody;  *)
(* and every step is one of ProfileStore.  The second argument has three   *)
(* parts: what a step may put where copies are kept (CopyStep), that the   *)
(* claims of the other goroutines are left alone (ClaimsOfOthers), and     *)
(* what the step does to the claim of its own goroutine.                   *)
(* Then each step is shown to account for a stale copy that it leaves, and *)
(* for the pack of an onboarding that it finds or leaves completed.        *)
(***************************************************************************)
EXTENDS ProfilesBlame, ProfilesReward, TLAPS

BusyServes == \A r \in Request : pc[r] # "idle" => user[r] \in User

IInv == TypeOK /\ BusyServes

StoreOK ==
  /\ row \in [User -> Step \cup {0}]
  /\ cache \in [User -> SUBSET Step] /\ dump \in [User -> SUBSET Step]
  /\ redisUp \in BOOLEAN
  /\ packs \in [User -> 0 .. PackCap]

LocalsOK ==
  /\ pc \in [Request -> {"idle", "select", "set", "del", "call"}]
  /\ user \in [Request -> User \cup {"nobody"}]
  /\ held \in [Request -> SUBSET Step]
  /\ live \in [Request -> BOOLEAN]
  /\ BusyServes

LEMMA IInvParts == IInv <=> StoreOK /\ LocalsOK
  BY DEF IInv, TypeOK, StoreOK, LocalsOK

LEMMA IInvPartsPrime == IInv' <=> StoreOK' /\ LocalsOK'
  BY DEF IInv, TypeOK, StoreOK, LocalsOK

LEMMA StepFacts == 1 \in Step /\ LastStep \in Step /\ 0 \notin Step
  BY LastStepAssumption DEF Step

(* What the shared ends of the handlers do to the local variables.         *)
LEMMA ReplyLocals ==
  ASSUME LocalsOK, NEW r \in Request, Reply(r)
  PROVE  LocalsOK'
  BY DEF Reply, LocalsOK, BusyServes

LEMMA ContinueLocals ==
  ASSUME LocalsOK, NEW r \in Request, NEW u \in User,
         NEW at \in {"select", "set", "del", "call"},
         NEW rows \in SUBSET Step, Continue(r, at, u, rows)
  PROVE  LocalsOK'
  BY DEF Continue, LocalsOK, BusyServes

LEMMA AfterCommandLocals ==
  ASSUME LocalsOK, NEW r \in Request, pc[r] # "idle", AfterCommand(r)
  PROVE  LocalsOK'
<1>1. CASE Reply(r)
  BY <1>1, ReplyLocals
<1>2. CASE Continue(r, "call", user[r], {})
  <2>1. user[r] \in User
    BY DEF LocalsOK, BusyServes
  <2>2. QED
    BY <1>2, <2>1, ContinueLocals
<1>3. QED
  BY <1>1, <1>2 DEF AfterCommand

LEMMA InitIInv == Init => IInv
  BY PackCapAssumption DEF Init, IInv, TypeOK, BusyServes

LEMMA WriteIInv ==
  ASSUME IInv, NEW r \in Request, NEW u \in User, NEW s \in Step,
         NEW at \in {"set", "del"}, Write(r, u, s, at)
  PROVE  IInv'
<1>1. StoreOK /\ LocalsOK
  BY IInvParts
<1>2. LocalsOK'
  <2>1. CASE Continue(r, at, u, {s})
    BY <1>1, <2>1, ContinueLocals
  <2>2. CASE UNCHANGED locals
    BY <1>1, <2>2 DEF locals, LocalsOK, BusyServes
  <2>3. QED
    BY <2>1, <2>2 DEF Write
<1>3. StoreOK'
  BY <1>1 DEF Write, StoreOK
<1>4. QED
  BY <1>2, <1>3, IInvPartsPrime

LEMMA ArriveIInv ==
  ASSUME IInv, NEW r \in Request, Arrive(r)
  PROVE  IInv'
<1>1. ASSUME NEW u \in User, CreateProfile(r, u) PROVE IInv'
  BY <1>1, WriteIInv, StepFacts DEF CreateProfile
<1>2. ASSUME NEW u \in User, NEW s \in Step, UpdateOnboarding(r, u, s) PROVE IInv'
  BY <1>2, WriteIInv DEF UpdateOnboarding
<1>3. ASSUME NEW u \in User, GetProfile(r, u) PROVE IInv'
  <2>1. LocalsOK'
    BY <1>3, IInvParts, ContinueLocals DEF GetProfile
  <2>2. QED
    BY <1>3, <2>1, IInvParts, IInvPartsPrime DEF GetProfile, store, StoreOK
<1>4. QED
  BY <1>1, <1>2, <1>3 DEF Arrive

LEMMA ProceedIInv ==
  ASSUME IInv, NEW r \in Request, Proceed(r)
  PROVE  IInv'
<1>1. StoreOK /\ LocalsOK
  BY IInvParts
<1>2. CASE SelectProfile(r)
  <2>1. user[r] \in User
    BY <1>1, <1>2 DEF SelectProfile, LocalsOK, BusyServes
  <2>2. {row[user[r]]} \in SUBSET Step
    BY <1>1, <1>2, <2>1 DEF SelectProfile, StoreOK
  <2>3. LocalsOK'
    BY <1>1, <1>2, <2>1, <2>2, ContinueLocals DEF SelectProfile
  <2>4. QED
    BY <1>1, <1>2, <2>3, IInvPartsPrime DEF SelectProfile, store, StoreOK
<1>3. CASE SelectFails(r) \/ PackShort(r) \/ PackFails(r)
  BY <1>1, <1>3, ReplyLocals, IInvPartsPrime DEF SelectFails, PackShort, PackFails, store, StoreOK
<1>4. CASE RedisAnswers(r) \/ RedisFails(r)
  <2>1. LocalsOK'
    BY <1>1, <1>4, AfterCommandLocals DEF RedisAnswers, RedisFails
  <2>2. Carried(r) \in [User -> SUBSET Step]
    BY <1>1 DEF Carried, StoreOK, LocalsOK
  <2>3. StoreOK'
    BY <1>1, <1>4, <2>2 DEF RedisAnswers, RedisFails, StoreOK
  <2>4. QED
    BY <2>1, <2>3, IInvPartsPrime
<1>5. CASE PackAssigned(r)
  <2> DEFINE n == packs[user[r]]
             m == IF n < PackCap THEN n + 1 ELSE n
  <2>1. n \in 0 .. PackCap
    BY <1>1, <1>5 DEF PackAssigned, StoreOK, LocalsOK, BusyServes
  <2>2. m \in 0 .. PackCap
    BY <2>1, PackCapAssumption
  <2>3. packs' = [packs EXCEPT ![user[r]] = m]
    BY <1>5 DEF PackAssigned
  <2>4. packs' \in [User -> 0 .. PackCap]
    <3> HIDE DEF m
    <3>1. QED
      BY <1>1, <2>2, <2>3 DEF StoreOK
  <2>5. QED
    BY <1>1, <1>5, <2>4, ReplyLocals, IInvPartsPrime DEF PackAssigned, StoreOK
<1>6. QED
  BY <1>2, <1>3, <1>4, <1>5 DEF Proceed

LEMMA EnvironmentIInv ==
  ASSUME IInv, Environment
  PROVE  IInv'
<1>1. StoreOK /\ LocalsOK
  BY IInvParts
<1>2. ASSUME NEW r \in Request, Cancel(r) PROVE IInv'
  <2>1. LocalsOK'
    BY <1>1, <1>2 DEF Cancel, LocalsOK, BusyServes
  <2>2. QED
    BY <1>1, <1>2, <2>1, IInvPartsPrime DEF Cancel, store, StoreOK
<1>3. CASE Crash
  <2>1. LocalsOK'
    BY <1>3 DEF Crash, LocalsOK, BusyServes
  <2>2. QED
    BY <1>1, <1>3, <2>1, IInvPartsPrime DEF Crash, store, StoreOK
<1>4. CASE RedisCrash \/ RedisRestart \/ RedisSave \/ \E u \in User : Expire(u) \/ Evict(u)
  <2>1. UNCHANGED locals
    BY <1>4 DEF RedisCrash, RedisRestart, RedisSave, Expire, Evict
  <2>2. LocalsOK'
    BY <1>1, <2>1 DEF locals, LocalsOK, BusyServes
  <2>3. StoreOK'
    BY <1>1, <1>4 DEF RedisCrash, RedisRestart, RedisSave, Expire, Evict, StoreOK
  <2>4. QED
    BY <2>2, <2>3, IInvPartsPrime
<1>5. QED
  BY <1>2, <1>3, <1>4 DEF Environment

LEMMA NextIInv == IInv /\ [Next]_vars => IInv'
<1> SUFFICES ASSUME IInv, [Next]_vars PROVE IInv'
  OBVIOUS
<1>1. CASE UNCHANGED vars
  BY <1>1, IInvParts, IInvPartsPrime DEF vars, StoreOK, LocalsOK, BusyServes
<1>2. QED
  BY <1>1, ArriveIInv, ProceedIInv, EnvironmentIInv DEF Next

(* The types hold together with BusyServes.                                *)
THEOREM Invariance == Spec => []IInv
  BY InitIInv, NextIInv, PTL DEF Spec

(***************************************************************************)
(* Every reachable state of the user service and its stores is well typed, *)
(* for any requests, users, steps and faults; in particular no profile     *)
(* without a step is ever cached.                                          *)
(***************************************************************************)
THEOREM TypeCorrect == Spec => []TypeOK
<1>1. IInv => TypeOK
  BY DEF IInv
<1>2. QED
  BY <1>1, Invariance, PTL

-----------------------------------------------------------------------------
\* What a copy of u's profile may be after a step.
Known(u) == Kept(u) \cup ({row[u], row'[u]} \ {0})

(* Copies are old ones or the row before or after the step.                *)
LEMMA CopyStep ==
  ASSUME \A u \in User : cache'[u] \subseteq Known(u) /\ dump'[u] \subseteq Known(u),
         \A r \in Request : user'[r] \in User => held'[r] \subseteq Known(user'[r])
  PROVE  Store!Copy
<1> SUFFICES ASSUME NEW u \in User PROVE Kept(u)' \subseteq Known(u)
  BY DEF Store!Copy, Known
<1>1. \A r \in Request : user'[r] = u => held'[r] \subseteq Known(u)
  OBVIOUS
<1>2. QED
  BY <1>1 DEF Kept

LEMMA OldIsKnown ==
  /\ \A u \in User : cache[u] \subseteq Known(u) /\ dump[u] \subseteq Known(u)
  /\ \A r \in Request : user[r] \in User => held[r] \subseteq Known(user[r])
  BY DEF Known, Kept

(* A step of goroutine r leaves the claims of the others alone.            *)
LEMMA ClaimsOfOthers ==
  ASSUME NEW r \in Request, NEW u \in User,
         \A s \in Request \ {r} : pc'[s] = pc[s] /\ user'[s] = user[s] /\ held'[s] = held[s]
  PROVE  Claims(u)' \ {r} = Claims(u) \ {r}
  BY DEF Claims

LEMMA WriteCopies ==
  ASSUME IInv, NEW r \in Request, NEW u \in User, NEW s \in Step,
         NEW at \in {"set", "del"}, Write(r, u, s, at)
  PROVE  Store!Copy
<1>1. row'[u] = s /\ s # 0 /\ LocalsOK /\ StoreOK
  BY StepFacts, IInvParts DEF Write, StoreOK
<1>2. UNCHANGED <<cache, dump>>
  BY DEF Write
<1>3. ASSUME NEW q \in Request, user'[q] \in User
      PROVE  held'[q] \subseteq Known(user'[q])
  <2>1. CASE user'[q] = user[q] /\ held'[q] = held[q]
    BY <1>3, <2>1, OldIsKnown
  <2>2. CASE user'[q] = u /\ held'[q] = {s}
    BY <1>1, <2>2 DEF Known
  <2>3. QED
    BY <1>1, <2>1, <2>2 DEF Write, Continue, locals, LocalsOK
<1>4. QED
  BY <1>2, <1>3, OldIsKnown, CopyStep

(* A write by a statement after which no pack is due.                      *)
LEMMA PlainWriteClaims ==
  ASSUME IInv, NEW r \in Request, NEW u \in User, NEW s \in Step,
         NEW at \in {"set", "del"}, pc[r] = "idle", Write(r, u, s, at),
         at = "set" \/ s # LastStep \/ UNCHANGED locals
  PROVE  \A v \in User : Claims(v)' = Claims(v)
<1>1. LocalsOK
  BY IInvParts
<1>2. CASE UNCHANGED locals
  BY <1>2 DEF locals, Claims
<1>3. CASE Continue(r, at, u, {s}) /\ (at = "set" \/ s # LastStep)
  <2> SUFFICES ASSUME NEW v \in User PROVE Claims(v)' = Claims(v)
    OBVIOUS
  <2>1. Claims(v)' \ {r} = Claims(v) \ {r}
    BY <1>1, <1>3, ClaimsOfOthers DEF Continue, LocalsOK
  <2>2. r \notin Claims(v)
    BY DEF Claims
  <2>3. r \notin Claims(v)'
    BY <1>1, <1>3 DEF Claims, Continue, LocalsOK
  <2>4. QED
    BY <2>1, <2>2, <2>3
<1>4. QED
  BY <1>2, <1>3 DEF Write

LEMMA CreateMaps ==
  ASSUME IInv, NEW r \in Request, NEW u \in User, CreateProfile(r, u)
  PROVE  Store!Next
<1>1. Write(r, u, 1, "set") /\ pc[r] = "idle" /\ row[u] = 0
  BY DEF CreateProfile, Serves
<1>2. Store!Copy /\ \A v \in User : Claims(v)' = Claims(v)
  BY <1>1, StepFacts, WriteCopies, PlainWriteClaims
<1>3. Store!Enrol(u)
  BY <1>1, <1>2 DEF Write, Store!Enrol
<1>4. QED
  BY <1>2, <1>3 DEF Store!Next

LEMMA UpdateMaps ==
  ASSUME IInv, NEW r \in Request, NEW u \in User, NEW s \in Step,
         UpdateOnboarding(r, u, s)
  PROVE  Store!Next
<1>1. Write(r, u, s, "del") /\ pc[r] = "idle" /\ row[u] # 0
  BY DEF UpdateOnboarding, Serves
<1>2. Store!Copy
  BY <1>1, WriteCopies
<1>3. CASE s # LastStep \/ UNCHANGED locals
  <2>1. \A v \in User : Claims(v)' = Claims(v)
    BY <1>1, <1>3, PlainWriteClaims
  <2>2. Store!Move(u, s)
    BY <1>1, <2>1 DEF Write, Store!Move
  <2>3. QED
    BY <1>2, <2>2 DEF Store!Next, Store!Step, Step
<1>4. CASE s = LastStep /\ Continue(r, "del", u, {s})
  <2>1. LocalsOK
    BY IInvParts
  <2>2. \A v \in User : Claims(v)' \ {r} = Claims(v) \ {r}
    BY <1>4, <2>1, ClaimsOfOthers DEF Continue, LocalsOK
  <2>3. \A v \in User : r \notin Claims(v)
    BY <1>1 DEF Claims
  <2>4. \A v \in User : r \in Claims(v)' <=> v = u
    BY <1>4, <2>1 DEF Claims, Continue, LocalsOK
  <2>5. \A v \in User : Claims(v)' = IF v = u THEN Claims(v) \cup {r} ELSE Claims(v)
    BY <2>2, <2>3, <2>4
  <2>6. Store!Complete(u, r)
    BY <1>1, <1>4, <2>3, <2>5 DEF Write, Store!Complete
  <2>7. QED
    BY <1>2, <2>6 DEF Store!Next
<1>5. QED
  BY <1>1, <1>3, <1>4 DEF Write

(* Losing claims and leaving rows and packs alone is a step of the store.  *)
LEMMA LoseStep ==
  ASSUME UNCHANGED <<row, packs>>, Store!Copy,
         \A u \in User : Claims(u)' \subseteq Claims(u)
  PROVE  Store!Next
<1>1. Store!Lose
  BY DEF Store!Lose
<1>2. QED
  BY <1>1 DEF Store!Next

(* A reply drops what the goroutine held and claimed.                      *)
LEMMA ReplyDrops ==
  ASSUME LocalsOK, NEW r \in Request, Reply(r)
  PROVE  /\ \A q \in Request : user'[q] \in User =>
              user'[q] = user[q] /\ held'[q] \subseteq held[q]
         /\ \A u \in User : Claims(u)' = Claims(u) \ {r}
<1>1. \A q \in Request \ {r} : pc'[q] = pc[q] /\ user'[q] = user[q] /\ held'[q] = held[q]
  BY DEF Reply, LocalsOK
<1>2. pc'[r] = "idle" /\ user'[r] = "nobody" /\ held'[r] = {}
  BY DEF Reply, LocalsOK
<1>3. ASSUME NEW u \in User PROVE Claims(u)' = Claims(u) \ {r}
  <2>1. r \notin Claims(u)'
    BY <1>2 DEF Claims
  <2>2. QED
    BY <1>1, <2>1, ClaimsOfOthers
<1>4. QED
  BY <1>1, <1>2, <1>3, UserAssumption

LEMMA AfterCommandDrops ==
  ASSUME LocalsOK, NEW r \in Request, AfterCommand(r)
  PROVE  /\ \A q \in Request : user'[q] \in User =>
              user'[q] = user[q] /\ held'[q] \subseteq held[q]
         /\ \A u \in User : Claims(u)' \subseteq Claims(u)
<1>1. CASE Reply(r)
  BY <1>1, ReplyDrops
<1>2. CASE pc[r] = "del" /\ held[r] = {LastStep} /\ Continue(r, "call", user[r], {})
  BY <1>2 DEF Continue, LocalsOK, Claims
<1>3. QED
  BY <1>1, <1>2 DEF AfterCommand

LEMMA DropsAreKnown ==
  ASSUME \A q \in Request : user'[q] \in User =>
           user'[q] = user[q] /\ held'[q] \subseteq held[q]
  PROVE  \A q \in Request : user'[q] \in User => held'[q] \subseteq Known(user'[q])
  BY OldIsKnown

LEMMA ProceedMaps ==
  ASSUME IInv, NEW r \in Request, Proceed(r)
  PROVE  Store!Next
<1>1. StoreOK /\ LocalsOK
  BY IInvParts
<1>2. CASE SelectProfile(r)
  <2>1. UNCHANGED <<row, cache, dump, packs>>
    BY <1>2 DEF SelectProfile, store
  <2>2. \A q \in Request : \/ user'[q] = user[q] /\ held'[q] = held[q]
                           \/ row[user'[q]] # 0 /\ held'[q] = {row[user'[q]]}
    BY <1>1, <1>2 DEF SelectProfile, Continue, LocalsOK
  <2>3. Store!Copy
    BY <2>1, <2>2, OldIsKnown, CopyStep DEF Known
  <2>4. \A u \in User : Claims(u)' \subseteq Claims(u)
    BY <1>1, <1>2 DEF SelectProfile, Continue, LocalsOK, Claims
  <2>5. QED
    BY <2>1, <2>3, <2>4, LoseStep
<1>3. CASE SelectFails(r) \/ PackShort(r) \/ PackFails(r)
  <2>1. UNCHANGED <<row, cache, dump, packs>> /\ Reply(r)
    BY <1>3 DEF SelectFails, PackShort, PackFails, store
  <2>2. Store!Copy
    BY <1>1, <2>1, ReplyDrops, DropsAreKnown, OldIsKnown, CopyStep
  <2>3. QED
    BY <1>1, <2>1, <2>2, ReplyDrops, LoseStep
<1>4. CASE RedisAnswers(r) \/ RedisFails(r)
  <2>1. UNCHANGED <<row, dump, packs>> /\ AfterCommand(r) /\ cache' \in {cache, Carried(r)}
    BY <1>4 DEF RedisAnswers, RedisFails
  <2>2. \A u \in User : Carried(r)[u] \subseteq Known(u)
    BY <1>1, OldIsKnown DEF Carried, StoreOK, LocalsOK
  <2>3. Store!Copy
    BY <1>1, <2>1, <2>2, AfterCommandDrops, DropsAreKnown, OldIsKnown, CopyStep
  <2>4. QED
    BY <1>1, <2>1, <2>3, AfterCommandDrops, LoseStep
<1>5. CASE PackAssigned(r)
  <2>1. /\ UNCHANGED <<row, cache, dump>> /\ Reply(r)
        /\ pc[r] = "call" /\ user[r] \in User
    BY <1>1, <1>5 DEF PackAssigned, LocalsOK, BusyServes
  <2>2. Store!Copy
    BY <1>1, <2>1, ReplyDrops, DropsAreKnown, OldIsKnown, CopyStep
  <2>3. \A u \in User : r \in Claims(u) <=> u = user[r]
    BY <2>1 DEF Claims
  <2>4. \A u \in User : Claims(u)' = IF u = user[r] THEN Claims(u) \ {r} ELSE Claims(u)
    BY <1>1, <2>1, <2>3, ReplyDrops
  <2>5. Store!Grant(user[r], r)
    BY <1>5, <2>1, <2>3, <2>4 DEF PackAssigned, Store!Grant
  <2>6. QED
    BY <2>1, <2>2, <2>5 DEF Store!Next
<1>6. QED
  BY <1>2, <1>3, <1>4, <1>5 DEF Proceed

LEMMA ArriveMaps ==
  ASSUME IInv, NEW r \in Request, Arrive(r)
  PROVE  Store!Next
<1>1. ASSUME NEW u \in User, GetProfile(r, u) PROVE Store!Next
  <2>1. LocalsOK /\ UNCHANGED <<row, cache, dump, packs>>
    BY <1>1, IInvParts DEF GetProfile, store
  <2>2. \A q \in Request : \/ user'[q] = user[q] /\ held'[q] = held[q]
                           \/ held'[q] = {}
    BY <1>1, <2>1 DEF GetProfile, Continue, LocalsOK
  <2>3. Store!Copy
    BY <2>1, <2>2, OldIsKnown, CopyStep
  <2>4. \A v \in User : Claims(v)' \subseteq Claims(v)
    BY <1>1, <2>1 DEF GetProfile, Continue, LocalsOK, Claims
  <2>5. QED
    BY <2>1, <2>3, <2>4, LoseStep
<1>2. QED
  BY <1>1, CreateMaps, UpdateMaps DEF Arrive

LEMMA EnvironmentMaps ==
  ASSUME IInv, Environment
  PROVE  Store!Next
<1>1. StoreOK /\ LocalsOK
  BY IInvParts
<1>2. ASSUME NEW r \in Request, Cancel(r) PROVE Store!Next
  <2>1. UNCHANGED <<row, cache, dump, packs, pc, user, held>>
    BY <1>2 DEF Cancel, store
  <2>2. Store!Copy
    BY <2>1, OldIsKnown, CopyStep
  <2>3. \A u \in User : Claims(u)' \subseteq Claims(u)
    BY <2>1 DEF Claims
  <2>4. QED
    BY <2>1, <2>2, <2>3, LoseStep
<1>3. CASE Crash
  <2>1. UNCHANGED <<row, cache, dump, packs>>
    BY <1>3 DEF Crash, store
  <2>2. \A q \in Request : pc'[q] = "idle" /\ held'[q] = {}
    BY <1>3 DEF Crash
  <2>3. Store!Copy
    BY <2>1, <2>2, OldIsKnown, CopyStep
  <2>4. \A u \in User : Claims(u)' \subseteq Claims(u)
    BY <2>2 DEF Claims
  <2>5. QED
    BY <2>1, <2>3, <2>4, LoseStep
<1>4. CASE RedisCrash \/ RedisRestart \/ RedisSave \/ \E u \in User : Expire(u) \/ Evict(u)
  <2>1. UNCHANGED <<row, packs, pc, user, held>>
    BY <1>4 DEF RedisCrash, RedisRestart, RedisSave, Expire, Evict, locals
  <2>2. \A u \in User : cache'[u] \in {{}, cache[u], dump[u]} /\ dump'[u] \in {{}, cache[u], dump[u]}
    BY <1>1, <1>4 DEF RedisCrash, RedisRestart, RedisSave, Expire, Evict, StoreOK
  <2>3. Store!Copy
    BY <2>1, <2>2, OldIsKnown, CopyStep
  <2>4. \A u \in User : Claims(u)' \subseteq Claims(u)
    BY <2>1 DEF Claims
  <2>5. QED
    BY <2>1, <2>3, <2>4, LoseStep
<1>5. QED
  BY <1>2, <1>3, <1>4 DEF Environment

LEMMA NextMaps == IInv /\ [Next]_vars => [Store!Next]_Store!vars
<1> SUFFICES ASSUME IInv, [Next]_vars PROVE [Store!Next]_Store!vars
  OBVIOUS
<1>1. CASE UNCHANGED vars
  BY <1>1 DEF vars, Store!vars, Kept, Claims
<1>2. QED
  BY <1>1, ArriveMaps, ProceedMaps, EnvironmentMaps DEF Next

LEMMA InitMaps == Init => Store!Init
  BY DEF Init, Store!Init, Kept, Claims

(***************************************************************************)
(* The user service implements ProfileStore: whatever the interleaving and *)
(* the faults, a copy under a user's key is an old row of that user, and a *)
(* PATCH that completes an onboarding is worth at most one pack.           *)
(***************************************************************************)
THEOREM StoreImplemented == Spec => ImplementsStore
  BY InitMaps, NextMaps, Invariance, PTL DEF Spec, ImplementsStore, Store!Spec

-----------------------------------------------------------------------------
(* A copy under way, of a user whose requests are served one after the     *)
(* other, is the row; and nobody is served by a goroutine not hers.        *)
FillsOK ==
  /\ \A r \in Request : pc[r] # "idle" => user[r] \in Clients[r]
  /\ \A r \in Request : pc[r] = "set" /\ ServedAlone(user[r]) => held[r] = {row[user[r]]}

BInv == IInv /\ FillsOK /\ StaleHasCause

(* What a step must do for the users whose copy it leaves or makes stale.  *)
Accounted(u) ==
  Stale(u)' => \/ \E r \in Request : Owes(r, u)'
               \/ Stale(u) /\ \A r \in Request : Owes(r, u) => Owes(r, u)'
               \/ Skipped(u) \/ Restored(u) \/ Unanswered(u)
               \/ Overtaken(u) /\ ~ ServedAlone(u)

LEMMA AccountedStale ==
  ASSUME StaleHasCause, BlameNext, \A u \in User : Accounted(u)
  PROVE  StaleHasCause'
<1> SUFFICES ASSUME NEW u \in User, Stale(u)', ~ \E r \in Request : Owes(r, u)'
             PROVE  blame'[u] \cap PossibleCauses(u) # {}
  BY DEF StaleHasCause, PossibleCauses, ServedAlone
<1>1. blame'[u] = blame[u] \cup {cause \in Causes : Explains(cause, u)}
  BY DEF BlameNext, Stale
<1>2. CASE Stale(u) /\ \A r \in Request : Owes(r, u) => Owes(r, u)'
  BY <1>1, <1>2 DEF StaleHasCause
<1>3. CASE Skipped(u) \/ Restored(u) \/ Unanswered(u)
  <2>1. PICK cause \in Causes \ {"overtaken"} : Explains(cause, u)
    BY <1>3 DEF Explains, Causes
  <2>2. cause \in PossibleCauses(u)
    BY DEF PossibleCauses
  <2>3. QED
    BY <1>1, <2>1, <2>2
<1>4. CASE Overtaken(u) /\ ~ ServedAlone(u)
  <2>1. "overtaken" \in Causes /\ Explains("overtaken", u)
    BY <1>4 DEF Explains, Causes
  <2>2. "overtaken" \in PossibleCauses(u)
    BY <1>4, <2>1 DEF PossibleCauses
  <2>3. QED
    BY <1>1, <2>1, <2>2
<1>5. QED
  BY <1>2, <1>3, <1>4 DEF Accounted

(* Steps after which nothing is stale that was not, and that keep all DELs.*)
LEMMA HarmlessAccounted ==
  ASSUME \A u \in User : Stale(u)' => Stale(u),
         \A r \in Request : \A u \in User : Owes(r, u) => Owes(r, u)'
  PROVE  \A u \in User : Accounted(u)
  BY DEF Accounted

LEMMA WriteBlame ==
  ASSUME BInv, NEW r \in Request, Arrive(r)
  PROVE  FillsOK' /\ \A u \in User : Accounted(u)
<1>1. StoreOK /\ LocalsOK /\ FillsOK
  BY IInvParts DEF BInv
<1>2. ASSUME NEW u \in User, NEW s \in Step, NEW at \in {"set", "del"},
             Serves(r, u), Write(r, u, s, at)
      PROVE  /\ FillsOK' /\ cache' = cache
             /\ \A v \in User : row'[v] = IF v = u THEN s ELSE row[v]
             /\ \A q \in Request : \A v \in User : Owes(q, v) => Owes(q, v)'
             /\ Owes(r, u)' \/ at = "set" \/ pc' = pc
  <2>1. /\ \A v \in User : row'[v] = IF v = u THEN s ELSE row[v]
        /\ cache' = cache
    BY <1>1, <1>2 DEF Write, StoreOK
  <2>2. pc[r] = "idle" /\ u \in Clients[r]
    BY <1>2 DEF Serves
  <2>3. \A q \in Request \ {r} :
          pc'[q] = pc[q] /\ user'[q] = user[q] /\ held'[q] = held[q]
    BY <1>1, <1>2 DEF Write, Continue, locals, LocalsOK
  <2>4. \/ pc'[r] = at /\ user'[r] = u /\ held'[r] = {s}
        \/ pc' = pc /\ user' = user /\ held' = held
    BY <1>1, <1>2 DEF Write, Continue, locals, LocalsOK
  <2>5. \A q \in Request \ {r} : pc[q] = "set" /\ ServedAlone(user[q]) => user[q] # u
    BY <1>1, <2>2 DEF FillsOK, ServedAlone
  <2>6. \A q \in Request : pc'[q] # "idle" => user'[q] \in Clients[q]
    BY <1>1, <2>2, <2>3, <2>4 DEF FillsOK
  <2>7. \A q \in Request : pc'[q] = "set" /\ ServedAlone(user'[q]) =>
                             held'[q] = {row'[user'[q]]}
    <3> SUFFICES ASSUME NEW q \in Request, pc'[q] = "set", ServedAlone(user'[q])
                 PROVE  held'[q] = {row'[user'[q]]}
      OBVIOUS
    <3>1. CASE q # r
      BY <1>1, <2>1, <2>3, <2>5, <3>1 DEF FillsOK, LocalsOK, BusyServes
    <3>2. CASE q = r
      BY <2>1, <2>2, <2>4, <3>2
    <3>3. QED
      BY <3>1, <3>2
  <2>8. FillsOK'
    BY <2>6, <2>7 DEF FillsOK, ServedAlone
  <2>9. \A q \in Request : \A v \in User : Owes(q, v) => Owes(q, v)'
    BY <2>2, <2>3, <2>4 DEF Owes
  <2>10. QED
    BY <2>1, <2>4, <2>8, <2>9 DEF Owes
<1>3. ASSUME NEW u \in User, CreateProfile(r, u) PROVE FillsOK' /\ \A v \in User : Accounted(v)
  <2>1. Serves(r, u) /\ row[u] = 0 /\ Write(r, u, 1, "set") /\ 1 \in Step
    BY <1>3, StepFacts DEF CreateProfile
  <2>2. /\ FillsOK' /\ cache' = cache
        /\ \A v \in User : v # u => row'[v] = row[v]
        /\ \A q \in Request : \A v \in User : Owes(q, v) => Owes(q, v)'
    BY <1>2, <2>1
  <2>3. Stale(u)' => Stale(u)
    <3>1. cache[u] \subseteq Step
      BY <1>1 DEF StoreOK
    <3>2. QED
      BY <2>1, <2>2, <3>1, StepFacts DEF Stale
  <2>4. \A v \in User : Stale(v)' => Stale(v)
    BY <2>2, <2>3 DEF Stale
  <2>5. QED
    BY <2>2, <2>4, HarmlessAccounted
<1>4. ASSUME NEW u \in User, NEW s \in Step, UpdateOnboarding(r, u, s)
      PROVE  FillsOK' /\ \A v \in User : Accounted(v)
  <2>1. Serves(r, u) /\ Write(r, u, s, "del")
    BY <1>4 DEF UpdateOnboarding
  <2>2. /\ FillsOK' /\ cache' = cache
        /\ \A v \in User : v # u => row'[v] = row[v]
        /\ \A q \in Request : \A v \in User : Owes(q, v) => Owes(q, v)'
        /\ Owes(r, u)' \/ pc' = pc
    BY <1>2, <2>1
  <2>3. ASSUME NEW v \in User PROVE Accounted(v)
    <3>1. CASE v # u \/ row'[u] = row[u]
      BY <2>2, <3>1 DEF Accounted, Stale
    <3>2. CASE v = u /\ row'[u] # row[u]
      BY <2>2, <3>2 DEF Accounted, Unanswered
    <3>3. QED
      BY <3>1, <3>2
  <2>4. QED
    BY <2>2, <2>3
<1>5. ASSUME NEW u \in User, GetProfile(r, u) PROVE FillsOK' /\ \A v \in User : Accounted(v)
  <2>1. row' = row /\ cache' = cache /\ pc[r] = "idle" /\ u \in Clients[r]
    BY <1>5 DEF GetProfile, store, Serves
  <2>2. /\ pc'[r] = "select" /\ user'[r] = u
        /\ \A q \in Request \ {r} :
             pc'[q] = pc[q] /\ user'[q] = user[q] /\ held'[q] = held[q]
    BY <1>1, <1>5 DEF GetProfile, Continue, LocalsOK
  <2>3. FillsOK'
    BY <1>1, <2>1, <2>2 DEF FillsOK, ServedAlone
  <2>4. \A q \in Request : \A v \in User : Owes(q, v) => Owes(q, v)'
    BY <2>1, <2>2 DEF Owes
  <2>5. QED
    BY <2>1, <2>3, <2>4, HarmlessAccounted DEF Stale
<1>6. QED
  BY <1>3, <1>4, <1>5 DEF Arrive

(* The end of a handler, or of its goroutine, touches no other one.        *)
LEMMA EndsAlone ==
  ASSUME BInv, NEW r \in Request, pc[r] # "idle", row' = row, AfterCommand(r) \/ Reply(r)
  PROVE  /\ FillsOK'
         /\ \A q \in Request \ {r} : \A v \in User : Owes(q, v) => Owes(q, v)'
<1>1. LocalsOK /\ FillsOK
  BY IInvParts DEF BInv
<1>2. /\ \A q \in Request \ {r} :
           pc'[q] = pc[q] /\ user'[q] = user[q] /\ held'[q] = held[q]
      /\ pc'[r] = "idle" \/ (pc'[r] = "call" /\ user'[r] = user[r])
  BY <1>1 DEF AfterCommand, Continue, Reply, LocalsOK
<1>3. FillsOK'
  BY <1>1, <1>2 DEF FillsOK, ServedAlone
<1>4. QED
  BY <1>2, <1>3 DEF Owes

LEMMA CommandBlame ==
  ASSUME BInv, NEW r \in Request, RedisAnswers(r) \/ RedisFails(r)
  PROVE  FillsOK' /\ \A v \in User : Accounted(v)
<1>0. PICK u \in User : u = user[r]
  BY IInvParts DEF BInv, LocalsOK, BusyServes, RedisAnswers, RedisFails
<1>1. /\ StoreOK /\ FillsOK /\ pc[r] \in {"set", "del"} /\ u = user[r]
      /\ row' = row /\ AfterCommand(r)
  BY <1>0, IInvParts DEF BInv, RedisAnswers, RedisFails
<1>2. /\ FillsOK'
      /\ \A q \in Request \ {r} : \A v \in User : Owes(q, v) => Owes(q, v)'
  BY <1>1, EndsAlone
<1>3. /\ cache' \in {cache, Carried(r)}
      /\ Carried(r)[u] = IF pc[r] = "set" THEN held[r] ELSE {}
      /\ \A v \in User \ {u} : Carried(r)[v] = cache[v]
  BY <1>1 DEF RedisAnswers, RedisFails, Carried, StoreOK
<1>4. ASSUME NEW v \in User \ {u} PROVE Accounted(v)
  BY <1>1, <1>2, <1>3 DEF Accounted, Stale, Owes
<1>5. Accounted(u)
  <2>1. ASSUME Stale(u)', pc[r] = "set", cache'[u] = held[r] PROVE Overtaken(u) /\ ~ ServedAlone(u)
    <3>1. held[r] # {row[u]}
      BY <1>1, <2>1 DEF Stale
    <3>2. ~ ServedAlone(u)
      BY <1>1, <2>1, <3>1 DEF FillsOK
    <3>3. Overtaken(u)
      <4> USE DEF Overtaken
      <4> WITNESS r \in Request
      <4>1. QED
        BY <1>1, <2>1, <3>1
    <3>4. QED
      BY <3>2, <3>3
  <2>2. ASSUME Stale(u)', pc[r] = "set", cache'[u] # held[r]
        PROVE  Stale(u) /\ \A q \in Request : Owes(q, u) => Owes(q, u)'
    <3>1. cache' = cache
      BY <1>3, <2>2
    <3>2. QED
      BY <1>1, <1>2, <2>2, <3>1 DEF Stale, Owes
  <2>3. ASSUME Stale(u)', pc[r] = "del" PROVE Skipped(u)
    <3>1. cache'[u] # {}
      BY <2>3 DEF Stale
    <3>2. RedisFails(r)
      BY <1>3, <2>3, <3>1 DEF RedisAnswers
    <3>3. Owes(r, u) /\ ((RedisFails(r) /\ cache'[u] # {}) \/ Crash)
      BY <1>1, <2>3, <3>1, <3>2 DEF Owes
    <3>4. QED
      <4> USE DEF Skipped
      <4> WITNESS r \in Request
      <4>1. QED
        BY <3>3
  <2>4. QED
    BY <1>1, <2>1, <2>2, <2>3 DEF Accounted
<1>6. QED
  BY <1>2, <1>4, <1>5

LEMMA ProceedBlame ==
  ASSUME BInv, NEW r \in Request, Proceed(r)
  PROVE  FillsOK' /\ \A v \in User : Accounted(v)
<1>1. CASE SelectProfile(r)
  <2>1. LocalsOK /\ FillsOK /\ row' = row /\ cache' = cache /\ pc[r] = "select"
    BY <1>1, IInvParts DEF BInv, SelectProfile, store
  <2>2. /\ pc'[r] = "set" /\ user'[r] = user[r] /\ held'[r] = {row[user[r]]}
        /\ \A q \in Request \ {r} :
             pc'[q] = pc[q] /\ user'[q] = user[q] /\ held'[q] = held[q]
    BY <1>1, <2>1 DEF SelectProfile, Continue, LocalsOK
  <2>3. FillsOK'
    BY <2>1, <2>2 DEF FillsOK, ServedAlone
  <2>4. \A q \in Request : \A v \in User : Owes(q, v) => Owes(q, v)'
    BY <2>1, <2>2 DEF Owes
  <2>5. QED
    BY <2>1, <2>3, <2>4, HarmlessAccounted DEF Stale
<1>2. CASE SelectFails(r) \/ PackAssigned(r) \/ PackShort(r) \/ PackFails(r)
  <2>1. Reply(r) /\ row' = row /\ cache' = cache /\ pc[r] \in {"select", "call"}
    BY <1>2 DEF SelectFails, PackAssigned, PackShort, PackFails, store
  <2>2. /\ FillsOK'
        /\ \A q \in Request \ {r} : \A v \in User : Owes(q, v) => Owes(q, v)'
    BY <2>1, EndsAlone
  <2>3. \A q \in Request : \A v \in User : Owes(q, v) => Owes(q, v)'
    BY <2>1, <2>2 DEF Owes
  <2>4. QED
    BY <2>1, <2>2, <2>3, HarmlessAccounted DEF Stale
<1>3. QED
  BY <1>1, <1>2, CommandBlame DEF Proceed

LEMMA EnvironmentBlame ==
  ASSUME BInv, Environment
  PROVE  FillsOK' /\ \A v \in User : Accounted(v)
<1>1. FillsOK /\ StoreOK
  BY IInvParts DEF BInv
<1>2. CASE Crash
  <2>1. row' = row /\ cache' = cache
    BY <1>2 DEF Crash, store
  <2>2. FillsOK'
    BY <1>2 DEF Crash, FillsOK
  <2>3. \A v \in User : Accounted(v)
    BY <1>2, <2>1 DEF Accounted, Stale, Skipped
  <2>4. QED
    BY <2>2, <2>3
<1>3. CASE RedisRestart
  <2>1. FillsOK'
    BY <1>1, <1>3 DEF RedisRestart, locals, FillsOK, ServedAlone
  <2>2. \A v \in User : Accounted(v)
    BY <1>3 DEF RedisRestart, Accounted, Stale, Restored
  <2>3. QED
    BY <2>1, <2>2
<1>4. CASE \/ \E r \in Request : Cancel(r)
           \/ RedisCrash \/ RedisSave
           \/ \E u \in User : Expire(u) \/ Evict(u)
  <2>1. UNCHANGED <<row, pc, user, held>>
    BY <1>4 DEF Cancel, RedisCrash, RedisSave, Expire, Evict, store, locals
  <2>2. \A v \in User : cache'[v] \in {cache[v], {}}
    BY <1>1, <1>4 DEF Cancel, RedisCrash, RedisSave, Expire, Evict, store, StoreOK
  <2>3. FillsOK'
    BY <1>1, <2>1 DEF FillsOK, ServedAlone
  <2>4. QED
    BY <2>1, <2>2, <2>3, HarmlessAccounted DEF Stale, Owes
<1>5. QED
  BY <1>2, <1>3, <1>4 DEF Environment

LEMMA InitBInv == BlameInit => BInv
<1> SUFFICES ASSUME BlameInit PROVE BInv
  OBVIOUS
<1>1. IInv
  BY InitIInv DEF BlameInit
<1>2. FillsOK
  BY DEF BlameInit, Init, FillsOK
<1>3. StaleHasCause
  BY DEF BlameInit, Init, StaleHasCause, Stale
<1>4. QED
  BY <1>1, <1>2, <1>3 DEF BInv

LEMMA NextBInv == BInv /\ [BlameNext]_blameVars => BInv'
<1> SUFFICES ASSUME BInv, [BlameNext]_blameVars PROVE BInv'
  OBVIOUS
<1>1. CASE BlameNext
  <2>1. IInv'
    BY <1>1, NextIInv DEF BInv, BlameNext
  <2>2. FillsOK' /\ \A v \in User : Accounted(v)
    BY <1>1, WriteBlame, ProceedBlame, EnvironmentBlame DEF BlameNext, Next
  <2>3. QED
    BY <1>1, <2>1, <2>2, AccountedStale DEF BInv
<1>2. CASE UNCHANGED blameVars
  <2>1. UNCHANGED vars /\ UNCHANGED <<row, cache, pc, user, held, blame>>
    BY <1>2 DEF blameVars, vars, store, locals
  <2>2. IInv'
    BY <2>1, NextIInv DEF BInv
  <2>3. FillsOK' /\ StaleHasCause'
    BY <2>1 DEF BInv, FillsOK, StaleHasCause, Stale, Owes, PossibleCauses, ServedAlone
  <2>4. QED
    BY <2>2, <2>3 DEF BInv
<1>3. QED
  BY <1>1, <1>2

(***************************************************************************)
(* For any goroutines and users, a cached profile is out of date only for  *)
(* one of the named causes, and never because a late fill overtook the DEL *)
(* of a user served by one goroutine (user.go:54-174).                     *)
(***************************************************************************)
THEOREM StaleHasCauseCorrect == BlameSpec => []StaleHasCause
<1>1. BInv => StaleHasCause
  BY DEF BInv
<1>2. QED
  BY <1>1, InitBInv, NextBInv, PTL DEF BlameSpec

-----------------------------------------------------------------------------
(* What a step must do for the pack that u has been, or is to be, given.   *)
KeepsPack(u) == packs[u] > 0 => packs'[u] > 0

PassesClaim(u) ==
  Claims(u) # {} => Claims(u)' # {} \/ packs'[u] > 0 \/ Loses(u)

MakesClaim(u) ==
  row'[u] = LastStep => row[u] = LastStep \/ Claims(u)' # {} \/ Loses(u)

Cares(u) == KeepsPack(u) /\ PassesClaim(u) /\ MakesClaim(u)

(* Steps that leave rows, packs and claims alone.                          *)
LEMMA SameCares ==
  ASSUME NEW u \in User, row'[u] = row[u], packs' = packs, Claims(u) \subseteq Claims(u)'
  PROVE  Cares(u)
  BY DEF Cares, KeepsPack, PassesClaim, MakesClaim

(* An idle goroutine that starts to serve somebody takes no claim away.    *)
LEMMA StartKeepsClaims ==
  ASSUME LocalsOK, NEW r \in Request, pc[r] = "idle",
         \A q \in Request \ {r} : pc'[q] = pc[q] /\ user'[q] = user[q] /\ held'[q] = held[q]
  PROVE  \A u \in User : Claims(u) \subseteq Claims(u)'
<1> SUFFICES ASSUME NEW u \in User PROVE Claims(u) \subseteq Claims(u)'
  OBVIOUS
<1>1. r \notin Claims(u)
  BY DEF Claims
<1>2. QED
  BY <1>1, ClaimsOfOthers

LEMMA ArriveCares ==
  ASSUME IInv, NEW r \in Request, Arrive(r), NEW u \in User
  PROVE  Cares(u)
<1>1. StoreOK /\ LocalsOK /\ pc[r] = "idle"
  BY IInvParts DEF Arrive, CreateProfile, UpdateOnboarding, GetProfile, Serves
<1>2. /\ packs' = packs
      /\ \A q \in Request \ {r} :
           pc'[q] = pc[q] /\ user'[q] = user[q] /\ held'[q] = held[q]
  BY <1>1 DEF Arrive, CreateProfile, UpdateOnboarding, GetProfile, Write, Continue,
              locals, store, LocalsOK
<1>3. Claims(u) \subseteq Claims(u)'
  BY <1>1, <1>2, StartKeepsClaims
<1>4. CASE row'[u] = row[u]
  BY <1>2, <1>3, <1>4, SameCares
<1>5. CASE row'[u] # row[u] /\ row'[u] = LastStep
  <2>1. PICK s \in Step : Write(r, u, s, "del") /\ s = LastStep
    <3>1. ASSUME NEW v \in User, CreateProfile(r, v) PROVE FALSE
      BY <1>1, <1>5, <3>1, LastStepAssumption DEF CreateProfile, Write, StoreOK
    <3>2. ASSUME NEW v \in User, NEW s \in Step, UpdateOnboarding(r, v, s)
          PROVE  v = u /\ s = LastStep
      BY <1>1, <1>5, <3>2 DEF UpdateOnboarding, Write, StoreOK
    <3>3. QED
      BY <1>5, <3>1, <3>2, StepFacts DEF Arrive, GetProfile, store, UpdateOnboarding
  <2>2. CASE UNCHANGED locals
    BY <1>2, <1>3, <1>5, <2>2 DEF locals, Cares, KeepsPack, PassesClaim, MakesClaim, Loses
  <2>3. CASE Continue(r, "del", u, {LastStep})
    <3>1. r \in Claims(u)'
      BY <1>1, <2>3 DEF Claims, Continue, LocalsOK
    <3>2. QED
      BY <1>2, <3>1 DEF Cares, KeepsPack, PassesClaim, MakesClaim
  <2>4. QED
    BY <2>1, <2>2, <2>3 DEF Write
<1>6. CASE row'[u] # LastStep
  BY <1>2, <1>3, <1>6 DEF Cares, KeepsPack, PassesClaim, MakesClaim
<1>7. QED
  BY <1>4, <1>5, <1>6

LEMMA ProceedCares ==
  ASSUME IInv, NEW r \in Request, Proceed(r), NEW u \in User
  PROVE  Cares(u)
<1>1. StoreOK /\ LocalsOK
  BY IInvParts
<1>2. CASE SelectProfile(r) \/ SelectFails(r)
  <2>1. row' = row /\ packs' = packs /\ pc[r] = "select" /\ r \notin Claims(u)
    BY <1>2 DEF SelectProfile, SelectFails, store, Claims
  <2>2. \A q \in Request \ {r} : pc'[q] = pc[q] /\ user'[q] = user[q] /\ held'[q] = held[q]
    BY <1>1, <1>2 DEF SelectProfile, SelectFails, Continue, Reply, LocalsOK
  <2>3. QED
    BY <2>1, <2>2, ClaimsOfOthers, SameCares
<1>3. CASE RedisAnswers(r) \/ RedisFails(r)
  <2>1. row' = row /\ packs' = packs /\ pc[r] \in {"set", "del"} /\ AfterCommand(r)
    BY <1>3 DEF RedisAnswers, RedisFails
  <2>2. CASE Reply(r) /\ ~ (pc[r] = "del" /\ held[r] = {LastStep})
    <3>1. r \notin Claims(u)
      BY <2>1, <2>2 DEF Claims
    <3>2. QED
      BY <1>1, <2>1, <2>2, <3>1, ReplyDrops, SameCares
  <2>3. CASE Continue(r, "call", user[r], {})
    <3>1. Claims(u) \subseteq Claims(u)'
      BY <1>1, <2>3 DEF Continue, LocalsOK, Claims
    <3>2. QED
      BY <2>1, <3>1, SameCares
  <2>4. QED
    BY <2>1, <2>2, <2>3 DEF AfterCommand
<1>4. CASE PackAssigned(r)
  <2>1. Reply(r) /\ row' = row /\ pc[r] = "call" /\ user[r] \in User
    BY <1>1, <1>4 DEF PackAssigned, LocalsOK, BusyServes
  <2> DEFINE n == packs[user[r]]
             m == IF n < PackCap THEN n + 1 ELSE n
  <2>2. n \in 0 .. PackCap /\ packs[u] \in 0 .. PackCap
    BY <1>1, <2>1 DEF StoreOK
  <2>3. m > 0
    BY <2>2, PackCapAssumption
  <2>4. packs'[u] = IF u = user[r] THEN m ELSE packs[u]
    <3>1. packs' = [packs EXCEPT ![user[r]] = m]
      BY <1>4 DEF PackAssigned
    <3> HIDE DEF m
    <3>2. QED
      BY <1>1, <3>1 DEF StoreOK
  <2> HIDE DEF m
  <2>5. CASE u = user[r]
    BY <2>1, <2>3, <2>4, <2>5 DEF Cares, KeepsPack, PassesClaim, MakesClaim
  <2>6. CASE u # user[r]
    <3>1. r \notin Claims(u)
      BY <2>6 DEF Claims
    <3>2. Claims(u)' = Claims(u)
      BY <1>1, <2>1, <3>1, ReplyDrops
    <3>3. QED
      BY <2>1, <2>4, <2>6, <3>2 DEF Cares, KeepsPack, PassesClaim, MakesClaim
  <2>7. QED
    BY <2>5, <2>6
<1>5. CASE PackShort(r) \/ PackFails(r)
  <2>1. Reply(r) /\ row' = row /\ packs' = packs
    BY <1>5 DEF PackShort, PackFails, store
  <2>2. CASE r \in Claims(u)
    BY <1>5, <2>1, <2>2 DEF Cares, KeepsPack, PassesClaim, MakesClaim, Loses
  <2>3. CASE r \notin Claims(u)
    BY <1>1, <2>1, <2>3, ReplyDrops, SameCares
  <2>4. QED
    BY <2>2, <2>3
<1>6. QED
  BY <1>2, <1>3, <1>4, <1>5 DEF Proceed

LEMMA EnvironmentCares ==
  ASSUME Environment, NEW u \in User
  PROVE  Cares(u)
<1>1. CASE Crash
  BY <1>1 DEF Crash, store, Cares, KeepsPack, PassesClaim, MakesClaim, Loses
<1>2. CASE ~ Crash
  <2>1. UNCHANGED <<row, packs, pc, user, held>>
    BY <1>2 DEF Environment, Cancel, RedisCrash, RedisRestart, RedisSave, Expire, Evict,
                store, locals
  <2>2. Claims(u)' = Claims(u)
    BY <2>1 DEF Claims
  <2>3. QED
    BY <2>1, <2>2, SameCares
<1>3. QED
  BY <1>1, <1>2

LEMMA NextCares ==
  ASSUME IInv, Next, NEW u \in User
  PROVE  Cares(u)
  BY ArriveCares, ProceedCares, EnvironmentCares DEF Next

RInv == IInv /\ PackIsComing

LEMMA InitRInv == RewardInit => RInv
  BY InitIInv, LastStepAssumption DEF RewardInit, RInv, PackIsComing, Init

LEMMA NextRInv == RInv /\ [RewardNext]_rewardVars => RInv'
<1> SUFFICES ASSUME RInv, [RewardNext]_rewardVars PROVE RInv'
  OBVIOUS
<1>1. CASE RewardNext
  <2>1. IInv'
    BY <1>1, NextIInv DEF RInv, RewardNext
  <2>2. ASSUME NEW u \in User, row'[u] = LastStep
        PROVE  packs'[u] > 0 \/ u \in lost' \/ Claims(u)' # {}
    <3>1. KeepsPack(u) /\ PassesClaim(u) /\ MakesClaim(u)
      BY <1>1, NextCares DEF RInv, RewardNext, Cares
    <3>2. Loses(u) \/ (u \in lost /\ Claims(u) = {}) => u \in lost'
      BY <1>1 DEF RewardNext
    <3>3. row[u] = LastStep => packs[u] > 0 \/ u \in lost \/ Claims(u) # {}
      BY DEF RInv, PackIsComing
    <3>4. QED
      BY <2>2, <3>1, <3>2, <3>3 DEF KeepsPack, PassesClaim, MakesClaim
  <2>3. QED
    BY <2>1, <2>2 DEF RInv, PackIsComing
<1>2. CASE UNCHANGED rewardVars
  <2>1. UNCHANGED vars /\ UNCHANGED <<row, packs, pc, user, held, lost>>
    BY <1>2 DEF rewardVars, vars
  <2>2. IInv'
    BY <2>1, NextIInv DEF RInv
  <2>3. PackIsComing'
    BY <2>1 DEF RInv, PackIsComing, Claims
  <2>4. QED
    BY <2>2, <2>3 DEF RInv
<1>3. QED
  BY <1>1, <1>2

(***************************************************************************)
(* For any goroutines, users and faults, a completed onboarding has its    *)
(* whole pack, or a goroutine is still to ask for it, or one of the four   *)
(* named reasons lost the claim - a crash, a failed call, a failed insert  *)
(* that the call's answer hides, an unanswered UPDATE (user.go:145-168,    *)
(* grpc.go:75-101); the order in which requests of one user overlap,       *)
(* cancelled requests and Redis are no such reason.                        *)
(***************************************************************************)
THEOREM PackIsComingCorrect == RewardSpec => []PackIsComing
<1>1. RInv => PackIsComing
  BY DEF RInv
<1>2. QED
  BY <1>1, InitRInv, NextRInv, PTL DEF RewardSpec

(* The handler hears of each row it writes while PostgreSQL answers.       *)
LEMMA RowWriteMoves ==
  ASSUME "postgres" \notin Faults, IInv, Next, NEW u \in User, row[u] # row'[u]
  PROVE  pc' # pc
<1>1. PICK r \in Request : Arrive(r)
  BY DEF Next, Proceed, Environment, SelectProfile, SelectFails, RedisAnswers, RedisFails,
         PackAssigned, PackShort, PackFails, Cancel, Crash, RedisCrash, RedisRestart, RedisSave,
         Expire, Evict, store
<1>2. PICK v \in User, s \in Step, at \in {"set", "del"} : pc[r] = "idle" /\ Write(r, v, s, at)
  BY <1>1, StepFacts DEF Arrive, CreateProfile, UpdateOnboarding, GetProfile, Serves, store
<1>3. pc' = [pc EXCEPT ![r] = at]
  BY <1>2 DEF Write, Continue
<1>4. QED
  BY <1>2, <1>3 DEF IInv, TypeOK

(* Nothing is lost while the service and its database are up and each call *)
(* to the inventory is answered and all its inserts succeed, whatever      *)
(* happens to Redis and to the clients.                                    *)
LEMMA NothingLost ==
  ASSUME Faults \cap {"crash", "inventory", "insert", "postgres"} = {}, IInv, Next, NEW u \in User
  PROVE  ~ Loses(u)
<1>1. ~ Crash /\ \A r \in Request : ~ PackShort(r) /\ ~ PackFails(r)
  BY DEF Crash, PackShort, PackFails
<1>2. row[u] # row'[u] => pc' # pc
  BY RowWriteMoves
<1>3. QED
  BY <1>1, <1>2 DEF Loses, Claims

ClaimedOrGiven == \A u \in User : row[u] = LastStep => packs[u] > 0 \/ Claims(u) # {}

(***************************************************************************)
(* As long as the service does not crash, each query and each call to the  *)
(* inventory is answered and none of its inserts fails, every completed    *)
(* onboarding has its whole pack or a goroutine that is still to ask for   *)
(* it: no failure of Redis, cancelled request or overlap of requests costs *)
(* a user the pack (user.go:145-168, grpc.go:75-101).                      *)
(***************************************************************************)
THEOREM ClaimedOrGivenCorrect ==
  ASSUME Faults \cap {"crash", "inventory", "insert", "postgres"} = {}
  PROVE  Spec => []ClaimedOrGiven
<1>1. Init => ClaimedOrGiven
  BY LastStepAssumption DEF Init, ClaimedOrGiven
<1>2. IInv /\ ClaimedOrGiven /\ [Next]_vars => ClaimedOrGiven'
  <2> SUFFICES ASSUME IInv, ClaimedOrGiven, [Next]_vars PROVE ClaimedOrGiven'
    OBVIOUS
  <2>1. CASE Next
    <3>1. \A u \in User : Cares(u) /\ ~ Loses(u)
      BY <2>1, NextCares, NothingLost
    <3>2. QED
      BY <3>1 DEF ClaimedOrGiven, Cares, KeepsPack, PassesClaim, MakesClaim
  <2>2. CASE UNCHANGED vars
    BY <2>2 DEF vars, ClaimedOrGiven, Claims
  <2>3. QED
    BY <2>1, <2>2
<1>3. QED
  BY <1>1, <1>2, Invariance, PTL DEF Spec

(* The stores answer and nothing is cut off: then no copy is out of date   *)
(* but for a late fill.                                                    *)
Reliable == Faults \cap {"crash", "redis", "timeout", "cancel", "postgres"} = {}

AllUp ==
  /\ redisUp
  /\ \A r \in Request : live[r]
  /\ \A u \in User : blame[u] \subseteq {"overtaken"}

LEMMA ReliableStays ==
  ASSUME Reliable, BInv, AllUp, [BlameNext]_blameVars
  PROVE  AllUp'
<1>1. CASE BlameNext
  <2>1. StoreOK /\ LocalsOK
    BY IInvParts DEF BInv
  <2>2. \A r \in Request : ~ RedisFails(r) /\ ~ Cancel(r)
    BY DEF Reliable, AllUp, RedisFails, Cancel
  <2>3. ~ Crash /\ ~ RedisCrash /\ ~ RedisRestart
    BY DEF Reliable, AllUp, Crash, RedisCrash, RedisRestart
  <2>4. redisUp'
    BY <1>1, <2>2, <2>3
       DEF BlameNext, AllUp, Next, Arrive, Proceed, Environment, CreateProfile, UpdateOnboarding,
           GetProfile, Write, SelectProfile, SelectFails, RedisAnswers, PackAssigned, PackShort,
           PackFails, RedisSave, Expire, Evict, store
  <2>5. \A r \in Request : live'[r]
    <3>1. live' = live \/ \E r \in Request : live' = [live EXCEPT ![r] = TRUE]
      BY <1>1, <2>2, <2>3
         DEF BlameNext, Next, Arrive, Proceed, Environment, CreateProfile, UpdateOnboarding,
             GetProfile, Write, SelectProfile, SelectFails, RedisAnswers, PackAssigned, PackShort,
             PackFails, AfterCommand, Continue, Reply, RedisSave, Expire, Evict, locals
    <3>2. QED
      BY <2>1, <3>1 DEF AllUp, LocalsOK
  <2>6. ASSUME NEW u \in User, NEW cause \in Causes \ {"overtaken"} PROVE ~ Explains(cause, u)
    <3>1. ~ Skipped(u) /\ ~ Restored(u)
      BY <2>2, <2>3 DEF Skipped, Restored
    <3>2. ~ Unanswered(u)
      BY <1>1, RowWriteMoves DEF Reliable, Unanswered, BInv, BlameNext
    <3>3. QED
      BY <2>6, <3>1, <3>2 DEF Explains
  <2>7. ASSUME NEW u \in User PROVE blame'[u] \subseteq {"overtaken"}
    <3>1. {cause \in Causes : Explains(cause, u)} \subseteq {"overtaken"}
      BY <2>6
    <3>2. blame'[u] \subseteq blame[u] \cup {cause \in Causes : Explains(cause, u)}
      BY <1>1 DEF BlameNext
    <3>3. QED
      BY <3>1, <3>2 DEF AllUp
  <2>8. QED
    BY <2>4, <2>5, <2>7 DEF AllUp
<1>2. CASE UNCHANGED blameVars
  BY <1>2 DEF blameVars, vars, AllUp
<1>3. QED
  BY <1>1, <1>2

FreshOrOwed ==
  \A u \in User : ServedAlone(u) /\ Stale(u) => \E r \in Request : Owes(r, u)

(***************************************************************************)
(* A user whose requests are served one after the other, while PostgreSQL  *)
(* and Redis answer, reads what she wrote: the cached profile differs from *)
(* the row only until the handler of the update has returned, however the  *)
(* requests of others, evictions, expiries and the calls to the inventory  *)
(* interleave (user.go:102-174).                                           *)
(***************************************************************************)
THEOREM ReadYourWrites ==
  ASSUME Reliable
  PROVE  BlameSpec => []FreshOrOwed
<1>1. BlameInit => AllUp
  BY DEF BlameInit, Init, AllUp
<1>2. BInv /\ AllUp /\ [BlameNext]_blameVars => AllUp'
  BY ReliableStays
<1>3. BInv /\ AllUp => FreshOrOwed
  BY DEF BInv, AllUp, StaleHasCause, PossibleCauses, FreshOrOwed
<1>4. QED
  BY <1>1, <1>2, <1>3, InitBInv, NextBInv, PTL DEF BlameSpec
=============================================================================
