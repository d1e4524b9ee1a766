-------------------------- MODULE InventoryProofs --------------------------
(***************************************************************************)
(* Theorems about Inventory, for any number of goroutines, users and       *)
(* assets, any workload and any of the faults.  The argument: the types    *)
(* are inductive together with the loop over the starter pack (whoever is  *)
(* in it knows its user and has something left to insert); with the types, *)
(* every step of the service is a step of AssetStore, because no step puts *)
(* into Redis, its snapshot or a handler's hands anything but a list that  *)
(* was already kept somewhere or the present collection; and AssetStore    *)
(* never outruns the lists in circulation.                                 *)
(* Then two arguments about steps: each one accounts for a stale list that *)
(* it leaves in the cache; and, without faults, each failure the breaker   *)
(* counts is a miss whose SET is still to come.                            *)
(***************************************************************************)
EXTENDS InventoryBlame, BreakerTheorems, FiniteSetTheorems

StarterLoop ==
  \A r \in Request :
    pc[r] = "pack" => pack[r].user \in User /\ pack[r].left \in 1 .. PackSize

IInv == TypeOK /\ StarterLoop /\ Consistent(breaker)

\* The part of the invariant about one step's local variables.
LocalsOK ==
  /\ pc \in [Request -> {"idle", "find", "pack", "gate", "redis", "report"}]
  /\ cmd \in [Request -> {"none", "get", "set", "del", "ping"}]
  /\ view \in [Request -> SUBSET List]
  /\ out \in [Request -> {"ok", "err"}]
  /\ live \in [Request -> BOOLEAN]
  /\ pack \in [Request -> [user : User \cup {"nobody"}, left : 0 .. PackSize]]
  /\ StarterLoop

StoreOK ==
  /\ docs \in List
  /\ cache \in SUBSET List /\ dump \in SUBSET List
  /\ redisUp \in BOOLEAN

LEMMA IInvParts == IInv <=> StoreOK /\ Consistent(breaker) /\ LocalsOK
  BY DEF IInv, TypeOK, StoreOK, LocalsOK, Consistent

LEMMA IInvPartsPrime ==
  IInv' <=> StoreOK' /\ Consistent(breaker') /\ LocalsOK'
  BY DEF IInv, TypeOK, StoreOK, LocalsOK, Consistent

(* What the shared ends of the handlers do to the local variables.         *)
LEMMA ReplyLocals ==
  ASSUME LocalsOK, NEW r \in Request, Reply(r)
  PROVE  LocalsOK'
<1>1. NoPack \in [user : User \cup {"nobody"}, left : 0 .. PackSize]
  BY PackSizeAssumption DEF NoPack
<1>2. \A s \in Request : pc'[s] = "pack" => s # r /\ pc[s] = "pack"
  BY DEF Reply, LocalsOK
<1>3. StarterLoop'
  BY <1>2 DEF Reply, LocalsOK, StarterLoop
<1>4. QED
  BY <1>1, <1>3 DEF Reply, LocalsOK

LEMMA CallRedisLocals ==
  ASSUME LocalsOK, NEW r \in Request, NEW c \in {"get", "set", "del", "ping"},
         CallRedis(r, c),
         view' \in [Request -> SUBSET List],
         live' \in [Request -> BOOLEAN],
         UNCHANGED pack
  PROVE  LocalsOK'
<1>1. \A s \in Request : pc'[s] = "pack" => pc[s] = "pack"
  BY DEF CallRedis, LocalsOK
<1>2. StarterLoop'
  BY <1>1 DEF LocalsOK, StarterLoop
<1>3. QED
  BY <1>2 DEF CallRedis, LocalsOK

LEMMA AfterExecuteLocals ==
  ASSUME LocalsOK, NEW r \in Request, NEW e, AfterExecute(r, e)
  PROVE  LocalsOK'
<1>1. CASE Reply(r)
  BY <1>1, ReplyLocals
<1>2. CASE FallThrough(r)
  <2>1. \A s \in Request : pc'[s] = "pack" => pc[s] = "pack"
    BY <1>2 DEF FallThrough, LocalsOK
  <2>2. StarterLoop'
    BY <1>2, <2>1 DEF FallThrough, LocalsOK, StarterLoop
  <2>3. QED
    BY <1>2, <2>2 DEF FallThrough, LocalsOK
<1>3. QED
  BY <1>1, <1>2 DEF AfterExecute

LEMMA NextStarterLocals ==
  ASSUME LocalsOK, NEW r \in Request, pc[r] = "pack", NextStarter(r),
         UNCHANGED <<view, live>>
  PROVE  LocalsOK'
<1>1. /\ pack[r].user \in User
      /\ pack[r].left \in 1 .. PackSize
  BY DEF LocalsOK, StarterLoop
<1> DEFINE rest == [user |-> pack[r].user, left |-> pack[r].left - 1]
<1>2. /\ pack' = [pack EXCEPT ![r] = rest]
      /\ rest \in [user : User \cup {"nobody"}, left : 0 .. PackSize]
  BY <1>1, PackSizeAssumption DEF NextStarter
<1>3. /\ pc' \in [Request -> {"idle", "find", "pack", "gate", "redis", "report"}]
      /\ cmd' \in [Request -> {"none", "get", "set", "del", "ping"}]
      /\ out' \in [Request -> {"ok", "err"}]
      /\ \A s \in Request : pc'[s] = "pack" =>
            pc[s] = "pack" /\ (s = r => pack[r].left # 1)
  BY DEF NextStarter, CallRedis, LocalsOK
<1>4. pack' \in [Request -> [user : User \cup {"nobody"}, left : 0 .. PackSize]]
  BY <1>2 DEF LocalsOK
<1>5. StarterLoop'
  <2> SUFFICES ASSUME NEW s \in Request, pc'[s] = "pack"
               PROVE  pack'[s].user \in User /\ pack'[s].left \in 1 .. PackSize
    BY DEF StarterLoop
  <2>1. CASE s = r
    <3>1. pack'[s] = rest
      BY <1>2, <2>1 DEF LocalsOK
    <3>2. pack[r].left # 1
      BY <1>3, <2>1
    <3>3. QED
      BY <1>1, <3>1, <3>2, PackSizeAssumption
  <2>2. CASE s # r
    <3>1. pack'[s] = pack[s] /\ pc[s] = "pack"
      BY <1>2, <1>3, <2>2 DEF LocalsOK
    <3>2. QED
      BY <3>1 DEF LocalsOK, StarterLoop
  <2>3. QED
    BY <2>1, <2>2
<1>6. QED
  BY <1>3, <1>4, <1>5 DEF LocalsOK


-----------------------------------------------------------------------------
LEMMA InitIInv == Init => IInv
<1> SUFFICES ASSUME Init PROVE IInv
  OBVIOUS
<1>1. StoreOK
  BY DEF Init, StoreOK, List, Doc
<1>2. Consistent(breaker)
  BY NewBreakerConsistent DEF Init
<1>3. LocalsOK
  BY PackSizeAssumption DEF Init, LocalsOK, StarterLoop, NoPack
<1>4. QED
  BY <1>1, <1>2, <1>3, IInvParts

LEMMA ArriveIInv ==
  ASSUME IInv, NEW r \in Request, Arrive(r)
  PROVE  IInv'
<1>1. StoreOK /\ Consistent(breaker) /\ LocalsOK
  BY IInvParts
<1>2. CASE ListAssets(r)
  <2>1. LocalsOK'
    BY <1>1, <1>2, CallRedisLocals DEF ListAssets, LocalsOK
  <2>2. QED
    BY <1>1, <1>2, <2>1, IInvPartsPrime DEF ListAssets, StoreOK, store
<1>3. ASSUME NEW a \in Asset, NEW d \in {"available"} \cup User,
             WriteThenInvalidate(r, a, d)
      PROVE  IInv'
  <2>1. docs' \in List
    BY <1>1, <1>3 DEF WriteThenInvalidate, StoreOK, List, Doc
  <2>2. LocalsOK'
    <3>1. CASE CallRedis(r, "del")
      BY <1>1, <1>3, <3>1, CallRedisLocals DEF WriteThenInvalidate, LocalsOK
    <3>2. CASE UNCHANGED <<pc, cmd, out>>
      BY <1>1, <1>3, <3>2 DEF WriteThenInvalidate, LocalsOK, StarterLoop
    <3>3. QED
      BY <1>3, <3>1, <3>2 DEF WriteThenInvalidate
  <2>3. QED
    BY <1>1, <1>3, <2>1, <2>2, IInvPartsPrime DEF WriteThenInvalidate, StoreOK
<1>4. ASSUME NEW u \in User, AssignStarterPack(r, u)
      PROVE  IInv'
  <2> DEFINE new == [user |-> u, left |-> PackSize]
  <2>1. /\ new \in [user : User \cup {"nobody"}, left : 0 .. PackSize]
        /\ PackSize \in 1 .. PackSize
    BY PackSizeAssumption
  <2>2. pack' = [pack EXCEPT ![r] = new]
    BY <1>4 DEF AssignStarterPack
  <2>3. pack' \in [Request -> [user : User \cup {"nobody"}, left : 0 .. PackSize]]
    BY <1>1, <2>1, <2>2 DEF LocalsOK
  <2>4. StarterLoop'
    <3> SUFFICES ASSUME NEW s \in Request, pc'[s] = "pack"
                 PROVE  pack'[s].user \in User /\ pack'[s].left \in 1 .. PackSize
      BY DEF StarterLoop
    <3>1. CASE s = r
      BY <1>1, <2>1, <2>2, <3>1 DEF LocalsOK
    <3>2. CASE s # r
      BY <1>1, <1>4, <2>2, <3>2 DEF AssignStarterPack, LocalsOK, StarterLoop
    <3>3. QED
      BY <3>1, <3>2
  <2>5. LocalsOK'
    BY <1>1, <1>4, <2>3, <2>4 DEF AssignStarterPack, LocalsOK
  <2>6. QED
    BY <1>1, <1>4, <2>5, IInvPartsPrime DEF AssignStarterPack, StoreOK, store
<1>5. CASE Health(r)
  <2>1. LocalsOK'
    BY <1>1, <1>5, CallRedisLocals DEF Health, LocalsOK
  <2>2. QED
    BY <1>1, <1>5, <2>1, IInvPartsPrime DEF Health, StoreOK, store
<1>6. QED
  BY <1>2, <1>3, <1>4, <1>5 DEF Arrive, CreateAsset, AssignAsset

LEMMA ProceedIInv ==
  ASSUME IInv, NEW r \in Request, Proceed(r)
  PROVE  IInv'
<1>1. StoreOK /\ Consistent(breaker) /\ LocalsOK
  BY IInvParts
<1>2. CASE ListFind(r)
  <2>1. view' \in [Request -> SUBSET List]
    BY <1>1, <1>2 DEF ListFind, LocalsOK, StoreOK
  <2>2. LocalsOK'
    BY <1>1, <1>2, <2>1, CallRedisLocals DEF ListFind, LocalsOK
  <2>3. QED
    BY <1>1, <1>2, <2>2, IInvPartsPrime DEF ListFind, StoreOK, store
<1>3. CASE ListFindFails(r)
  BY <1>1, <1>3, ReplyLocals, IInvPartsPrime DEF ListFindFails, StoreOK, store
<1>4. CASE InsertStarterFails(r)
  BY <1>1, <1>4, NextStarterLocals, IInvPartsPrime
     DEF InsertStarterFails, StoreOK, store
<1>5. ASSUME NEW a \in Asset, InsertStarter(r, a)
      PROVE  IInv'
  <2>1. docs' \in List
    BY <1>1, <1>5 DEF InsertStarter, StoreOK, LocalsOK, StarterLoop, List, Doc
  <2>2. LocalsOK'
    BY <1>1, <1>5, NextStarterLocals DEF InsertStarter
  <2>3. QED
    BY <1>1, <1>5, <2>1, <2>2, IInvPartsPrime DEF InsertStarter, StoreOK
<1>6. CASE Execute(r)
  <2>1. LocalsOK'
    BY <1>1, <1>6 DEF Execute, LocalsOK, StarterLoop
  <2>2. Consistent(breaker')
    BY <1>1, <1>6, AdmitConsistent DEF Execute
  <2>3. QED
    BY <1>1, <1>6, <2>1, <2>2, IInvPartsPrime DEF Execute, StoreOK, store
<1>7. CASE ExecuteRejects(r)
  BY <1>1, <1>7, AfterExecuteLocals, IInvPartsPrime
     DEF ExecuteRejects, StoreOK, store
<1>8. CASE RedisAnswers(r)
  <2>1. LocalsOK'
    BY <1>1, <1>8 DEF RedisAnswers, LocalsOK, StoreOK, StarterLoop
  <2>2. cache' \in SUBSET List
    BY <1>1, <1>8 DEF RedisAnswers, Carried, LocalsOK, StoreOK
  <2>3. QED
    BY <1>1, <1>8, <2>1, <2>2, IInvPartsPrime DEF RedisAnswers, StoreOK
<1>9. CASE RedisFails(r)
  <2>1. LocalsOK'
    BY <1>1, <1>9 DEF RedisFails, LocalsOK, StarterLoop
  <2>2. cache' \in SUBSET List
    BY <1>1, <1>9 DEF RedisFails, Carried, LocalsOK, StoreOK
  <2>3. QED
    BY <1>1, <1>9, <2>1, <2>2, IInvPartsPrime DEF RedisFails, StoreOK
<1>10. CASE Report(r)
  <2>1. LocalsOK'
    BY <1>1, <1>10, AfterExecuteLocals DEF Report
  <2>2. Consistent(breaker')
    BY <1>1, <1>10, RecordSuccessConsistent, RecordFailureConsistent DEF Report
  <2>3. QED
    BY <1>1, <1>10, <2>1, <2>2, IInvPartsPrime DEF Report, StoreOK, store
<1>11. QED
  BY <1>2, <1>3, <1>4, <1>5, <1>6, <1>7, <1>8, <1>9, <1>10 DEF Proceed

LEMMA EnvironmentIInv ==
  ASSUME IInv, Environment
  PROVE  IInv'
<1>1. StoreOK /\ Consistent(breaker) /\ LocalsOK
  BY IInvParts
<1>2. ASSUME NEW r \in Request, Cancel(r)
      PROVE  IInv'
  <2>1. LocalsOK'
    BY <1>1, <1>2 DEF Cancel, LocalsOK, StarterLoop
  <2>2. QED
    BY <1>1, <1>2, <2>1, IInvPartsPrime DEF Cancel, StoreOK, store
<1>3. CASE Crash
  <2>1. LocalsOK'
    BY <1>3, PackSizeAssumption DEF Crash, LocalsOK, StarterLoop, NoPack
  <2>2. QED
    BY <1>1, <1>3, <2>1, NewBreakerConsistent, IInvPartsPrime
       DEF Crash, StoreOK, store
<1>4. CASE RedisCrash \/ RedisRestart \/ RedisSave \/ Expire \/ Evict
  <2>1. LocalsOK'
    BY <1>1, <1>4 DEF RedisCrash, RedisRestart, RedisSave, Expire, Evict,
                      locals, LocalsOK, StarterLoop
  <2>2. StoreOK' /\ UNCHANGED breaker
    BY <1>1, <1>4 DEF RedisCrash, RedisRestart, RedisSave, Expire, Evict, StoreOK
  <2>3. QED
    BY <1>1, <2>1, <2>2, IInvPartsPrime
<1>5. CASE Tick
  <2>1. LocalsOK' /\ StoreOK'
    BY <1>1, <1>5 DEF Tick, locals, store, LocalsOK, StoreOK, StarterLoop
  <2>2. QED
    BY <1>1, <1>5, <2>1, ElapseConsistent, IInvPartsPrime DEF Tick
<1>6. QED
  BY <1>2, <1>3, <1>4, <1>5 DEF Environment

LEMMA NextIInv == IInv /\ [Next]_vars => IInv'
<1> SUFFICES ASSUME IInv, [Next]_vars PROVE IInv'
  OBVIOUS
<1>1. CASE UNCHANGED vars
  BY <1>1, IInvParts, IInvPartsPrime DEF vars, StoreOK, LocalsOK, StarterLoop
<1>2. QED
  BY <1>1, ArriveIInv, ProceedIInv, EnvironmentIInv DEF Next

(* The types, the loop over the pack and the breaker hold together.        *)
THEOREM Invariance == Spec => []IInv
  BY InitIInv, NextIInv, PTL DEF Spec

(***************************************************************************)
(* Every reachable state of the service and its stores is well typed, for  *)
(* any requests, workload and faults.                                      *)
(***************************************************************************)
THEOREM TypeCorrect == Spec => []TypeOK
<1>1. IInv => TypeOK
  BY DEF IInv
<1>2. QED
  BY <1>1, Invariance, PTL

-----------------------------------------------------------------------------
\* The lists kept somewhere: what AssetStore calls lists.
Kept == cache \cup dump \cup UNION {view[r] : r \in Request}

(* Where the lists of a step come from.                                    *)
LEMMA KeptFrom ==
  ASSUME NEW S,
         cache' \subseteq Kept \cup S,
         dump' \subseteq Kept \cup S,
         \A r \in Request : view'[r] \subseteq Kept \cup S
  PROVE  Kept' \subseteq Kept \cup S
  BY DEF Kept

LEMMA HeldIsKept == \A r \in Request : view[r] \subseteq Kept
  BY DEF Kept

LEMMA CachedIsKept == cache \subseteq Kept /\ dump \subseteq Kept
  BY DEF Kept

(* Leaving the collection alone and the lists to be old ones is Circulate. *)
LEMMA CirculateStep ==
  ASSUME UNCHANGED docs,
         cache' \subseteq Kept \cup {docs},
         dump' \subseteq Kept \cup {docs},
         \A r \in Request : view'[r] \subseteq Kept \cup {docs}
  PROVE  Store!Next
<1>1. Kept' \subseteq Kept \cup {docs}
  BY KeptFrom
<1>2. Store!Circulate
  BY <1>1 DEF Kept, Store!Circulate
<1>3. QED
  BY <1>2 DEF Store!Next

(* Replying drops a list and takes none.                                   *)
LEMMA AfterExecuteView ==
  ASSUME LocalsOK, NEW r \in Request, NEW e, AfterExecute(r, e)
  PROVE  \A s \in Request : view'[s] \subseteq view[s]
  BY DEF AfterExecute, Reply, FallThrough, LocalsOK

(* A write of one asset, the lists left alone.                             *)
LEMMA WriteStep ==
  ASSUME UNCHANGED <<cache, dump, view>>, NEW a \in Asset,
         \/ docs[a] = "absent" /\ docs' = [docs EXCEPT ![a] = "available"]
         \/ \E u \in User : /\ docs[a] \in {"absent", "available"}
                            /\ docs' = [docs EXCEPT ![a] = u]
  PROVE  Store!Next
<1>1. UNCHANGED Kept
  BY DEF Kept
<1>2. Store!Register(a) \/ \E u \in User : Store!Give(a, u)
  BY <1>1 DEF Kept, Store!Register, Store!Give
<1>3. QED
  BY <1>2 DEF Store!Next

LEMMA ArriveMaps ==
  ASSUME IInv, NEW r \in Request, Arrive(r)
  PROVE  [Store!Next]_Store!vars
<1>1. CASE ListAssets(r) \/ Health(r) \/ \E u \in User : AssignStarterPack(r, u)
  <2>1. UNCHANGED <<docs, cache, dump, view>>
    BY <1>1 DEF ListAssets, Health, AssignStarterPack, store
  <2>2. QED
    BY <2>1 DEF Store!vars
<1>2. ASSUME NEW a \in Asset, CreateAsset(r, a)
      PROVE  Store!Next
  BY <1>2, WriteStep DEF CreateAsset, WriteThenInvalidate
<1>3. ASSUME NEW a \in Asset, NEW u \in User, AssignAsset(r, u, a)
      PROVE  Store!Next
  BY <1>3, WriteStep DEF AssignAsset, WriteThenInvalidate
<1>4. QED
  BY <1>1, <1>2, <1>3 DEF Arrive

LEMMA ProceedMaps ==
  ASSUME IInv, NEW r \in Request, Proceed(r)
  PROVE  [Store!Next]_Store!vars
<1>1. StoreOK /\ LocalsOK
  BY IInvParts
<1>2. CASE ListFind(r)
  <2>1. UNCHANGED <<docs, cache, dump>>
    BY <1>2 DEF ListFind, store
  <2>2. \A s \in Request : view'[s] \subseteq Kept \cup {docs}
    BY <1>1, <1>2, HeldIsKept DEF ListFind, LocalsOK
  <2>3. QED
    BY <2>1, <2>2, CachedIsKept, CirculateStep
<1>3. CASE ListFindFails(r)
  <2>1. UNCHANGED <<docs, cache, dump>>
    BY <1>3 DEF ListFindFails, store
  <2>2. \A s \in Request : view'[s] \subseteq view[s]
    BY <1>1, <1>3 DEF ListFindFails, Reply, LocalsOK
  <2>3. QED
    BY <2>1, <2>2, HeldIsKept, CachedIsKept, CirculateStep
<1>4. CASE InsertStarterFails(r) \/ Execute(r)
  <2>1. UNCHANGED <<docs, cache, dump, view>>
    BY <1>4 DEF InsertStarterFails, Execute, store
  <2>2. QED
    BY <2>1 DEF Store!vars
<1>5. ASSUME NEW a \in Asset, InsertStarter(r, a)
      PROVE  Store!Next
  <2>1. pack[r].user \in User
    BY <1>1, <1>5 DEF InsertStarter, LocalsOK, StarterLoop
  <2>2. QED
    BY <1>5, <2>1, WriteStep DEF InsertStarter
<1>6. CASE ExecuteRejects(r) \/ Report(r)
  <2>1. UNCHANGED <<docs, cache, dump>>
    BY <1>6 DEF ExecuteRejects, Report, store
  <2>2. \A s \in Request : view'[s] \subseteq view[s]
    BY <1>1, <1>6, AfterExecuteView DEF ExecuteRejects, Report
  <2>3. QED
    BY <2>1, <2>2, HeldIsKept, CachedIsKept, CirculateStep
<1>7. CASE RedisAnswers(r)
  <2>1. UNCHANGED <<docs, dump>> /\ cache' \subseteq Kept
    BY <1>7, HeldIsKept, CachedIsKept DEF RedisAnswers, Carried
  <2>2. \A s \in Request : view'[s] \subseteq Kept
    BY <1>1, <1>7, HeldIsKept, CachedIsKept DEF RedisAnswers, LocalsOK
  <2>3. QED
    BY <2>1, <2>2, CachedIsKept, CirculateStep
<1>8. CASE RedisFails(r)
  <2>1. UNCHANGED <<docs, dump, view>> /\ cache' \subseteq Kept
    BY <1>8, HeldIsKept, CachedIsKept DEF RedisFails, Carried
  <2>2. QED
    BY <2>1, HeldIsKept, CachedIsKept, CirculateStep
<1>9. QED
  BY <1>2, <1>3, <1>4, <1>5, <1>6, <1>7, <1>8 DEF Proceed

LEMMA EnvironmentMaps ==
  ASSUME IInv, Environment
  PROVE  [Store!Next]_Store!vars
<1>1. CASE Crash
  <2>1. UNCHANGED <<docs, cache, dump>> /\ \A r \in Request : view'[r] = {}
    BY <1>1 DEF Crash, store
  <2>2. QED
    BY <2>1, CachedIsKept, CirculateStep
<1>2. CASE RedisCrash \/ RedisRestart \/ RedisSave \/ Expire \/ Evict
  <2>1. /\ UNCHANGED <<docs, view>>
        /\ cache' \in {{}, cache, dump}
        /\ dump' \in {{}, cache, dump}
    BY <1>2 DEF RedisCrash, RedisRestart, RedisSave, Expire, Evict, locals
  <2>2. QED
    BY <2>1, HeldIsKept, CachedIsKept, CirculateStep
<1>3. CASE Tick \/ \E r \in Request : Cancel(r)
  <2>1. UNCHANGED <<docs, cache, dump, view>>
    BY <1>3 DEF Tick, Cancel, store, locals
  <2>2. QED
    BY <2>1 DEF Store!vars
<1>4. QED
  BY <1>1, <1>2, <1>3 DEF Environment

LEMMA NextMaps == IInv /\ [Next]_vars => [Store!Next]_Store!vars
<1> SUFFICES ASSUME IInv, [Next]_vars PROVE [Store!Next]_Store!vars
  OBVIOUS
<1>1. CASE UNCHANGED vars
  BY <1>1 DEF vars, Store!vars
<1>2. QED
  BY <1>1, ArriveMaps, ProceedMaps, EnvironmentMaps DEF Next

LEMMA InitMaps == Init => Store!Init
  BY DEF Init, Store!Init

(***************************************************************************)
(* The service with its cache, breaker and faults implements AssetStore:   *)
(* assets are registered once and assigned once, and only lists that were  *)
(* the truth once are kept, cached or sent.                                *)
(***************************************************************************)
THEOREM StoreImplemented == Spec => ImplementsStore
  BY InitMaps, NextMaps, Invariance, PTL DEF Spec, ImplementsStore, Store!Spec

-----------------------------------------------------------------------------
(* AssetStore never outruns a list: what could have become the collection  *)
(* still could after any of its steps.                                     *)
LEMMA StoreStepPrecedes ==
  ASSUME docs \in List, docs' \in List, Kept \subseteq List,
         NoPhantoms, [Store!Next]_Store!vars
  PROVE  NoPhantoms'
<1>1. /\ Kept' \subseteq Kept \cup {docs}
      /\ \A a \in Asset : \/ docs'[a] = docs[a]
                          \/ docs[a] = "absent"
                          \/ docs[a] = "available" /\ docs'[a] \in User
  <2>1. CASE Store!Next
    BY <2>1 DEF Kept, List, Store!Next, Store!Register, Store!Give, Store!Circulate
  <2>2. CASE UNCHANGED Store!vars
    BY <2>2 DEF Kept, Store!vars
  <2>3. QED
    BY <2>1, <2>2
<1>2. ASSUME NEW l \in Kept', NEW a \in Asset
      PROVE  \/ l[a] = docs'[a]
             \/ l[a] = "absent"
             \/ l[a] = "available" /\ docs'[a] \in User
  <2>1. \/ l[a] = docs[a]
        \/ l[a] = "absent"
        \/ l[a] = "available" /\ docs[a] \in User
    BY <1>1 DEF NoPhantoms, Store!NoPhantoms, Store!Precedes, Kept
  <2>2. QED
    BY <1>1, <2>1, UserAssumption
<1>3. QED
  BY <1>2 DEF NoPhantoms, Store!NoPhantoms, Store!Precedes, Kept

(***************************************************************************)
(* No list, wherever it is kept, shows an asset, a free asset or an owner  *)
(* that never was.                                                         *)
(***************************************************************************)
THEOREM PhantomFree == Spec => []NoPhantoms
<1>1. Init => NoPhantoms
  BY DEF Init, NoPhantoms, Store!NoPhantoms
<1>2. ASSUME IInv, IInv', NoPhantoms, [Next]_vars PROVE NoPhantoms'
  <2>1. docs \in List /\ docs' \in List /\ Kept \subseteq List
    BY <1>2 DEF IInv, TypeOK, Kept
  <2>2. QED
    BY <1>2, <2>1, NextMaps, StoreStepPrecedes
<1>3. QED
  BY <1>1, <1>2, Invariance, PTL DEF Spec

-----------------------------------------------------------------------------
(* What a step must do if it leaves or makes the cached list stale.        *)
Accounted ==
  Stale' => \/ \E r \in Request : Owes(r)'
            \/ Stale /\ ~ \E r \in Request : Owes(r)
            \/ Skipped \/ Overtaken \/ Restored \/ Unanswered

LEMMA AccountedStale ==
  ASSUME StaleHasCause, BlameNext, Accounted
  PROVE  StaleHasCause'
<1> SUFFICES ASSUME Stale', ~ \E r \in Request : Owes(r)'
             PROVE  blame' # {}
  BY DEF StaleHasCause
<1>1. blame' = blame \cup {cause \in Causes : Explains(cause)}
  BY DEF BlameNext, Stale
<1>2. CASE Stale /\ ~ \E r \in Request : Owes(r)
  BY <1>1, <1>2 DEF StaleHasCause
<1>3. CASE Skipped \/ Overtaken \/ Restored \/ Unanswered
  <2>1. PICK cause \in Causes : Explains(cause)
    BY <1>3 DEF Explains, Causes
  <2>2. QED
    BY <1>1, <2>1
<1>4. QED
  BY <1>2, <1>3 DEF Accounted

(* Steps of a goroutine that owes nothing, and that make nothing stale.    *)
LEMMA HarmlessAccounted ==
  ASSUME NEW r \in Request, ~ Owes(r), Stale' => Stale,
         \A q \in Request \ {r} : pc'[q] = pc[q] /\ cmd'[q] = cmd[q]
  PROVE  Accounted
  BY DEF Accounted, Owes

(* What the shared ends of the handlers leave alone.                       *)
LEMMA OthersKept ==
  ASSUME LocalsOK, NEW r \in Request,
         \/ Reply(r) \/ FallThrough(r)
         \/ \E c \in {"get", "set", "del", "ping"} : CallRedis(r, c)
         \/ UNCHANGED <<pc, cmd>>
  PROVE  \A q \in Request \ {r} : pc'[q] = pc[q] /\ cmd'[q] = cmd[q]
  BY DEF Reply, FallThrough, CallRedis, LocalsOK

LEMMA ArriveBlame ==
  ASSUME IInv, NEW r \in Request, Arrive(r)
  PROVE  Accounted
<1>1. LocalsOK
  BY IInvParts
<1>2. CASE ListAssets(r) \/ Health(r)
  <2>1. docs' = docs /\ cache' = cache /\ ~ Owes(r)
    BY <1>2 DEF ListAssets, Health, store, Serves, Owes
  <2>2. \E c \in {"get", "set", "del", "ping"} : CallRedis(r, c)
    BY <1>2 DEF ListAssets, Health
  <2>3. QED
    BY <1>1, <2>1, <2>2, OthersKept, HarmlessAccounted DEF Stale
<1>3. ASSUME NEW u \in User, AssignStarterPack(r, u) PROVE Accounted
  <2>1. docs' = docs /\ cache' = cache /\ ~ Owes(r)
    BY <1>3 DEF AssignStarterPack, store, Serves, Owes
  <2>2. \A q \in Request \ {r} : pc'[q] = pc[q] /\ cmd'[q] = cmd[q]
    BY <1>1, <1>3 DEF AssignStarterPack, LocalsOK
  <2>3. QED
    BY <2>1, <2>2, HarmlessAccounted DEF Stale
<1>4. ASSUME NEW a \in Asset, NEW doc \in Doc, WriteThenInvalidate(r, a, doc)
      PROVE  Accounted
  <2>1. CASE CallRedis(r, "del")
    <3>1. pc'[r] = "gate" /\ cmd'[r] = "del"
      BY <1>1, <2>1 DEF CallRedis, LocalsOK
    <3>2. QED
      BY <3>1 DEF Accounted, Owes
  <2>2. CASE UNCHANGED <<pc, cmd, out>>
    <3>1. \A q \in Request : Owes(q) => Owes(q)'
      BY <2>2 DEF Owes
    <3>2. cache' = cache
      BY <1>4 DEF WriteThenInvalidate
    <3>3. CASE docs' # docs /\ \A q \in Request : pc[q] # "pack"
      BY <2>2, <3>3 DEF Accounted, Unanswered
    <3>4. CASE docs' = docs
      BY <3>1, <3>2, <3>4 DEF Accounted, Stale
    <3>5. CASE \E q \in Request : pc[q] = "pack"
      BY <3>1, <3>5 DEF Accounted, Owes
    <3>6. QED
      BY <3>3, <3>4, <3>5
  <2>3. QED
    BY <1>4, <2>1, <2>2 DEF WriteThenInvalidate
<1>5. ASSUME NEW a \in Asset, CreateAsset(r, a) PROVE Accounted
  BY <1>4, <1>5 DEF CreateAsset, Doc
<1>6. ASSUME NEW a \in Asset, NEW u \in User, AssignAsset(r, u, a) PROVE Accounted
  BY <1>4, <1>6 DEF AssignAsset, Doc
<1>7. QED
  BY <1>2, <1>3, <1>5, <1>6 DEF Arrive

(* While the starter pack is inserted, and after it, the DEL is owed.      *)
LEMMA StarterBlame ==
  ASSUME IInv, NEW r \in Request, pc[r] = "pack", NextStarter(r)
  PROVE  Accounted
<1>1. Owes(r)'
  <2>1. LocalsOK
    BY IInvParts
  <2>2. CASE CallRedis(r, "del")
    BY <2>1, <2>2 DEF CallRedis, LocalsOK, Owes
  <2>3. CASE UNCHANGED <<pc, cmd, out>>
    BY <2>3 DEF Owes
  <2>4. QED
    BY <2>2, <2>3 DEF NextStarter
<1>2. QED
  BY <1>1 DEF Accounted

(* The cache is what it was, unless the DEL or the SET is carried out.     *)
LEMMA CommandBlame ==
  ASSUME IInv, NEW r \in Request, RedisAnswers(r) \/ RedisFails(r)
  PROVE  Accounted
<1>1. /\ LocalsOK /\ pc[r] = "redis" /\ docs' = docs /\ cmd' = cmd
      /\ cache' \in {cache, Carried(r)} /\ (RedisAnswers(r) => cache' = Carried(r))
      /\ pc' = [pc EXCEPT ![r] = "report"]
  BY IInvParts DEF RedisAnswers, RedisFails
<1>2. \A q \in Request \ {r} : pc'[q] = pc[q] /\ cmd'[q] = cmd[q]
  BY <1>1 DEF LocalsOK
<1>3. SUFFICES ASSUME Stale' PROVE Accounted
  BY DEF Accounted
<1>4. CASE cmd[r] = "del"
  <2>1. Carried(r) = {} /\ cache' # {}
    BY <1>3, <1>4 DEF Carried, Stale
  <2>2. RedisFails(r) /\ Owes(r)
    BY <1>1, <1>4, <2>1 DEF Owes
  <2>3. Skipped
    <3> USE DEF Skipped
    <3> WITNESS r \in Request
    <3>1. QED
      BY <2>1, <2>2
  <2>4. QED
    BY <2>3 DEF Accounted
<1>5. CASE cmd[r] = "set"
  <2>1. Carried(r) = view[r] /\ ~ Owes(r)
    BY <1>1, <1>5 DEF Carried, Owes
  <2>2. CASE cache' = view[r] /\ view[r] # {docs}
    <3>1. Overtaken
      <4> USE DEF Overtaken
      <4> WITNESS r \in Request
      <4>1. QED
        BY <1>5, <2>2
    <3>2. QED
      BY <3>1 DEF Accounted
  <2>3. CASE cache' = view[r] /\ view[r] = {docs}
    BY <1>1, <1>3, <2>3 DEF Stale
  <2>4. CASE cache' = cache
    BY <1>1, <1>2, <2>1, <2>4, HarmlessAccounted DEF Stale
  <2>5. QED
    BY <1>1, <2>1, <2>2, <2>3, <2>4
<1>6. CASE cmd[r] \notin {"set", "del"}
  <2>1. Carried(r) = cache /\ ~ Owes(r)
    BY <1>1, <1>6 DEF Carried, Owes
  <2>2. QED
    BY <1>1, <1>2, <2>1, HarmlessAccounted DEF Stale
<1>7. QED
  BY <1>4, <1>5, <1>6

LEMMA ProceedBlame ==
  ASSUME IInv, NEW r \in Request, Proceed(r)
  PROVE  Accounted
<1>1. LocalsOK
  BY IInvParts
<1>2. CASE ListFind(r) \/ ListFindFails(r) \/ Report(r)
  <2>1. docs' = docs /\ cache' = cache /\ ~ Owes(r)
    BY <1>2 DEF ListFind, ListFindFails, Report, store, Owes
  <2>2. \/ Reply(r) \/ FallThrough(r)
        \/ \E c \in {"get", "set", "del", "ping"} : CallRedis(r, c)
    BY <1>2 DEF ListFind, ListFindFails, Report, AfterExecute
  <2>3. QED
    BY <1>1, <2>1, <2>2, OthersKept, HarmlessAccounted DEF Stale
<1>3. CASE InsertStarterFails(r) \/ \E a \in Asset : InsertStarter(r, a)
  BY <1>3, StarterBlame DEF InsertStarterFails, InsertStarter
<1>4. CASE Execute(r)
  <2>1. docs' = docs /\ cache' = cache
    BY <1>4 DEF Execute, store
  <2>2. \A q \in Request : Owes(q) => Owes(q)'
    BY <1>1, <1>4 DEF Execute, Owes, LocalsOK
  <2>3. QED
    BY <2>1, <2>2 DEF Accounted, Stale
<1>5. CASE ExecuteRejects(r)
  <2>1. docs' = docs /\ cache' = cache /\ (Reply(r) \/ FallThrough(r))
    BY <1>5 DEF ExecuteRejects, store, AfterExecute
  <2>2. CASE Owes(r)
    <3>1. Skipped
      <4> USE DEF Skipped
      <4> WITNESS r \in Request
      <4>1. QED
        BY <1>5, <2>2
    <3>2. QED
      BY <3>1 DEF Accounted
  <2>3. CASE ~ Owes(r)
    BY <1>1, <2>1, <2>3, OthersKept, HarmlessAccounted DEF Stale
  <2>4. QED
    BY <2>2, <2>3
<1>6. QED
  BY <1>2, <1>3, <1>4, <1>5, CommandBlame DEF Proceed

LEMMA EnvironmentBlame ==
  ASSUME IInv, Environment
  PROVE  Accounted
<1>1. CASE Crash
  BY <1>1 DEF Crash, store, Accounted, Stale, Skipped
<1>2. CASE RedisRestart
  BY <1>2 DEF RedisRestart, Accounted, Stale, Restored
<1>3. CASE \/ \E r \in Request : Cancel(r)
           \/ RedisCrash \/ RedisSave \/ Expire \/ Evict \/ Tick
  <2>1. docs' = docs /\ cache' \in {cache, {}} /\ UNCHANGED <<pc, cmd>>
    BY <1>3 DEF Cancel, RedisCrash, RedisSave, Expire, Evict, Tick, store, locals
  <2>2. QED
    BY <2>1 DEF Accounted, Stale, Owes
<1>4. QED
  BY <1>1, <1>2, <1>3 DEF Environment

LEMMA NextBlame ==
  IInv /\ StaleHasCause /\ [BlameNext]_blameVars => StaleHasCause'
<1> SUFFICES ASSUME IInv, StaleHasCause, [BlameNext]_blameVars PROVE StaleHasCause'
  OBVIOUS
<1>1. CASE BlameNext
  <2>1. Accounted
    BY <1>1, ArriveBlame, ProceedBlame, EnvironmentBlame DEF BlameNext, Next
  <2>2. QED
    BY <1>1, <2>1, AccountedStale
<1>2. CASE UNCHANGED blameVars
  BY <1>2 DEF blameVars, vars, StaleHasCause, Stale, Owes
<1>3. QED
  BY <1>1, <1>2

(***************************************************************************)
(* For any goroutines, workloads and faults, a cached list is out of date  *)
(* only while an invalidation is owed or after one of the four causes.     *)
(***************************************************************************)
THEOREM StaleHasCauseCorrect == BlameSpec => []StaleHasCause
<1>1. BlameInit => Init /\ StaleHasCause
  BY DEF BlameInit, Init, StaleHasCause, Stale
<1>2. [BlameNext]_blameVars => [Next]_vars
  BY DEF BlameNext, blameVars
<1>3. QED
  BY <1>1, <1>2, InitIInv, NextIInv, NextBlame, PTL DEF BlameSpec
-----------------------------------------------------------------------------
(***************************************************************************)
(* Misses alone.  Without faults and below the threshold, the only         *)
(* outcomes the breaker counts as failures are those of GETs that missed,  *)
(* and whoever missed still has its SET to come: failures never exceed the *)
(* number of such requests, hence never reach MaxFailures, hence the       *)
(* breaker refuses nothing.                                                *)
(***************************************************************************)
FewAndFaultless ==
  /\ Faults = {}
  /\ IsFiniteSet(Request)
  /\ Cardinality(Request) < MaxFailures

Misses == {r \in Request : AfterMiss(r)}

\* Where a goroutine may be when nothing goes wrong.
CalmAt(r) ==
  /\ live[r]
  /\ pc[r] = "report" /\ out[r] = "err" => cmd[r] = "get"
  /\ pc[r] \in {"idle", "pack"} => cmd[r] # "set"

Calm == redisUp /\ \A r \in Request : CalmAt(r)

MissInv == IInv /\ Calm /\ FailuresAreMisses

(* The threshold is out of reach, so Execute lets every call through.      *)
LEMMA MissesAdmitted ==
  ASSUME FewAndFaultless, IInv, FailuresAreMisses
  PROVE  Admits(breaker)
<1>1. IsFiniteSet(Request) /\ Cardinality(Misses) <= Cardinality(Request)
  BY FS_Subset DEF FewAndFaultless, Misses
<1>2. Cardinality(Misses) \in Nat /\ Cardinality(Request) \in Nat
  BY <1>1, FS_Subset, FS_CardinalityType DEF Misses
<1>3. breaker.failures <= Cardinality(Misses)
  BY DEF FailuresAreMisses, Misses
<1>4. breaker.failures \in Nat /\ Consistent(breaker)
  BY IInvParts, FailureCapAssumption DEF Consistent, BreakerType
<1>5. breaker.failures < MaxFailures
  BY <1>1, <1>2, <1>3, <1>4, MaxFailuresAssumption DEF FewAndFaultless
<1>6. QED
  BY <1>4, <1>5, AdmitsIsModeless

(* A step that leaves the failures alone and loses no miss is harmless.    *)
LEMMA MissesKept ==
  ASSUME FewAndFaultless, IInv, IInv', FailuresAreMisses,
         breaker'.failures = breaker.failures, Misses \subseteq Misses'
  PROVE  FailuresAreMisses'
<1>1. Misses' \subseteq Request
  BY DEF Misses
<1>2. IsFiniteSet(Misses') /\ Cardinality(Misses) <= Cardinality(Misses')
  BY <1>1, FS_Subset DEF FewAndFaultless
<1>3. Cardinality(Misses) \in Nat /\ Cardinality(Misses') \in Nat
  BY <1>2, FS_Subset, FS_CardinalityType
<1>4. breaker.failures \in Nat
  BY IInvParts, FailureCapAssumption DEF Consistent, BreakerType
<1>5. QED
  BY <1>2, <1>3, <1>4 DEF FailuresAreMisses, Misses

(* A miss is reported: one failure more, and one more SET to come.         *)
LEMMA MissCounted ==
  ASSUME FewAndFaultless, IInv, FailuresAreMisses, NEW r \in Request,
         r \notin Misses, Misses \cup {r} \subseteq Misses',
         breaker' = RecordFailure(breaker)
  PROVE  FailuresAreMisses'
<1>1. /\ IsFiniteSet(Misses) /\ Misses' \subseteq Request
      /\ IsFiniteSet(Misses')
  BY FS_Subset DEF FewAndFaultless, Misses
<1>2. Cardinality(Misses \cup {r}) = Cardinality(Misses) + 1
  BY <1>1, FS_AddElement
<1>3. Cardinality(Misses \cup {r}) <= Cardinality(Misses')
  BY <1>1, FS_Subset
<1>4. Cardinality(Misses) \in Nat /\ Cardinality(Misses') \in Nat
  BY <1>1, FS_CardinalityType
<1>5. breaker.failures \in Nat /\ Consistent(breaker)
  BY IInvParts, FailureCapAssumption DEF Consistent, BreakerType
<1>6. breaker'.failures <= breaker.failures + 1
  BY <1>5, RecordFailureConsistent, FailureCapAssumption DEF CountFailure
<1>7. breaker'.failures \in Nat
  BY <1>5, RecordFailureConsistent, FailureCapAssumption
     DEF Consistent, BreakerType
<1>8. QED
  BY <1>2, <1>3, <1>4, <1>5, <1>6, <1>7 DEF FailuresAreMisses, Misses

\* Nothing happens to the other goroutines.
OthersLeft(r) ==
  \A q \in Request \ {r} : /\ pc'[q] = pc[q] /\ cmd'[q] = cmd[q]
                           /\ live'[q] = live[q] /\ out'[q] = out[q]

LEMMA CalmStep ==
  ASSUME FewAndFaultless, MissInv, IInv', redisUp', NEW r \in Request,
         OthersLeft(r), CalmAt(r)', breaker'.failures = breaker.failures,
         AfterMiss(r) => AfterMiss(r)'
  PROVE  MissInv'
<1>1. \A q \in Request : CalmAt(q)' /\ (AfterMiss(q) => AfterMiss(q)')
  BY DEF MissInv, Calm, CalmAt, OthersLeft, AfterMiss
<1>2. Misses \subseteq Misses'
  BY <1>1 DEF Misses
<1>3. FailuresAreMisses'
  BY <1>2, MissesKept DEF MissInv
<1>4. QED
  BY <1>1, <1>3 DEF MissInv, Calm

(* What the shared ends of the handlers leave behind.                      *)
LEMMA CallRedisCalm ==
  ASSUME LocalsOK, NEW r \in Request, NEW c, CallRedis(r, c), live' = live,
         live[r]
  PROVE  /\ OthersLeft(r) /\ CalmAt(r)'
         /\ pc'[r] = "gate" /\ cmd'[r] = c
  BY DEF LocalsOK, CallRedis, OthersLeft, CalmAt

LEMMA AfterExecuteCalm ==
  ASSUME LocalsOK, NEW r \in Request, NEW e, AfterExecute(r, e), live[r]
  PROVE  /\ OthersLeft(r) /\ CalmAt(r)'
         /\ cmd[r] = "get" /\ e # "ok" => AfterMiss(r)'
  BY DEF LocalsOK, AfterExecute, FallThrough, Reply, OthersLeft, CalmAt, AfterMiss

LEMMA ArriveCalm ==
  ASSUME FewAndFaultless, MissInv, IInv', NEW r \in Request, Arrive(r)
  PROVE  MissInv'
<1>1. LocalsOK /\ redisUp /\ CalmAt(r)
  BY IInvParts DEF MissInv, Calm
<1>2. /\ pc[r] = "idle" /\ redisUp' = redisUp /\ breaker' = breaker
      /\ live' = live
    BY DEF Arrive, ListAssets, CreateAsset, AssignAsset, AssignStarterPack,
           Health, Serves, WriteThenInvalidate, store, FewAndFaultless
<1>3. ~ AfterMiss(r)
  BY <1>1, <1>2 DEF CalmAt, AfterMiss
<1>4. CASE \E c : CallRedis(r, c)
  BY <1>1, <1>2, <1>3, <1>4, CallRedisCalm, CalmStep DEF CalmAt
<1>5. CASE \E u \in User : AssignStarterPack(r, u)
  <2>1. OthersLeft(r) /\ CalmAt(r)'
    BY <1>1, <1>2, <1>5 DEF AssignStarterPack, LocalsOK, OthersLeft, CalmAt
  <2>2. QED
    BY <1>1, <1>2, <1>3, <2>1, CalmStep
<1>6. QED
  BY <1>4, <1>5 DEF Arrive, ListAssets, CreateAsset, AssignAsset, Health,
                    WriteThenInvalidate, FewAndFaultless

(* What goes wrong only with faults or with an open breaker.               *)
LEMMA CalmExcludes ==
  ASSUME FewAndFaultless, MissInv, NEW r \in Request
  PROVE  /\ ~ ListFindFails(r) /\ ~ ExecuteRejects(r) /\ ~ RedisFails(r)
         /\ ~ Cancel(r) /\ ~ Crash
         /\ ~ RedisCrash /\ ~ RedisSave /\ ~ RedisRestart
<1>1. redisUp /\ live[r] /\ Faults = {}
  BY DEF MissInv, Calm, CalmAt, FewAndFaultless
<1>2. Admits(breaker)
  BY MissesAdmitted DEF MissInv
<1>3. QED
  BY <1>1, <1>2 DEF ListFindFails, ExecuteRejects, RedisFails, Cancel, Crash,
                    RedisCrash, RedisSave, RedisRestart

LEMMA ReportCalm ==
  ASSUME FewAndFaultless, MissInv, IInv', NEW r \in Request, Report(r)
  PROVE  MissInv'
<1>1. LocalsOK /\ redisUp /\ CalmAt(r) /\ Consistent(breaker)
  BY IInvParts DEF MissInv, Calm
<1>2. pc[r] = "report" /\ AfterExecute(r, out[r]) /\ redisUp'
  BY <1>1 DEF Report, store
<1>3. OthersLeft(r) /\ CalmAt(r)'
  BY <1>1, <1>2, AfterExecuteCalm DEF CalmAt
<1>4. Calm'
  BY <1>2, <1>3 DEF MissInv, Calm, CalmAt, OthersLeft
<1>5. CASE out[r] = "ok"
  <2>1. breaker'.failures = 0
    BY <1>1, <1>5, RecordSuccessConsistent DEF Report
  <2>2. IsFiniteSet(Misses') /\ Misses' \subseteq Request
    BY FS_Subset DEF FewAndFaultless, Misses
  <2>3. Cardinality(Misses') \in Nat
    BY <2>2, FS_CardinalityType
  <2>4. QED
    BY <1>4, <2>1, <2>3 DEF MissInv, FailuresAreMisses, Misses
<1>6. CASE out[r] # "ok"
  <2>1. out[r] = "err" /\ cmd[r] = "get"
    BY <1>1, <1>2, <1>6 DEF LocalsOK, CalmAt
  <2>2. r \notin Misses
    BY <1>2, <2>1 DEF Misses, AfterMiss
  <2>3. AfterMiss(r)'
    BY <1>1, <1>2, <1>6, <2>1, AfterExecuteCalm DEF CalmAt
  <2>4. Misses \cup {r} \subseteq Misses'
    BY <1>3, <2>3 DEF Misses, AfterMiss, OthersLeft
  <2>5. breaker' = RecordFailure(breaker)
    BY <1>6 DEF Report
  <2>6. QED
    BY <1>4, <2>2, <2>4, <2>5, MissCounted DEF MissInv
<1>7. QED
  BY <1>5, <1>6

LEMMA ProceedCalm ==
  ASSUME FewAndFaultless, MissInv, IInv', NEW r \in Request, Proceed(r)
  PROVE  MissInv'
<1>1. LocalsOK /\ redisUp /\ CalmAt(r) /\ Consistent(breaker)
  BY IInvParts DEF MissInv, Calm
<1>2. CASE ListFind(r)
  <2>1. /\ CallRedis(r, "set") /\ live' = live /\ live[r]
        /\ breaker' = breaker /\ redisUp'
    BY <1>1, <1>2 DEF ListFind, store
  <2>2. QED
    BY <1>1, <2>1, CallRedisCalm, CalmStep DEF AfterMiss
<1>3. CASE pc[r] = "pack" /\ NextStarter(r) /\ UNCHANGED <<redisUp, breaker, live>>
  <2>1. ~ AfterMiss(r)
    BY <1>1, <1>3 DEF AfterMiss, CalmAt
  <2>2. CASE CallRedis(r, "del")
    BY <1>1, <1>3, <2>1, <2>2, CallRedisCalm, CalmStep DEF CalmAt
  <2>3. CASE UNCHANGED <<pc, cmd, out>>
    BY <1>1, <1>3, <2>1, <2>3, CalmStep DEF CalmAt, OthersLeft
  <2>4. QED
    BY <1>3, <2>2, <2>3 DEF NextStarter
<1>4. CASE Execute(r)
  <2>1. breaker'.failures = breaker.failures /\ redisUp'
    BY <1>1, <1>4, AdmitConsistent DEF Execute, store
  <2>2. OthersLeft(r) /\ CalmAt(r)' /\ (AfterMiss(r) => AfterMiss(r)')
    BY <1>1, <1>4 DEF Execute, LocalsOK, OthersLeft, CalmAt, AfterMiss
  <2>3. QED
    BY <2>1, <2>2, CalmStep
<1>5. CASE RedisAnswers(r)
  <2>1. breaker' = breaker /\ redisUp'
    BY <1>1, <1>5 DEF RedisAnswers
  <2>2. OthersLeft(r) /\ CalmAt(r)' /\ (AfterMiss(r) => AfterMiss(r)')
    BY <1>1, <1>5 DEF RedisAnswers, LocalsOK, OthersLeft, CalmAt, AfterMiss
  <2>3. QED
    BY <2>1, <2>2, CalmStep
<1>6. InsertStarterFails(r) \/ (\E a \in Asset : InsertStarter(r, a))
        => pc[r] = "pack" /\ NextStarter(r) /\ UNCHANGED <<redisUp, breaker, live>>
  BY DEF InsertStarterFails, InsertStarter, store
<1>7. QED
  BY <1>2, <1>3, <1>4, <1>5, <1>6, ReportCalm, CalmExcludes DEF Proceed

LEMMA InitCalm == FewAndFaultless /\ Init => MissInv
<1> SUFFICES ASSUME FewAndFaultless, Init PROVE MissInv
  OBVIOUS
<1>1. IInv /\ Calm
  BY InitIInv DEF Init, Calm, CalmAt
<1>2. IsFiniteSet(Misses)
  BY FS_Subset DEF FewAndFaultless, Misses
<1>3. Cardinality(Misses) \in Nat /\ breaker.failures = 0
  BY <1>2, FS_CardinalityType DEF Init, NewBreaker
<1>4. QED
  BY <1>1, <1>3 DEF MissInv, FailuresAreMisses, Misses

LEMMA NextCalm == FewAndFaultless /\ MissInv /\ IInv' /\ [Next]_vars => MissInv'
<1> SUFFICES ASSUME FewAndFaultless, MissInv, IInv', [Next]_vars PROVE MissInv'
  OBVIOUS
<1>1. CASE Expire \/ Evict \/ Tick \/ UNCHANGED vars
  <2>1. UNCHANGED <<redisUp, pc, cmd, out, live>>
    BY <1>1 DEF Expire, Evict, Tick, store, locals, vars
  <2>2. breaker'.failures = breaker.failures
    BY <1>1, ElapseConsistent, IInvParts
       DEF MissInv, Expire, Evict, Tick, vars
  <2>3. Calm' /\ Misses' = Misses
    BY <2>1 DEF MissInv, Calm, CalmAt, Misses, AfterMiss
  <2>4. QED
    BY <2>2, <2>3, MissesKept DEF MissInv
<1>2. CASE Environment
  <2>1. ~ Crash /\ ~ RedisCrash /\ ~ RedisSave /\ ~ RedisRestart
    BY DEF Crash, RedisCrash, RedisSave, RedisRestart, MissInv, Calm, FewAndFaultless
  <2>2. QED
    BY <1>1, <1>2, <2>1, CalmExcludes DEF Environment
<1>3. QED
  BY <1>1, <1>2, ArriveCalm, ProceedCalm DEF Next

(***************************************************************************)
(* For any number of requests below the threshold and without faults, the  *)
(* breaker counts no more failures than there are requests between their   *)
(* miss and their SET (handler/inventory.go:35), so it never trips.        *)
(***************************************************************************)
THEOREM FailuresAreMissesCorrect ==
  ASSUME FewAndFaultless
  PROVE  Spec => []FailuresAreMisses
<1>1. Init => MissInv
  BY InitCalm
<1>2. MissInv /\ [Next]_vars => MissInv'
  BY NextCalm, NextIInv DEF MissInv
<1>3. MissInv => FailuresAreMisses
  BY DEF MissInv
<1>4. QED
  BY <1>1, <1>2, <1>3, PTL DEF Spec

(***************************************************************************)
(* Under the same conditions no invalidation is refused or lost: a cached  *)
(* list stays out of date only if a write overtook its fill.               *)
(***************************************************************************)
THEOREM OnlyOvertakenCorrect ==
  ASSUME FewAndFaultless
  PROVE  BlameSpec => []OnlyOvertaken
<1>1. MissInv /\ [Next]_vars => MissInv'
  BY NextCalm, NextIInv DEF MissInv
<1>2. ASSUME MissInv, OnlyOvertaken, [BlameNext]_blameVars PROVE OnlyOvertaken'
  <2>1. ~ Skipped /\ ~ Restored
    BY <1>2, CalmExcludes DEF Skipped, Restored, MissInv, Calm, RedisRestart,
                              Crash, FewAndFaultless
  <2>2. ASSUME BlameNext PROVE ~ Unanswered
    <3> SUFFICES ASSUME docs' # docs, \A r \in Request : pc'[r] = pc[r] /\ pc[r] # "pack"
                 PROVE  FALSE
      BY DEF Unanswered
    <3>1. LocalsOK
      BY <1>2, IInvParts DEF MissInv
    <3>2. PICK r \in Request : Arrive(r) \/ Proceed(r)
      BY <2>2 DEF BlameNext, Next, Environment, Cancel, Crash, RedisCrash,
                  RedisRestart, RedisSave, Expire, Evict, Tick, store
    <3>3. CASE Proceed(r)
      BY <3>3 DEF Proceed, ListFind, ListFindFails, InsertStarterFails,
                  InsertStarter, Execute, ExecuteRejects, RedisAnswers,
                  RedisFails, Report, store
    <3>4. CASE Arrive(r)
      <4>1. Serves(r, "create") \/ Serves(r, "assign")
        BY <3>4 DEF Arrive, ListAssets, CreateAsset, AssignAsset,
                    AssignStarterPack, Health, store
      <4>2. CallRedis(r, "del")
        BY <3>4 DEF Arrive, ListAssets, CreateAsset, AssignAsset,
                    AssignStarterPack, Health, store, WriteThenInvalidate,
                    FewAndFaultless
      <4>3. QED
        BY <3>1, <4>1, <4>2 DEF Serves, CallRedis, LocalsOK
    <3>5. QED
      BY <3>2, <3>3, <3>4
  <2>3. CASE BlameNext
    BY <1>2, <2>1, <2>2, <2>3 DEF BlameNext, OnlyOvertaken, Explains
  <2>4. CASE UNCHANGED blameVars
    BY <1>2, <2>4 DEF blameVars, OnlyOvertaken
  <2>5. QED
    BY <1>2, <2>3, <2>4
<1>3. BlameInit => Init /\ OnlyOvertaken
  BY DEF BlameInit, OnlyOvertaken
<1>4. [BlameNext]_blameVars => [Next]_vars
  BY DEF BlameNext, blameVars
<1>5. Init => MissInv
  BY InitCalm
<1>6. QED
  BY <1>1, <1>2, <1>3, <1>4, <1>5, PTL DEF BlameSpec

(***************************************************************************)
(* Under the same conditions the breaker never trips: what breaker.go:48   *)
(* promises holds up to MaxFailures - 1 requests at a time.                *)
(***************************************************************************)
THEOREM NeverTrips ==
  ASSUME FewAndFaultless
  PROVE  Spec => [](breaker.state = "CLOSED")
<1>1. Init => MissInv
  BY InitCalm
<1>2. MissInv /\ [Next]_vars => MissInv'
  BY NextCalm, NextIInv DEF MissInv
<1>3. ASSUME MissInv PROVE breaker.state = "CLOSED"
  <2>1. IsFiniteSet(Misses) /\ Cardinality(Misses) <= Cardinality(Request)
    BY FS_Subset DEF FewAndFaultless, Misses
  <2>2. Cardinality(Misses) \in Nat /\ Cardinality(Request) \in Nat
    BY <2>1, FS_CardinalityType DEF FewAndFaultless
  <2>3. breaker.failures \in Nat /\ Consistent(breaker)
    BY <1>3, IInvParts, FailureCapAssumption DEF MissInv, Consistent, BreakerType
  <2>4. breaker.failures < MaxFailures
    BY <1>3, <2>1, <2>2, <2>3, MaxFailuresAssumption
       DEF MissInv, FailuresAreMisses, Misses, FewAndFaultless
  <2>5. QED
    BY <2>3, <2>4 DEF Consistent
<1>4. QED
  BY <1>1, <1>2, <1>3, PTL DEF Spec

-----------------------------------------------------------------------------
(***************************************************************************)
(* Answers.  Only its own steps and a crash move a request, and each of    *)
(* its own steps takes it nearer to its answer.                            *)
(***************************************************************************)
Rests(r) == pc'[r] = pc[r] /\ cmd'[r] = cmd[r] /\ pack'[r] = pack[r]

(* A request that is served waits for some answer.                         *)
LEMMA AheadOfAnswer ==
  ASSUME LocalsOK, NEW r \in Request, pc[r] # "idle"
  PROVE  Ahead(r) > 0
<1>1. pack[r].left \in Nat
  BY PackSizeAssumption DEF LocalsOK
<1>2. pc[r] \in {"find", "pack", "gate", "redis", "report"}
  BY DEF LocalsOK
<1>3. QED
  BY <1>1, <1>2 DEF Ahead

LEMMA ReplyAnswers ==
  ASSUME LocalsOK, NEW r \in Request, Reply(r)
  PROVE  /\ Ahead(r)' = 0
         /\ \A q \in Request \ {r} : Rests(q)
  BY DEF LocalsOK, Reply, Ahead, Rests

LEMMA CallRedisAhead ==
  ASSUME LocalsOK, NEW r \in Request, NEW c \in {"get", "set", "del", "ping"},
         CallRedis(r, c), UNCHANGED pack
  PROVE  /\ Ahead(r)' = IF c = "get" THEN 7 ELSE 3
         /\ \A q \in Request \ {r} : Rests(q)
  BY DEF LocalsOK, CallRedis, Ahead, Rests

(* What follows a Redis command is nearer to the answer than the command.  *)
LEMMA AfterExecuteNearer ==
  ASSUME LocalsOK, NEW r \in Request, NEW e, AfterExecute(r, e),
         pc[r] \in {"gate", "report"}
  PROVE  /\ Ahead(r)' < Ahead(r)
         /\ \A q \in Request \ {r} : Rests(q)
<1>1. CASE Reply(r)
  <2>1. Ahead(r) > 0
    BY AheadOfAnswer
  <2>2. QED
    BY <1>1, <2>1, ReplyAnswers
<1>2. CASE cmd[r] = "get" /\ FallThrough(r)
  BY <1>2 DEF LocalsOK, FallThrough, Ahead, Rests
<1>3. QED
  BY <1>1, <1>2 DEF AfterExecute

LEMMA NextStarterNearer ==
  ASSUME LocalsOK, NEW r \in Request, pc[r] = "pack", NextStarter(r)
  PROVE  /\ Ahead(r)' < Ahead(r)
         /\ \A q \in Request \ {r} : Rests(q)
<1>1. pack[r].left \in Nat \ {0}
  BY PackSizeAssumption DEF LocalsOK, StarterLoop
<1>2. /\ pack'[r].left = pack[r].left - 1
      /\ \A q \in Request \ {r} : Rests(q)
      /\ \/ pc'[r] = "gate" /\ cmd'[r] = "del"
         \/ pc'[r] = "pack"
  BY DEF LocalsOK, NextStarter, CallRedis, Rests
<1>3. QED
  BY <1>1, <1>2 DEF Ahead

LEMMA ProceedNearer ==
  ASSUME IInv, NEW r \in Request, Proceed(r)
  PROVE  /\ Ahead(r)' < Ahead(r)
         /\ \A q \in Request \ {r} : Rests(q)
<1> DEFINE Goal == Ahead(r)' < Ahead(r) /\ \A q \in Request \ {r} : Rests(q)
<1>1. LocalsOK
  BY IInvParts
<1>2. CASE ListFind(r)
  <2>1. Ahead(r) = 4
    BY <1>2 DEF ListFind, Ahead
  <2>2. QED
    BY <1>1, <1>2, <2>1, CallRedisAhead DEF ListFind
<1>3. CASE ListFindFails(r)
  <2>1. Ahead(r) = 4
    BY <1>3 DEF ListFindFails, Ahead
  <2>2. QED
    BY <1>1, <1>3, <2>1, ReplyAnswers DEF ListFindFails
<1>4. CASE InsertStarterFails(r) \/ \E a \in Asset : InsertStarter(r, a)
  BY <1>1, <1>4, NextStarterNearer DEF InsertStarterFails, InsertStarter
<1>5. CASE Execute(r)
  BY <1>1, <1>5 DEF Execute, LocalsOK, Ahead, Rests
<1>6. CASE RedisAnswers(r) \/ RedisFails(r)
  <2>1. /\ pc[r] = "redis" /\ pc' = [pc EXCEPT ![r] = "report"]
        /\ UNCHANGED <<cmd, pack>>
    BY <1>6 DEF RedisAnswers, RedisFails
  <2>2. QED
    BY <1>1, <2>1 DEF LocalsOK, Ahead, Rests
<1>7. CASE ExecuteRejects(r)
  BY <1>1, <1>7, AfterExecuteNearer DEF ExecuteRejects
<1>8. CASE Report(r)
  BY <1>1, <1>8, AfterExecuteNearer DEF Report
<1>9. QED
  BY <1>2, <1>3, <1>4, <1>5, <1>6, <1>7, <1>8 DEF Proceed

(* A request that arrives disturbs none that is served.                    *)
LEMMA ArriveRests ==
  ASSUME IInv, NEW r \in Request, Arrive(r)
  PROVE  \A q \in Request : pc[q] # "idle" => Rests(q)
<1>1. LocalsOK
  BY IInvParts
<1>2. pc[r] = "idle"
  BY DEF Arrive, ListAssets, CreateAsset, AssignAsset, AssignStarterPack, Health, Serves
<1>3. CASE \E u \in User : AssignStarterPack(r, u)
  BY <1>1, <1>2, <1>3 DEF AssignStarterPack, LocalsOK, Rests
<1>4. CASE UNCHANGED <<pc, cmd, pack>>
  BY <1>4 DEF Rests
<1>5. CASE pack' = pack /\ \E c \in {"get", "set", "del", "ping"} : CallRedis(r, c)
  BY <1>1, <1>2, <1>5, CallRedisAhead
<1>6. QED
  BY <1>3, <1>4, <1>5 DEF Arrive, ListAssets, CreateAsset, AssignAsset, Health,
                          WriteThenInvalidate

(***************************************************************************)
(* For any requests, faults and size of the pack: no step of a request     *)
(* takes it away from its answer, and no step of another request, of Redis *)
(* or of the breaker sets it back (handler/inventory.go:28-69).            *)
(***************************************************************************)
THEOREM AnswerComesNearerCorrect == Spec => AnswerComesNearer
<1> DEFINE Nearer == \A r \in Request : pc[r] # "idle" =>
                       \/ Ahead(r)' < Ahead(r)
                       \/ pc'[r] = pc[r] /\ cmd'[r] = cmd[r] /\ pack'[r] = pack[r]
<1>1. ASSUME IInv, [Next]_vars PROVE [Nearer]_vars
  <2>1. LocalsOK
    BY <1>1, IInvParts
  <2>2. ASSUME NEW r \in Request, Proceed(r) PROVE Nearer
    BY <1>1, <2>2, ProceedNearer DEF Rests
  <2>3. ASSUME NEW r \in Request, Arrive(r) PROVE Nearer
    BY <1>1, <2>3, ArriveRests DEF Rests
  <2>4. CASE Crash
    <3>1. \A r \in Request : Ahead(r)' = 0
      BY <2>4 DEF Crash, Ahead
    <3>2. QED
      BY <2>1, <3>1, AheadOfAnswer
  <2>5. CASE UNCHANGED <<pc, cmd, pack>>
    BY <2>5
  <2>6. CASE Environment
    BY <2>4, <2>5, <2>6 DEF Environment, Cancel, RedisCrash, RedisRestart, RedisSave,
                            Expire, Evict, Tick, locals
  <2>7. QED
    BY <1>1, <2>2, <2>3, <2>6 DEF Next
<1>2. QED
  BY <1>1, Invariance, PTL DEF Spec, AnswerComesNearer

(***************************************************************************)
(* The collection only grows, and what is assigned stays with its owner.   *)
(***************************************************************************)
AssetsStay == [][Store!Precedes(docs, docs')]_docs

(***************************************************************************)
(* So it is for any requests and faults, whatever lists are cached: no     *)
(* handler takes an asset away from its owner or back into the pool        *)
(* (handler/inventory.go, AssignAsset; handler/grpc.go).                   *)
(***************************************************************************)
THEOREM AssetsStayCorrect == Spec => AssetsStay
<1>1. ASSUME IInv, [Next]_vars PROVE [Store!Precedes(docs, docs')]_docs
  <2>1. docs \in List
    BY <1>1, IInvParts DEF StoreOK
  <2>2. [Store!Next]_Store!vars
    BY <1>1, NextMaps
  <2>3. ASSUME NEW a \in Asset, Store!Register(a) PROVE Store!Precedes(docs, docs')
    BY <2>1, <2>3 DEF Store!Register, Store!Precedes, List
  <2>4. ASSUME NEW a \in Asset, NEW u \in User, Store!Give(a, u)
        PROVE  Store!Precedes(docs, docs')
    BY <2>1, <2>4 DEF Store!Give, Store!Precedes, List
  <2>5. QED
    BY <2>2, <2>3, <2>4 DEF Store!Next, Store!Circulate, Store!vars
<1>2. QED
  BY <1>1, Invariance, PTL DEF Spec, AssetsStay
=============================================================================
