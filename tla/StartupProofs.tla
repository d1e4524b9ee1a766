--------------------------- MODULE StartupProofs ---------------------------
(***************************************************************************)
(* Theorems about Startup, for any services and any number of attempts:    *)
(* main comes past its loop only with a ping that was answered, and past   *)
(* createTable only with the table; the goroutine is never ahead of main.  *)
(***************************************************************************)
EXTENDS Startup, TLAPS

Past == {"create", "listen", "serve"}

\* What main has behind it.
InOrder(s) ==
  /\ pc[s] \in {"down", "ping"} => failed[s] < Attempts
  /\ pc[s] \in Past => reached[s]
  /\ pc[s] \in {"listen", "serve"} /\ s \in Tabled => table[s]
  /\ grpc[s] # "none" => pc[s] \in Past /\ s \in Remote

IInv == TypeOK /\ \A s \in Service : InOrder(s)

\* What a step of another service leaves alone.
Same(s) ==
  /\ pc'[s] = pc[s] /\ reached'[s] = reached[s] /\ failed'[s] = failed[s]
  /\ table'[s] = table[s] /\ grpc'[s] = grpc[s]

-----------------------------------------------------------------------------
LEMMA InitIInv == Init => IInv
  BY AttemptsAssumption DEF Init, IInv, TypeOK, InOrder, Past

(* A step of one service that keeps its order keeps that of all.           *)
LEMMA OneStep ==
  ASSUME \A s \in Service : InOrder(s), NEW s \in Service, InOrder(s)',
         \A r \in Service \ {s} : Same(r)
  PROVE  (\A r \in Service : InOrder(r))'
<1> SUFFICES ASSUME NEW r \in Service PROVE InOrder(r)'
  OBVIOUS
<1>1. CASE r = s
  BY <1>1
<1>2. CASE r # s
  BY <1>2 DEF Same, InOrder
<1>3. QED
  BY <1>1, <1>2

LEMMA ExitIInv ==
  ASSUME IInv, NEW s \in Service, Exit(s)
  PROVE  IInv'
<1>1. TypeOK'
  BY AttemptsAssumption DEF IInv, TypeOK, Exit
<1>2. InOrder(s)' /\ \A r \in Service \ {s} : Same(r)
  BY AttemptsAssumption DEF IInv, TypeOK, Exit, InOrder, Same, Past
<1>3. QED
  BY <1>1, <1>2, OneStep DEF IInv

LEMMA MainIInv ==
  ASSUME IInv, NEW s \in Service, Main(s)
  PROVE  IInv'
<1> USE DEF IInv, TypeOK
<1>1. CASE PingAnswered(s)
  <2>1. TypeOK'
    BY <1>1 DEF PingAnswered, GoOn
  <2>2. InOrder(s)' /\ \A r \in Service \ {s} : Same(r)
    BY <1>1, ServiceAssumption DEF PingAnswered, GoOn, InOrder, Same, Past
  <2>3. QED
    BY <2>1, <2>2, OneStep
<1>2. CASE PingFails(s)
  <2>1. TypeOK'
    BY <1>2, AttemptsAssumption DEF PingFails, InOrder
  <2>2. InOrder(s)' /\ \A r \in Service \ {s} : Same(r)
    BY <1>2 DEF PingFails, InOrder, Same, Past
  <2>3. QED
    BY <2>1, <2>2, OneStep
<1>3. CASE WakeUp(s)
  <2>1. TypeOK'
    BY <1>3 DEF WakeUp, GoOn
  <2>2. InOrder(s)' /\ \A r \in Service \ {s} : Same(r)
    BY <1>3 DEF WakeUp, GoOn, InOrder, Same, Past
  <2>3. QED
    BY <2>1, <2>2, OneStep
<1>4. CASE Despair(s) \/ CreateTableFails(s)
  BY <1>4, ExitIInv DEF Despair, CreateTableFails
<1>5. CASE CreateTable(s)
  <2>1. TypeOK'
    BY <1>5 DEF CreateTable, GoOn
  <2>2. InOrder(s)' /\ \A r \in Service \ {s} : Same(r)
    BY <1>5 DEF CreateTable, GoOn, InOrder, Same, Past
  <2>3. QED
    BY <2>1, <2>2, OneStep
<1>6. CASE ListenAndServe(s)
  <2>1. TypeOK'
    BY <1>6 DEF ListenAndServe, GoOn
  <2>2. InOrder(s)' /\ \A r \in Service \ {s} : Same(r)
    BY <1>6 DEF ListenAndServe, GoOn, InOrder, Same, Past
  <2>3. QED
    BY <2>1, <2>2, OneStep
<1>7. QED
  BY <1>1, <1>2, <1>3, <1>4, <1>5, <1>6 DEF Main

LEMMA NextIInv == IInv /\ [Next]_vars => IInv'
<1> SUFFICES ASSUME IInv, [Next]_vars PROVE IInv'
  OBVIOUS
<1> USE DEF IInv, TypeOK
<1>1. ASSUME NEW s \in Service, Start(s) PROVE IInv'
  <2>1. TypeOK'
    BY <1>1 DEF Start, GoOn
  <2>2. InOrder(s)' /\ \A r \in Service \ {s} : Same(r)
    BY <1>1 DEF Start, GoOn, InOrder, Same, Past
  <2>3. QED
    BY <2>1, <2>2, OneStep
<1>2. ASSUME NEW s \in Service, Main(s) PROVE IInv'
  BY <1>2, MainIInv
<1>3. ASSUME NEW s \in Service, GrpcServe(s) PROVE IInv'
  <2>1. TypeOK'
    BY <1>3 DEF GrpcServe
  <2>2. InOrder(s)' /\ \A r \in Service \ {s} : Same(r)
    BY <1>3 DEF GrpcServe, InOrder, Same, Past
  <2>3. QED
    BY <2>1, <2>2, OneStep
<1>4. ASSUME NEW s \in Service, ListenFails(s) \/ Kill(s) PROVE IInv'
  BY <1>4, ExitIInv DEF ListenFails, Kill
<1>5. ASSUME NEW s \in Service, DatabaseStops(s) \/ DatabaseStarts(s) PROVE IInv'
  BY <1>5 DEF DatabaseStops, DatabaseStarts, process, InOrder
<1>6. CASE UNCHANGED vars
  BY <1>6 DEF vars, InOrder
<1>7. QED
  BY <1>1, <1>2, <1>3, <1>4, <1>5, <1>6 DEF Next, Environment

(* Types and order hold together.                                          *)
THEOREM Invariance == Spec => []IInv
  BY InitIInv, NextIInv, PTL DEF Spec

(***************************************************************************)
(* Every reachable state of the starting services is well typed: no        *)
(* process makes more than its Attempts.                                   *)
(***************************************************************************)
THEOREM TypeCorrect == Spec => []TypeOK
<1>1. IInv => TypeOK
  BY DEF IInv
<1>2. QED
  BY <1>1, Invariance, PTL

(***************************************************************************)
(* For any services and attempts, nothing listens, for HTTP or gRPC, that  *)
(* has not reached its database and made its table (cmd/server/main.go).   *)
(***************************************************************************)
THEOREM ServesPreparedCorrect == Spec => []ServesPrepared
<1>1. IInv => ServesPrepared
  BY ServiceAssumption DEF IInv, InOrder, ServesPrepared, Listens, Past
<1>2. QED
  BY <1>1, Invariance, PTL

(***************************************************************************)
(* For any services and attempts: while its database answers, a service    *)
(* comes nearer to its listener with every step of main and of Docker, so  *)
(* that five of them in a row are enough (main.go:40-53).                   *)
(***************************************************************************)
THEOREM NearerWithDatabaseCorrect == Spec => NearerWithDatabase
<1> DEFINE Nearer == \A s \in Service : db[s] /\ (Start(s) \/ Main(s)) => Ahead(s)' < Ahead(s)
<1>1. ASSUME IInv, [Next]_vars PROVE [Nearer]_vars
  <2> SUFFICES ASSUME NEW s \in Service, db[s], Start(s) \/ Main(s)
               PROVE  Ahead(s)' < Ahead(s)
    OBVIOUS
  <2> USE DEF Ahead, GoOn
  <2>1. pc \in [Service -> {"down", "ping", "sleep", "create", "listen", "serve"}]
    BY <1>1 DEF IInv, TypeOK
  <2>2. CASE Start(s)
    BY <2>1, <2>2 DEF Start
  <2>3. CASE PingAnswered(s)
    BY <2>1, <2>3 DEF PingAnswered
  <2>4. CASE WakeUp(s)
    BY <2>1, <2>4 DEF WakeUp
  <2>5. CASE Despair(s)
    BY <2>1, <2>5 DEF Despair, Exit
  <2>6. CASE CreateTable(s)
    BY <2>1, <2>6 DEF CreateTable
  <2>7. CASE ListenAndServe(s)
    BY <2>1, <2>7 DEF ListenAndServe
  <2>8. CASE PingFails(s) \/ CreateTableFails(s)
    BY <2>8 DEF PingFails, CreateTableFails
  <2>9. QED
    BY <2>2, <2>3, <2>4, <2>5, <2>6, <2>7, <2>8 DEF Main
<1>2. QED
  BY <1>1, Invariance, PTL DEF Spec, NearerWithDatabase
=============================================================================
