------------------------------ MODULE Startup ------------------------------
(***************************************************************************)
(* How the services come up (cmd/server/main.go): each waits for its       *)
(* database, five attempts long, then gives up with log.Fatal and is       *)
(* started again by Docker; prepares its table, if it has one; and listens.*)
(* The inventory service listens for gRPC as well, in a goroutine that     *)
(* starts before the HTTP server does and takes the process along if it    *)
(* fails.  Redis and the exporter of traces are not waited for.            *)
(***************************************************************************)
EXTENDS Naturals

CONSTANTS
  Service,
  Tabled,    \* the services that create a table: auth and user
  Remote,    \* the services that serve gRPC: inventory
  Attempts   \* to reach the database (5)

ASSUME ServiceAssumption ==
  Tabled \subseteq Service /\ Remote \subseteq Service /\ Tabled \cap Remote = {}
ASSUME AttemptsAssumption == Attempts \in Nat \ {0}

VARIABLES
  db,        \* whether the database of each service answers, in time
  table,     \* whether its table is there
  pc,        \* where main is, "down" if there is no process
  failed,    \* i, the attempts that failed
  grpc,      \* the goroutine: "none", "start" or "serve"
  reached    \* whether the process has reached its database (history)

process == <<pc, failed, grpc, reached>>
vars == <<db, table, pc, failed, grpc, reached>>

TypeOK ==
  /\ db \in [Service -> BOOLEAN] /\ table \in [Service -> BOOLEAN]
  /\ pc \in [Service -> {"down", "ping", "sleep", "create", "listen", "serve"}]
  /\ failed \in [Service -> 0 .. Attempts]
  /\ grpc \in [Service -> {"none", "start", "serve"}]
  /\ reached \in [Service -> BOOLEAN]

Init ==
  /\ db \in [Service -> BOOLEAN]
  /\ table = [s \in Service |-> FALSE]
  /\ pc = [s \in Service |-> "down"]
  /\ failed = [s \in Service |-> 0]
  /\ grpc = [s \in Service |-> "none"]
  /\ reached = [s \in Service |-> FALSE]

GoOn(s, at) ==
  /\ pc' = [pc EXCEPT ![s] = at]
  /\ UNCHANGED <<db, failed>>

\* The process ends.
Exit(s) ==
  /\ pc' = [pc EXCEPT ![s] = "down"]
  /\ failed' = [failed EXCEPT ![s] = 0]
  /\ grpc' = [grpc EXCEPT ![s] = "none"]
  /\ reached' = [reached EXCEPT ![s] = FALSE]
  /\ UNCHANGED <<db, table>>

\* Docker starts the service, again.
Start(s) ==
  /\ pc[s] = "down"
  /\ GoOn(s, "ping")
  /\ UNCHANGED <<table, grpc, reached>>

PingAnsweredNoBreak(s) ==
  /\ pc[s] = "ping" /\ db[s]
  /\ pc' = [pc EXCEPT ![s] = IF failed[s] + 1 < Attempts THEN "sleep" ELSE
                            IF s \in Tabled THEN "create" ELSE "listen"]
  /\ failed' = [failed EXCEPT ![s] = @ + 1]
  /\ grpc' = [grpc EXCEPT ![s] = IF s \in Remote THEN "start" ELSE "none"]
  /\ reached' = [reached EXCEPT ![s] = TRUE]
  /\ UNCHANGED <<db, table>>

\* After the ping the inventory service starts its goroutine.
PingAnswered(s) ==
  /\ pc[s] = "ping" /\ db[s]
  /\ GoOn(s, IF s \in Tabled THEN "create" ELSE "listen")
  /\ grpc' = [grpc EXCEPT ![s] = IF s \in Remote THEN "start" ELSE "none"]
  /\ reached' = [reached EXCEPT ![s] = TRUE]
  /\ UNCHANGED table

PingFails(s) ==
  /\ pc[s] = "ping" /\ ~ db[s]
  /\ pc' = [pc EXCEPT ![s] = "sleep"]
  /\ failed' = [failed EXCEPT ![s] = @ + 1]
  /\ UNCHANGED <<db, table, grpc, reached>>

WakeUpAlways(s) ==
  /\ pc[s] = "sleep"
  /\ GoOn(s, "ping")
  /\ UNCHANGED <<table, grpc, reached>>

WakeUp(s) ==
  /\ pc[s] = "sleep" /\ failed[s] < Attempts
  /\ GoOn(s, "ping")
  /\ UNCHANGED <<table, grpc, reached>>

DespairUnchecked(s) ==
  /\ pc[s] = "sleep" /\ failed[s] = Attempts
  /\ GoOn(s, IF s \in Tabled THEN "create" ELSE "listen")
  /\ UNCHANGED <<table, grpc, reached>>

\* The last attempt has failed, and its sleep is over as well.
Despair(s) ==
  /\ pc[s] = "sleep" /\ failed[s] = Attempts
  /\ Exit(s)

CreateNewTable(s) ==
  /\ pc[s] = "create" /\ db[s] /\ ~ table[s]
  /\ table' = [table EXCEPT ![s] = TRUE]
  /\ GoOn(s, "listen")
  /\ UNCHANGED <<grpc, reached>>

\* CREATE TABLE IF NOT EXISTS.
CreateTable(s) ==
  /\ pc[s] = "create" /\ db[s]
  /\ table' = [table EXCEPT ![s] = TRUE]
  /\ GoOn(s, "listen")
  /\ UNCHANGED <<grpc, reached>>

CreateTableFails(s) ==
  /\ pc[s] = "create" /\ ~ db[s]
  /\ Exit(s)

ListenAndServe(s) ==
  /\ pc[s] = "listen"
  /\ GoOn(s, "serve")
  /\ UNCHANGED <<table, grpc, reached>>

GrpcServe(s) ==
  /\ grpc[s] = "start"
  /\ grpc' = [grpc EXCEPT ![s] = "serve"]
  /\ UNCHANGED <<db, table, pc, failed, reached>>

\* One of the listeners cannot be opened or fails.
ListenFails(s) ==
  /\ pc[s] \in {"listen", "serve"} \/ grpc[s] # "none"
  /\ Exit(s)

Kill(s) == pc[s] # "down" /\ Exit(s)

DatabaseStops(s) ==
  /\ db[s]
  /\ db' = [db EXCEPT ![s] = FALSE]
  /\ UNCHANGED <<table, process>>

DatabaseStarts(s) ==
  /\ ~ db[s]
  /\ db' = [db EXCEPT ![s] = TRUE]
  /\ UNCHANGED <<table, process>>

Main(s) ==
  \/ PingAnswered(s) \/ PingFails(s) \/ WakeUp(s) \/ Despair(s)
  \/ CreateTable(s) \/ CreateTableFails(s) \/ ListenAndServe(s)

Environment(s) == ListenFails(s) \/ Kill(s) \/ DatabaseStops(s) \/ DatabaseStarts(s)

Next == \E s \in Service : Start(s) \/ Main(s) \/ GrpcServe(s) \/ Environment(s)

Spec == Init /\ [][Next]_vars

(***************************************************************************)
(* Processes run on, and Docker starts what has ended (restart:            *)
(* unless-stopped).                                                        *)
(***************************************************************************)
FairSpec ==
  Spec /\ \A s \in Service : WF_vars(Start(s)) /\ WF_vars(Main(s)) /\ WF_vars(GrpcServe(s))

-----------------------------------------------------------------------------
(***************************************************************************)
(* Whatever listens, for HTTP or gRPC, belongs to a process that has       *)
(* reached its database, and the table its handlers use is there, however  *)
(* often databases and services went away before.                          *)
(***************************************************************************)
Listens(s) == pc[s] = "serve" \/ grpc[s] = "serve"

ServesPrepared ==
  \A s \in Service : Listens(s) => reached[s] /\ (s \in Tabled => table[s])

(***************************************************************************)
(* Once the database stays up, and nothing else ends the process, the      *)
(* service comes up for good, with both its listeners, though its earlier  *)
(* processes gave up waiting (main.go: five attempts, log.Fatal).          *)
(***************************************************************************)
ServesAll(s) == pc[s] = "serve" /\ (s \in Remote => grpc[s] = "serve")

EventuallyServes ==
  \A s \in Service : <>[][~ Environment(s)]_vars /\ <>[] db[s] => <>[] ServesAll(s)

(***************************************************************************)
(* What makes it so: while its database answers, every step of main and of *)
(* Docker, giving up after the last attempt too, brings the service nearer *)
(* to its listener by the shortest way: the loop has a break (main.go:44). *)
(***************************************************************************)
Ahead(s) ==
  CASE pc[s] = "sleep" -> 5 [] pc[s] = "down" -> 4 [] pc[s] = "ping" -> 3
    [] pc[s] = "create" -> 2 [] pc[s] = "listen" -> 1 [] OTHER -> 0

NearerWithDatabase ==
  [][\A s \in Service : db[s] /\ (Start(s) \/ Main(s)) => Ahead(s)' < Ahead(s)]_vars
=============================================================================
