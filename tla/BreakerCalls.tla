---------------------------- MODULE BreakerCalls ----------------------------
(***************************************************************************)
(* One circuit breaker shared by the goroutines of the inventory service   *)
(* (breaker.go, Execute and doExecute).                                    *)
(*                                                                         *)
(* The lock is held while Execute looks at the state and while doExecute   *)
(* records the outcome, never while the wrapped function runs: between the *)
(* Start and the Succeed or Fail of a call, other calls may start, end,    *)
(* trip the breaker or close it.  The outcome of a call is recorded        *)
(* whatever happened meanwhile, in whatever state the breaker then is.     *)
(***************************************************************************)
EXTENDS Breaker

CONSTANT Caller   \* goroutines that call Execute, again and again

VARIABLES
  breaker,  \* the fields of the Breaker struct
  call,     \* "idle", or the breaker state in which the caller was let in
  result    \* what Execute last returned to each caller

vars == <<breaker, call, result>>

\* In particular no function runs for a call let in under the state OPEN.
TypeOK ==
  /\ breaker \in BreakerType
  /\ call \in [Caller -> {"idle", "CLOSED", "HALF-OPEN"}]
  /\ result \in [Caller -> {"none", "ok", "err", "rejected"}]

Init ==
  /\ breaker = NewBreaker
  /\ call = [c \in Caller |-> "idle"]
  /\ result = [c \in Caller |-> "none"]

\* Execute takes the lock, lets the call through and releases the lock.
Start(c) ==
  /\ call[c] = "idle"
  /\ Admits(breaker)
  /\ breaker' = Admit(breaker)
  /\ call' = [call EXCEPT ![c] = Admit(breaker).state]
  /\ result' = [result EXCEPT ![c] = "none"]

RejectRestartingTimer(c) ==
  /\ call[c] = "idle"
  /\ ~ Admits(breaker)
  /\ breaker' = [breaker EXCEPT !.quiet = 0]
  /\ result' = [result EXCEPT ![c] = "rejected"]
  /\ UNCHANGED call

\* Execute returns ErrCircuitOpen without running the function.
Reject(c) ==
  /\ call[c] = "idle"
  /\ ~ Admits(breaker)
  /\ result' = [result EXCEPT ![c] = "rejected"]
  /\ UNCHANGED <<breaker, call>>

\* The function returned nil; doExecute records it.
Succeed(c) ==
  /\ call[c] # "idle"
  /\ breaker' = RecordSuccess(breaker)
  /\ call' = [call EXCEPT ![c] = "idle"]
  /\ result' = [result EXCEPT ![c] = "ok"]

\* The function returned an error; doExecute records it.
Fail(c) ==
  /\ call[c] # "idle"
  /\ breaker' = RecordFailure(breaker)
  /\ call' = [call EXCEPT ![c] = "idle"]
  /\ result' = [result EXCEPT ![c] = "err"]

Tick ==
  /\ ~ TimedOut(breaker)
  /\ breaker' = Elapse(breaker)
  /\ UNCHANGED <<call, result>>

Next ==
  \/ \E c \in Caller : Start(c) \/ Reject(c) \/ Succeed(c) \/ Fail(c)
  \/ Tick

Spec == Init /\ [][Next]_vars

(***************************************************************************)
(* Time passes, a call that runs ends (every Redis command has a read      *)
(* timeout), and callers keep calling: Prometheus and the dashboard poll   *)
(* /api/inventory/health, which goes through the breaker, every 15s.       *)
(***************************************************************************)
Fairness ==
  /\ WF_vars(Tick)
  /\ \A c \in Caller : WF_vars(Start(c)) /\ WF_vars(Succeed(c) \/ Fail(c))

FairSpec == Spec /\ Fairness

-----------------------------------------------------------------------------
(***************************************************************************)
(* Whatever the interleaving of late outcomes, the state field and the     *)
(* failure counter agree: the breaker is CLOSED exactly while fewer than   *)
(* MaxFailures failures were recorded since the last success, and it is    *)
(* HALF-OPEN only if no failure was recorded during the last Timeout       *)
(* (Execute and doExecute write these fields in separate critical          *)
(* sections, so no single step makes this true).                           *)
(***************************************************************************)
StateMatchesCounters ==
  /\ breaker.state = "CLOSED" <=> breaker.failures < MaxFailures
  /\ breaker.state = "HALF-OPEN" => TimedOut(breaker)

(***************************************************************************)
(* The backend is left alone after an outage: no function starts while the *)
(* last MaxFailures outcomes were failures and the last one is at most     *)
(* Timeout old, in whatever state the callers left the breaker.            *)
(***************************************************************************)
BackendRests ==
  [][\A c \in Caller :
       call[c] = "idle" /\ call'[c] # "idle" =>
         breaker.failures < MaxFailures \/ TimedOut(breaker)]_vars

\* The calls whose function is running.
InFlight == {c \in Caller : call[c] # "idle"}

(***************************************************************************)
(* The three-state breaker is the modeless AdmissionPolicy: it admits and  *)
(* rejects exactly the calls that policy admits and refuses.               *)
(***************************************************************************)
Policy == INSTANCE AdmissionPolicy
            WITH streak <- breaker.failures,
                 quiet <- breaker.quiet,
                 running <- InFlight,
                 verdict <- result

ImplementsPolicy == Policy!Spec

(***************************************************************************)
(* An OPEN breaker does not stay OPEN: the failures of calls that were in  *)
(* flight when it tripped restart the timer, but only finitely often.      *)
(***************************************************************************)
OpenIsTemporary == breaker.state = "OPEN" ~> breaker.state # "OPEN"

(***************************************************************************)
(* Why only finitely often: while the breaker stays OPEN no call starts,   *)
(* and what sets its timer back is the end of a call that was in flight    *)
(* (breaker.go:104-113), never a call that is refused.                     *)
(***************************************************************************)
LateFailuresRunOut ==
  [][breaker.state = "OPEN" /\ breaker'.state = "OPEN" =>
       /\ InFlight' \subseteq InFlight
       /\ breaker'.quiet < breaker.quiet => InFlight' # InFlight]_vars

(***************************************************************************)
(* Once calls stop failing the breaker closes and stays closed: no order   *)
(* of probes and late outcomes leaves it OPEN or HALF-OPEN for ever.       *)
(***************************************************************************)
Recovers ==
  <>[][\A c \in Caller : ~ Fail(c)]_vars => <>[](breaker.state = "CLOSED")

-----------------------------------------------------------------------------
(***************************************************************************)
(* breaker.go:16 says "HALF-OPEN lets exactly ONE request through as a     *)
(* probe".  The HALF-OPEN case of Execute lets every request through.      *)
(***************************************************************************)
SingleProbe ==
  \A c, d \in Caller : call[c] = "HALF-OPEN" /\ call[d] = "HALF-OPEN" => c = d
=============================================================================
