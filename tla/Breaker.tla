------------------------------ MODULE Breaker ------------------------------
(***************************************************************************)
(* The circuit breaker of the inventory service, as a data type:           *)
(* services/inventory/internal/circuitbreaker/breaker.go.                  *)
(*                                                                         *)
(* A breaker is a record.  Every operator below is what one critical       *)
(* section of the Go code (between mu.Lock and mu.Unlock) does to it;      *)
(* BreakerCalls and Inventory say when those critical sections run.        *)
(*                                                                         *)
(* lastFailure is kept as `quiet', the time elapsed since it: the code     *)
(* only ever asks whether time.Since(lastFailure) > timeout, so the count  *)
(* stops at Timeout + 1, where the answer no longer changes.  In the same  *)
(* way the code only asks whether failures >= maxFailures, so the counter  *)
(* stops at FailureCap, any value at or above MaxFailures.                 *)
(***************************************************************************)
EXTENDS Naturals

CONSTANTS
  MaxFailures,  \* failures in a row that trip the breaker (main.go passes 5)
  Timeout,      \* rest after a failure before a probe (main.go passes 30s)
  FailureCap    \* bound on the failure counter

ASSUME MaxFailuresAssumption == MaxFailures \in Nat \ {0}
ASSUME TimeoutAssumption == Timeout \in Nat
ASSUME FailureCapAssumption == FailureCap \in Nat /\ FailureCap >= MaxFailures

State == {"CLOSED", "OPEN", "HALF-OPEN"}

BreakerType ==
  [state : State, failures : 0 .. FailureCap, quiet : 0 .. Timeout + 1]

\* New: closed, no failures; the zero lastFailure lies arbitrarily far back.
NewBreaker == [state |-> "CLOSED", failures |-> 0, quiet |-> Timeout + 1]

TimedOut(b) == b.quiet > Timeout

\* Does Execute run the function, or return ErrCircuitOpen?
Admits(b) == b.state # "OPEN" \/ TimedOut(b)

AdmitStayingOpen(b) == b

\* Execute, for a call that is let through.
Admit(b) == [b EXCEPT !.state = IF @ = "OPEN" THEN "HALF-OPEN" ELSE @]

CountFailure(n) == IF n < FailureCap THEN n + 1 ELSE FailureCap

RecordFailureNoReopen(b) ==
  LET n == CountFailure(b.failures)
  IN  [state    |-> IF b.state = "CLOSED" /\ n >= MaxFailures
                    THEN "OPEN" ELSE b.state,
       failures |-> n,
       quiet    |-> 0]

\* doExecute, when the function returned an error.
RecordFailure(b) ==
  LET n == CountFailure(b.failures)
  IN  [state    |-> IF b.state = "HALF-OPEN" \/ n >= MaxFailures
                    THEN "OPEN" ELSE b.state,
       failures |-> n,
       quiet    |-> 0]

RecordSuccessNoClose(b) == [b EXCEPT !.failures = 0]

RecordSuccessNoReset(b) == [b EXCEPT !.state = "CLOSED"]

\* doExecute, when the function returned nil.
RecordSuccess(b) == [state |-> "CLOSED", failures |-> 0, quiet |-> b.quiet]

\* The clock advances by one unit.
Elapse(b) == [b EXCEPT !.quiet = IF @ <= Timeout THEN @ + 1 ELSE @]
=============================================================================
