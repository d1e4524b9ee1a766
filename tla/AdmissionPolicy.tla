-------------------------- MODULE AdmissionPolicy --------------------------
(***************************************************************************)
(* What the circuit breaker promises, without saying how: an admission     *)
(* policy that has no modes.  A call may start unless the last             *)
(* MaxFailures outcomes were all failures and the last of them is at most  *)
(* Timeout old.  There is no CLOSED, OPEN or HALF-OPEN here.               *)
(***************************************************************************)
EXTENDS Naturals

CONSTANTS Caller, MaxFailures, Timeout, FailureCap

VARIABLES
  streak,    \* failures since the last success, counted up to FailureCap
  quiet,     \* time since the last failure, counted up to Timeout + 1
  running,   \* the callers whose function is executing
  verdict    \* what each caller was last told

vars == <<streak, quiet, running, verdict>>

Allowed == streak < MaxFailures \/ quiet > Timeout

Init ==
  /\ streak = 0
  /\ quiet = Timeout + 1
  /\ running = {}
  /\ verdict = [c \in Caller |-> "none"]

Begin(c) ==
  /\ c \notin running
  /\ Allowed
  /\ running' = running \cup {c}
  /\ verdict' = [verdict EXCEPT ![c] = "none"]
  /\ UNCHANGED <<streak, quiet>>

Refuse(c) ==
  /\ c \notin running
  /\ ~ Allowed
  /\ verdict' = [verdict EXCEPT ![c] = "rejected"]
  /\ UNCHANGED <<streak, quiet, running>>

EndWell(c) ==
  /\ c \in running
  /\ running' = running \ {c}
  /\ verdict' = [verdict EXCEPT ![c] = "ok"]
  /\ streak' = 0
  /\ UNCHANGED quiet

EndBadly(c) ==
  /\ c \in running
  /\ running' = running \ {c}
  /\ verdict' = [verdict EXCEPT ![c] = "err"]
  /\ streak' = IF streak < FailureCap THEN streak + 1 ELSE FailureCap
  /\ quiet' = 0

Wait ==
  /\ quiet <= Timeout
  /\ quiet' = quiet + 1
  /\ UNCHANGED <<streak, running, verdict>>

Next ==
  \/ \E c \in Caller : Begin(c) \/ Refuse(c) \/ EndWell(c) \/ EndBadly(c)
  \/ Wait

Spec == Init /\ [][Next]_vars
=============================================================================
