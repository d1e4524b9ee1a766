-------------------------- MODULE BreakerTheorems --------------------------
(***************************************************************************)
(* What the critical sections of breaker.go do to a breaker, for any       *)
(* MaxFailures >= 1 and any Timeout: facts for the proofs about the        *)
(* components that use it.                                                 *)
(***************************************************************************)
EXTENDS Breaker, TLAPS

(***************************************************************************)
(* Well formed, and with a state that agrees with the counters: CLOSED     *)
(* exactly below the threshold, HALF-OPEN only after a rest.               *)
(***************************************************************************)
Consistent(b) ==
  /\ b \in BreakerType
  /\ b.state = "CLOSED" <=> b.failures < MaxFailures
  /\ b.state = "HALF-OPEN" => TimedOut(b)

(* A new breaker is consistent (New). *)
LEMMA NewBreakerConsistent == Consistent(NewBreaker)
  BY MaxFailuresAssumption, TimeoutAssumption, FailureCapAssumption
     DEF Consistent, BreakerType, NewBreaker, State, TimedOut

(* On a consistent breaker the three-state test of Execute is the modeless *)
(* one.                                                                    *)
LEMMA AdmitsIsModeless ==
  ASSUME NEW b, Consistent(b)
  PROVE  Admits(b) <=> b.failures < MaxFailures \/ b.quiet > Timeout
  BY MaxFailuresAssumption, TimeoutAssumption, FailureCapAssumption
     DEF Consistent, BreakerType, State, TimedOut, Admits

(* Letting a call through keeps the breaker consistent, and leaves it in a *)
(* state in which calls run.                                               *)
LEMMA AdmitConsistent ==
  ASSUME NEW b, Consistent(b), Admits(b)
  PROVE  /\ Consistent(Admit(b))
         /\ Admit(b).state \in {"CLOSED", "HALF-OPEN"}
         /\ Admit(b).failures = b.failures
         /\ Admit(b).quiet = b.quiet
  BY MaxFailuresAssumption, TimeoutAssumption, FailureCapAssumption
     DEF Consistent, BreakerType, State, TimedOut, Admits, Admit

(* Recording a failure keeps the breaker consistent, in every state.       *)
LEMMA RecordFailureConsistent ==
  ASSUME NEW b, Consistent(b)
  PROVE  /\ Consistent(RecordFailure(b))
         /\ RecordFailure(b).failures = CountFailure(b.failures)
         /\ RecordFailure(b).quiet = 0
  BY MaxFailuresAssumption, TimeoutAssumption, FailureCapAssumption
     DEF Consistent, BreakerType, State, TimedOut, RecordFailure, CountFailure

(* Recording a success keeps the breaker consistent, in every state.       *)
LEMMA RecordSuccessConsistent ==
  ASSUME NEW b, Consistent(b)
  PROVE  /\ Consistent(RecordSuccess(b))
         /\ RecordSuccess(b).failures = 0
         /\ RecordSuccess(b).quiet = b.quiet
  BY MaxFailuresAssumption, TimeoutAssumption, FailureCapAssumption
     DEF Consistent, BreakerType, State, TimedOut, RecordSuccess

(* The passage of time keeps the breaker consistent.                       *)
LEMMA ElapseConsistent ==
  ASSUME NEW b, Consistent(b), ~ TimedOut(b)
  PROVE  /\ Consistent(Elapse(b))
         /\ Elapse(b).failures = b.failures
         /\ Elapse(b).quiet = b.quiet + 1
         /\ b.quiet <= Timeout
  BY MaxFailuresAssumption, TimeoutAssumption, FailureCapAssumption
     DEF Consistent, BreakerType, State, TimedOut, Elapse
=============================================================================
