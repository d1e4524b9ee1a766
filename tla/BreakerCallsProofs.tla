------------------------- MODULE BreakerCallsProofs -------------------------
(***************************************************************************)
(* Theorems about BreakerCalls, for any set of callers, any MaxFailures >= *)
(* 1 and any Timeout.  The argument: the two halves of StateMatchesCounters*)
(* are inductive together with the types, and they make the test of        *)
(* Execute on the state field equivalent to the modeless test of           *)
(* AdmissionPolicy.  BackendRests and ImplementsPolicy follow step by step.*)
(***************************************************************************)
EXTENDS BreakerCalls, BreakerTheorems

IInv == TypeOK /\ StateMatchesCounters

-----------------------------------------------------------------------------
LEMMA IInvIsConsistent == IInv => Consistent(breaker)
  BY DEF IInv, TypeOK, StateMatchesCounters, Consistent

LEMMA InitIInv == Init => IInv
<1> SUFFICES ASSUME Init PROVE IInv
  OBVIOUS
<1>1. Consistent(breaker)
  BY NewBreakerConsistent DEF Init
<1>2. call \in [Caller -> {"idle", "CLOSED", "HALF-OPEN"}]
  BY DEF Init
<1>3. result \in [Caller -> {"none", "ok", "err", "rejected"}]
  BY DEF Init
<1>4. QED
  BY <1>1, <1>2, <1>3 DEF IInv, TypeOK, StateMatchesCounters, Consistent

LEMMA NextIInv == IInv /\ [Next]_vars => IInv'
<1> SUFFICES ASSUME IInv, [Next]_vars PROVE IInv'
  OBVIOUS
<1>1. Consistent(breaker)
  BY IInvIsConsistent
<1>2. /\ call \in [Caller -> {"idle", "CLOSED", "HALF-OPEN"}]
      /\ result \in [Caller -> {"none", "ok", "err", "rejected"}]
  BY DEF IInv, TypeOK
<1> DEFINE Goal == /\ Consistent(breaker')
                   /\ call' \in [Caller -> {"idle", "CLOSED", "HALF-OPEN"}]
                   /\ result' \in [Caller -> {"none", "ok", "err", "rejected"}]
<1>3. SUFFICES Goal
  BY DEF IInv, TypeOK, StateMatchesCounters, Consistent
<1>4. ASSUME NEW c \in Caller, Start(c)
      PROVE  Goal
  BY <1>1, <1>2, <1>4, AdmitConsistent DEF Start
<1>5. ASSUME NEW c \in Caller, Reject(c)
      PROVE  Goal
  BY <1>1, <1>2, <1>5 DEF Reject
<1>6. ASSUME NEW c \in Caller, Succeed(c)
      PROVE  Goal
  BY <1>1, <1>2, <1>6, RecordSuccessConsistent DEF Succeed
<1>7. ASSUME NEW c \in Caller, Fail(c)
      PROVE  Goal
  BY <1>1, <1>2, <1>7, RecordFailureConsistent DEF Fail
<1>8. CASE Tick
  BY <1>1, <1>2, <1>8, ElapseConsistent DEF Tick
<1>9. CASE UNCHANGED vars
  BY <1>1, <1>2, <1>9 DEF vars
<1>10. QED
  BY <1>4, <1>5, <1>6, <1>7, <1>8, <1>9 DEF Next

(* The types and the agreement of state and counters hold together.        *)
THEOREM Invariance == Spec => []IInv
  BY InitIInv, NextIInv, PTL DEF Spec

(***************************************************************************)
(* Every reachable state of the breaker and of its callers is well typed.  *)
(***************************************************************************)
THEOREM TypeCorrect == Spec => []TypeOK
<1>1. IInv => TypeOK
  BY DEF IInv
<1>2. QED
  BY <1>1, Invariance, PTL

(***************************************************************************)
(* For any number of goroutines, state and counters agree whatever the     *)
(* order in which outcomes are recorded (breaker.go, Execute, doExecute).  *)
(***************************************************************************)
THEOREM CountersCorrect == Spec => []StateMatchesCounters
<1>1. IInv => StateMatchesCounters
  BY DEF IInv
<1>2. QED
  BY <1>1, Invariance, PTL

(***************************************************************************)
(* No function starts while the last MaxFailures outcomes were failures    *)
(* and the last of them is at most Timeout old.                            *)
(***************************************************************************)
THEOREM BackendRestsCorrect == Spec => BackendRests
<1> DEFINE Rest == \A c \in Caller :
                     call[c] = "idle" /\ call'[c] # "idle" =>
                       breaker.failures < MaxFailures \/ TimedOut(breaker)
<1>1. ASSUME IInv, [Next]_vars PROVE [Rest]_vars
  <2>1. Consistent(breaker)
    BY <1>1, IInvIsConsistent
  <2>2. call \in [Caller -> {"idle", "CLOSED", "HALF-OPEN"}]
    BY <1>1 DEF IInv, TypeOK
  <2>3. ASSUME NEW c \in Caller, Start(c) PROVE Rest
    BY <2>1, <2>2, <2>3, AdmitsIsModeless DEF Start, TimedOut
  <2>4. ASSUME NEW c \in Caller, Reject(c) PROVE Rest
    BY <2>2, <2>4 DEF Reject
  <2>5. ASSUME NEW c \in Caller, Succeed(c) \/ Fail(c) PROVE Rest
    BY <2>2, <2>5 DEF Succeed, Fail
  <2>6. CASE Tick
    BY <2>2, <2>6 DEF Tick
  <2>7. QED
    BY <1>1, <2>3, <2>4, <2>5, <2>6 DEF Next
<1>2. QED
  BY <1>1, Invariance, PTL DEF Spec, BackendRests

(***************************************************************************)
(* For any number of goroutines: an OPEN breaker lets nobody in before its *)
(* timeout, and what restarts the timer is the end of a call that was in   *)
(* flight when it tripped, so it is restarted finitely often               *)
(* (breaker.go:104-113).                                                   *)
(***************************************************************************)
THEOREM LateFailuresRunOutCorrect == Spec => LateFailuresRunOut
<1> DEFINE RunOut == breaker.state = "OPEN" /\ breaker'.state = "OPEN" =>
                       /\ InFlight' \subseteq InFlight
                       /\ breaker'.quiet < breaker.quiet => InFlight' # InFlight
<1>1. ASSUME IInv, [Next]_vars PROVE [RunOut]_vars
  <2>1. Consistent(breaker) /\ breaker.quiet \in Nat
    BY <1>1, IInvIsConsistent, TimeoutAssumption DEF Consistent, BreakerType
  <2>2. call \in [Caller -> {"idle", "CLOSED", "HALF-OPEN"}]
    BY <1>1 DEF IInv, TypeOK
  <2>3. ASSUME NEW c \in Caller, Start(c) PROVE RunOut
    BY <2>1, <2>3 DEF Start, Admit, Consistent, BreakerType
  <2>4. ASSUME NEW c \in Caller, Reject(c) PROVE RunOut
    BY <2>1, <2>4 DEF Reject, InFlight
  <2>5. ASSUME NEW c \in Caller, Succeed(c) PROVE RunOut
    BY <2>5 DEF Succeed, RecordSuccess
  <2>6. ASSUME NEW c \in Caller, Fail(c) PROVE RunOut
    <3>1. c \in InFlight /\ InFlight' = InFlight \ {c}
      BY <2>2, <2>6 DEF Fail, InFlight
    <3>2. QED
      BY <3>1
  <2>7. CASE Tick
    <3>1. InFlight' = InFlight /\ breaker'.quiet = breaker.quiet + 1
      BY <2>1, <2>7, ElapseConsistent DEF Tick, InFlight
    <3>2. QED
      BY <2>1, <3>1
  <2>8. QED
    BY <1>1, <2>3, <2>4, <2>5, <2>6, <2>7 DEF Next
<1>2. QED
  BY <1>1, Invariance, PTL DEF Spec, LateFailuresRunOut

(***************************************************************************)
(* The breaker of breaker.go implements the modeless AdmissionPolicy: each *)
(* critical section is one step of the policy.                             *)
(***************************************************************************)
THEOREM PolicyImplemented == Spec => ImplementsPolicy
<1>1. Init => Policy!Init
  BY DEF Init, NewBreaker, InFlight, Policy!Init
<1>2. ASSUME IInv, [Next]_vars PROVE [Policy!Next]_Policy!vars
  <2>1. Consistent(breaker)
    BY <1>2, IInvIsConsistent
  <2>2. call \in [Caller -> {"idle", "CLOSED", "HALF-OPEN"}]
    BY <1>2 DEF IInv, TypeOK
  <2>3. ASSUME NEW c \in Caller, Start(c) PROVE Policy!Begin(c)
    <3>1. /\ call[c] = "idle"
          /\ breaker.failures < MaxFailures \/ breaker.quiet > Timeout
      BY <2>1, <2>3, AdmitsIsModeless DEF Start
    <3>2. /\ breaker'.failures = breaker.failures
          /\ breaker'.quiet = breaker.quiet
          /\ call'[c] # "idle"
      BY <2>1, <2>2, <2>3, AdmitConsistent DEF Start
    <3>3. InFlight' = InFlight \cup {c}
      BY <2>2, <2>3, <3>2 DEF Start, InFlight
    <3>4. QED
      BY <2>3, <3>1, <3>2, <3>3 DEF Start, InFlight, Policy!Begin, Policy!Allowed
  <2>4. ASSUME NEW c \in Caller, Reject(c) PROVE Policy!Refuse(c)
    BY <2>1, <2>4, AdmitsIsModeless DEF Reject, InFlight, Policy!Refuse, Policy!Allowed
  <2>5. ASSUME NEW c \in Caller, Succeed(c) PROVE Policy!EndWell(c)
    <3>1. InFlight' = InFlight \ {c}
      BY <2>2, <2>5 DEF Succeed, InFlight
    <3>2. QED
      BY <2>1, <2>5, <3>1, RecordSuccessConsistent DEF Succeed, InFlight, Policy!EndWell
  <2>6. ASSUME NEW c \in Caller, Fail(c) PROVE Policy!EndBadly(c)
    <3>1. InFlight' = InFlight \ {c}
      BY <2>2, <2>6 DEF Fail, InFlight
    <3>2. QED
      BY <2>1, <2>6, <3>1, RecordFailureConsistent
         DEF Fail, InFlight, CountFailure, Policy!EndBadly
  <2>7. CASE Tick
    BY <2>1, <2>7, ElapseConsistent DEF Tick, InFlight, Policy!Wait, Policy!Next
  <2>8. CASE UNCHANGED vars
    BY <2>8 DEF vars, InFlight, Policy!vars
  <2>9. QED
    BY <1>2, <2>3, <2>4, <2>5, <2>6, <2>7, <2>8 DEF Next, Policy!Next
<1>3. QED
  BY <1>1, <1>2, Invariance, PTL DEF Spec, ImplementsPolicy, Policy!Spec
=============================================================================
