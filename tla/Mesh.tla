-------------------------------- MODULE Mesh --------------------------------
(***************************************************************************)
(* The Envoy in front of each service (mesh/envoy-*.yml): a call of a      *)
(* client becomes up to NumRetries + 1 tries, of which the last counts.    *)
(* A try that is given up, because it took longer than per_try_timeout or  *)
(* its connection was reset, may still be served: the handlers do not bind *)
(* their queries to the request's context.                                 *)
(*                                                                         *)
(* There is no clock.  The route's timeout of ten seconds can only end the *)
(* last of four tries of at most three seconds, and a try may time out at  *)
(* any moment here.                                                        *)
(***************************************************************************)
EXTENDS Naturals, FiniteSets

CONSTANTS
  Call,        \* the calls that may be open at a time
  NumRetries,  \* num_retries (3)
  MaxRetries,  \* max_retries of the cluster (3)
  Answer,      \* what a service may answer, other than 5xx
  Faults       \* what may go wrong

ASSUME NumRetriesAssumption == NumRetries \in Nat
ASSUME MaxRetriesAssumption == MaxRetries \in Nat
ASSUME AnswerAssumption == {"none", "run", "error"} \cap Answer = {}
ASSUME FaultsAssumption ==
  Faults \subseteq {"slow",     \* no answer comes in time
                    "error",    \* a service or its database fails
                    "hangup"}   \* the client goes away

VARIABLES
  tries,   \* the tries made for each call, 0 if nobody waits for an answer
  stage    \* the state of each try: "none", "run", or the answer to it

mesh == <<tries, stage>>

Try == Call \X (1 .. NumRetries + 1)

MeshTypeOK ==
  /\ tries \in [Call -> 0 .. NumRetries + 1]
  /\ stage \in [Try -> {"none", "run", "error"} \cup Answer]

MeshInit ==
  /\ tries = [c \in Call |-> 0]
  /\ stage = [t \in Try |-> "none"]

Pending(c) == tries[c] > 0
Latest(c) == <<c, tries[c]>>
TriesOf(c) == {c} \X (1 .. NumRetries + 1)

\* Nothing is left of the call that was made last with c.
Free(c) == ~ Pending(c) /\ \A t \in TriesOf(c) : stage[t] = "none"

\* A client makes the call c.
Open(c) ==
  /\ Free(c)
  /\ tries' = [tries EXCEPT ![c] = 1]
  /\ stage' = [stage EXCEPT ![<<c, 1>>] = "run"]

\* The service answers the try t, whose answer may not be awaited any more.
Finish(t, answer) ==
  /\ stage[t] = "run"
  /\ stage' = [stage EXCEPT ![t] = IF t = Latest(t[1]) THEN answer ELSE "none"]
  /\ UNCHANGED tries

\* The service cannot be reached, dies, or answers 5xx.
TryFails(t) == "error" \in Faults /\ Finish(t, "error")

\* The tries of these calls count no more; those not served yet may still be.
Abandon(C) ==
  [t \in Try |-> IF t[1] \in C /\ stage[t] # "run" THEN "none" ELSE stage[t]]

Failed(c) == stage[Latest(c)] = "error" \/ "slow" \in Faults

MayRetryForever(c) ==
  Cardinality({d \in Call \ {c} : tries[d] > 1}) < MaxRetries

\* Neither the call nor the cluster has used up its retries.
MayRetry(c) ==
  /\ tries[c] <= NumRetries
  /\ Cardinality({d \in Call \ {c} : tries[d] > 1}) < MaxRetries

Retry(c) ==
  /\ Pending(c) /\ Failed(c) /\ MayRetry(c)
  /\ stage' = [Abandon({c}) EXCEPT ![<<c, tries[c] + 1>>] = "run"]
  /\ tries' = [tries EXCEPT ![c] = @ + 1]

\* The clients of these calls are told nothing any more.
Close(C) ==
  /\ tries' = [c \in Call |-> IF c \in C THEN 0 ELSE tries[c]]
  /\ stage' = Abandon(C)

\* The client gets the answer.
Forward(c) ==
  /\ Pending(c) /\ stage[Latest(c)] \in Answer
  /\ Close({c})

\* The client gets an error of the service or of Envoy.
GiveUp(c) ==
  /\ Pending(c) /\ Failed(c) /\ ~ MayRetry(c)
  /\ Close({c})

\* The client of c does not wait any longer.
Hangup(c) == "hangup" \in Faults /\ Pending(c) /\ Close({c})
=============================================================================
