---------------------------- MODULE MeshTheorems ----------------------------
(***************************************************************************)
(* Lemmas about Mesh that the proofs of its users rest on: which tries may *)
(* hold an answer, and how the actions of a call and of a try change that. *)
(***************************************************************************)
EXTENDS Mesh, TLAPS

\* Only the last try of a call has an answer, and none comes after it.
Orderly ==
  /\ MeshTypeOK
  /\ \A t \in Try : t # Latest(t[1]) => stage[t] \in {"none", "run"}
  /\ \A t \in Try : Pending(t[1]) /\ t[2] > tries[t[1]] => stage[t] = "none"

LEMMA TryFacts ==
  /\ \A t \in Try : t[1] \in Call /\ t[2] \in 1 .. NumRetries + 1 /\ t = <<t[1], t[2]>>
  /\ \A c \in Call : \A n \in 1 .. NumRetries + 1 :
       <<c, n>> \in Try /\ <<c, n>>[1] = c /\ <<c, n>>[2] = n
  /\ \A c \in Call : \A t : t \in TriesOf(c) <=> t \in Try /\ t[1] = c
  BY DEF Try, TriesOf

LEMMA LatestIsTry ==
  ASSUME MeshTypeOK, NEW c \in Call, Pending(c)
  PROVE  Latest(c) \in Try /\ Latest(c)[1] = c /\ Latest(c)[2] = tries[c]
  BY TryFacts, NumRetriesAssumption DEF MeshTypeOK, Pending, Latest

(* A call with a try that is not over is not free.                         *)
LEMMA BusyCall ==
  /\ \A t \in Try : stage[t] # "none" => ~ Free(t[1])
  /\ \A t \in Try : stage'[t] # "none" => ~ Free(t[1])'
  BY TryFacts DEF Free

(* Once opened, a call has one try.                                        *)
LEMMA OpenOrderly ==
  ASSUME Orderly, NEW c \in Call, Open(c)
  PROVE  /\ Orderly'
         /\ tries' = [tries EXCEPT ![c] = 1]
         /\ stage' = [stage EXCEPT ![<<c, 1>>] = "run"]
         /\ <<c, 1>> \in Try /\ ~ Free(c)'
         /\ \A d \in Call \ {c} : Free(d)' <=> Free(d)
         /\ \A t \in Try : stage'[t] # stage[t] => t[1] = c
         /\ \A t \in Try : t[1] = c => stage'[t] \in {"none", "run"}
<1> USE NumRetriesAssumption
<1>1. 1 \in 0 .. NumRetries + 1 /\ <<c, 1>> \in Try /\ <<c, 1>>[1] = c
  BY TryFacts
<1>2. MeshTypeOK'
  BY <1>1 DEF Orderly, MeshTypeOK, Open
<1>3. \A t \in Try : stage'[t] = IF t = <<c, 1>> THEN "run" ELSE stage[t]
  BY DEF Orderly, MeshTypeOK, Open
<1>4. \A d \in Call : tries'[d] = IF d = c THEN 1 ELSE tries[d]
  BY DEF Orderly, MeshTypeOK, Open
<1>5. \A t \in Try : t[1] = c => stage[t] = "none"
  BY TryFacts DEF Open, Free
<1>6. Orderly'
  <2>1. ASSUME NEW t \in Try, t # Latest(t[1])' PROVE stage'[t] \in {"none", "run"}
    <3>1. CASE t[1] = c
      BY <3>1, <1>3, <1>5
    <3>2. CASE t[1] # c
      BY <3>2, <2>1, <1>1, <1>3, <1>4, TryFacts DEF Orderly, Latest
    <3>3. QED
      BY <3>1, <3>2
  <2>2. ASSUME NEW t \in Try, Pending(t[1])', t[2] > tries'[t[1]]
        PROVE  stage'[t] = "none"
    <3>1. CASE t[1] = c
      <4>1. t[2] > 1
        BY <2>2, <3>1, <1>4, TryFacts
      <4>2. t # <<c, 1>>
        BY <4>1
      <4>3. QED
        BY <3>1, <4>2, <1>3, <1>5
    <3>2. CASE t[1] # c
      BY <3>2, <2>2, <1>1, <1>3, <1>4, TryFacts DEF Orderly, Pending
    <3>3. QED
      BY <3>1, <3>2
  <2>3. QED
    BY <1>2, <2>1, <2>2 DEF Orderly
<1>7. ~ Free(c)'
  BY <1>1, <1>3, BusyCall
<1>8. \A d \in Call \ {c} : Free(d)' <=> Free(d)
  BY <1>1, <1>3, <1>4, TryFacts DEF Free, Pending
<1>9. QED
  BY <1>1, <1>3, <1>5, <1>6, <1>7, <1>8 DEF Open

(* The end of a try changes that try only.                                 *)
LEMMA FinishOrderly ==
  ASSUME Orderly, NEW t \in Try, NEW answer \in Answer \cup {"error"}, Finish(t, answer)
  PROVE  /\ Orderly'
         /\ \A s \in Try \ {t} : stage'[s] = stage[s]
         /\ stage'[t] \in {"none", answer}
         /\ Pending(t[1]) /\ t = Latest(t[1]) => stage'[t] = answer
         /\ \A c \in Call : ~ Free(c)' => ~ Free(c)
<1>1. stage'[t] \in {"none", answer} /\ (t # Latest(t[1]) => stage'[t] = "none")
  BY DEF Orderly, MeshTypeOK, Finish
<1>2. \A s \in Try \ {t} : stage'[s] = stage[s]
  BY DEF Orderly, MeshTypeOK, Finish
<1>3. MeshTypeOK'
  <2> DEFINE x == IF t = Latest(t[1]) THEN answer ELSE "none"
  <2>1. x \in {"none", "run", "error"} \cup Answer
    OBVIOUS
  <2>2. stage' = [stage EXCEPT ![t] = x]
    BY DEF Finish
  <2> HIDE DEF x
  <2>3. QED
    BY <2>1, <2>2 DEF Orderly, MeshTypeOK, Finish
<1>4. Orderly'
  <2>1. ASSUME NEW s \in Try, s # Latest(s[1])' PROVE stage'[s] \in {"none", "run"}
    BY <1>1, <1>2, <2>1 DEF Orderly, Finish, Latest
  <2>2. ASSUME NEW s \in Try, Pending(s[1])', s[2] > tries'[s[1]]
        PROVE  stage'[s] = "none"
    <3>1. stage[s] = "none"
      BY <2>2 DEF Orderly, Finish, Pending
    <3>2. QED
      BY <3>1, <1>2 DEF Finish
  <2>3. QED
    BY <1>3, <2>1, <2>2 DEF Orderly
<1>5. \A c \in Call : ~ Free(c)' => ~ Free(c)
  <2>1. \A s \in Try : stage'[s] # "none" => stage[s] # "none"
    BY <1>2 DEF Finish
  <2>2. QED
    BY <2>1, TryFacts DEF Free, Pending, Finish
<1>6. QED
  BY <1>1, <1>2, <1>4, <1>5 DEF Orderly, MeshTypeOK, Finish

LEMMA AbandonFacts ==
  ASSUME NEW C \in SUBSET Call, Orderly
  PROVE  /\ Abandon(C) \in [Try -> {"none", "run", "error"} \cup Answer]
         /\ \A t \in Try : Abandon(C)[t] \in {stage[t], "none"}
         /\ \A t \in Try : t[1] \in C => Abandon(C)[t] \in {"none", "run"}
         /\ \A t \in Try : t[1] \notin C => Abandon(C)[t] = stage[t]
  BY DEF Abandon, Orderly, MeshTypeOK

(* The next try is running, the earlier ones have no answer.               *)
LEMMA RetryOrderly ==
  ASSUME Orderly, NEW c \in Call, Retry(c)
  PROVE  /\ Orderly'
         /\ tries' = [tries EXCEPT ![c] = @ + 1] /\ tries'[c] > 1
         /\ \A t \in Try : stage'[t] # stage[t] => t[1] = c
         /\ \A t \in Try : t[1] = c => stage'[t] \in {"none", "run"}
         /\ \A d \in Call : Free(d)' <=> Free(d)
<1> USE NumRetriesAssumption
<1> DEFINE n == tries[c] + 1
<1>1. n \in 2 .. NumRetries + 1 /\ <<c, n>> \in Try
  <2>1. n \in 2 .. NumRetries + 1
    BY DEF Orderly, MeshTypeOK, Retry, MayRetry, Pending
  <2>2. QED
    BY <2>1, TryFacts
<1>2. /\ \A t \in Try \ {<<c, n>>} : stage'[t] = Abandon({c})[t]
      /\ stage'[<<c, n>>] = "run"
  BY <1>1, AbandonFacts DEF Retry
<1>3. \A d \in Call : tries'[d] = IF d = c THEN n ELSE tries[d]
  BY DEF Orderly, MeshTypeOK, Retry
<1>4. MeshTypeOK'
  <2>1. stage' \in [Try -> {"none", "run", "error"} \cup Answer]
    <3> DEFINE f == Abandon({c})
    <3>1. f \in [Try -> {"none", "run", "error"} \cup Answer]
      BY AbandonFacts
    <3>2. stage' = [f EXCEPT ![<<c, n>>] = "run"]
      BY DEF Retry
    <3> HIDE DEF f
    <3>3. QED
      BY <3>1, <3>2
  <2>2. tries' \in [Call -> 0 .. NumRetries + 1]
    BY <1>1 DEF Orderly, MeshTypeOK, Retry
  <2>3. QED
    BY <2>1, <2>2 DEF MeshTypeOK
<1>5. /\ \A t \in Try : t[1] = c => stage'[t] \in {"none", "run"}
      /\ \A t \in Try : t[1] # c => stage'[t] = stage[t]
  BY <1>2, AbandonFacts, TryFacts
<1>6. Orderly'
  <2>1. ASSUME NEW t \in Try, t # Latest(t[1])' PROVE stage'[t] \in {"none", "run"}
    BY <2>1, <1>3, <1>5, TryFacts DEF Orderly, Latest
  <2>2. ASSUME NEW t \in Try, Pending(t[1])', t[2] > tries'[t[1]]
        PROVE  stage'[t] = "none"
    <3>1. CASE t[1] = c
      <4>1. t[2] > n
        BY <2>2, <3>1, <1>3, TryFacts
      <4>2. t # <<c, n>> /\ t[2] > tries[c]
        BY <4>1, <1>1, TryFacts DEF Orderly, MeshTypeOK
      <4>3. stage[t] = "none"
        BY <3>1, <4>2 DEF Orderly, Retry
      <4>4. QED
        BY <4>2, <4>3, <1>2, AbandonFacts
    <3>2. CASE t[1] # c
      BY <3>2, <2>2, <1>3, <1>5, TryFacts DEF Orderly, Pending
    <3>3. QED
      BY <3>1, <3>2
  <2>3. QED
    BY <1>4, <2>1, <2>2 DEF Orderly
<1>7. \A d \in Call : Free(d)' <=> Free(d)
  <2>1. Pending(c) /\ Pending(c)'
    BY <1>1, <1>3 DEF Retry, Pending
  <2>2. ASSUME NEW d \in Call, d # c PROVE Free(d)' <=> Free(d)
    BY <2>2, <1>3, <1>5, TryFacts DEF Free, Pending
  <2>3. QED
    BY <2>1, <2>2 DEF Free
<1>8. tries'[c] > 1
  BY <1>1, <1>3
<1>9. \A t \in Try : stage'[t] # stage[t] => t[1] = c
  BY <1>5
<1>10. tries' = [tries EXCEPT ![c] = @ + 1]
  BY DEF Retry
<1>11. QED
  BY <1>5, <1>6, <1>7, <1>8, <1>9, <1>10

(* Calls that are closed keep the tries that run, and no answer.           *)
LEMMA CloseOrderly ==
  ASSUME Orderly, NEW C \in SUBSET Call, Close(C)
  PROVE  /\ Orderly'
         /\ \A c \in Call : tries'[c] = IF c \in C THEN 0 ELSE tries[c]
         /\ \A t \in Try : stage'[t] \in {stage[t], "none"}
         /\ \A t \in Try : t[1] \in C => stage'[t] \in {"none", "run"}
         /\ \A t \in Try : t[1] \notin C => stage'[t] = stage[t]
         /\ \A c \in Call : ~ Free(c)' => ~ Free(c)
<1>1. \A c \in Call : tries'[c] = IF c \in C THEN 0 ELSE tries[c]
  BY DEF Close
<1>2. /\ \A t \in Try : stage'[t] \in {stage[t], "none"}
      /\ \A t \in Try : t[1] \in C => stage'[t] \in {"none", "run"}
      /\ \A t \in Try : t[1] \notin C => stage'[t] = stage[t]
  BY AbandonFacts DEF Close
<1>3. MeshTypeOK'
  <2>1. tries' \in [Call -> 0 .. NumRetries + 1]
    BY NumRetriesAssumption DEF Close, Orderly, MeshTypeOK
  <2>2. QED
    BY <2>1, AbandonFacts DEF Close, MeshTypeOK
<1>4. Orderly'
  <2>1. ASSUME NEW t \in Try, t # Latest(t[1])' PROVE stage'[t] \in {"none", "run"}
    BY <2>1, <1>1, <1>2, TryFacts DEF Orderly, Latest
  <2>2. ASSUME NEW t \in Try, Pending(t[1])', t[2] > tries'[t[1]]
        PROVE  stage'[t] = "none"
    BY <2>2, <1>1, <1>2, TryFacts DEF Orderly, Pending
  <2>3. QED
    BY <1>3, <2>1, <2>2 DEF Orderly
<1>5. \A c \in Call : ~ Free(c)' => ~ Free(c)
  <2>1. \A c \in Call : Pending(c)' => Pending(c)
    BY <1>1 DEF Pending
  <2>2. QED
    BY <2>1, <1>2, TryFacts DEF Free
<1>6. QED
  BY <1>1, <1>2, <1>4, <1>5
=============================================================================
