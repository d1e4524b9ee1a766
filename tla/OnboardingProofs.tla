-------------------------- MODULE OnboardingProofs --------------------------
(***************************************************************************)
(* Theorems about Onboarding, for any users, calls, retries, steps and     *)
(* faults.  What the page shows, and what an answer lets it show, is among *)
(* the steps its user's profile was at; a request asks for the step after  *)
(* those, unless it was made behind another user's step; and a user who is *)
(* to blame for nothing has one request under way, for the row's step or   *)
(* the next one.  The refinement needs that a try makes one claim at most, *)
(* and the bound of one pack that nobody asks again after a claim.         *)
(***************************************************************************)
EXTENDS Onboarding, MeshTheorems

StoreOK ==
  /\ row \in [User -> Step \cup {0}] /\ past \in [User -> SUBSET Step]
  /\ claims \in [User -> SUBSET Try] /\ packs \in [User -> 0 .. PackCap]
  /\ \A u \in User : IF row[u] = 0 THEN past[u] = {} ELSE {1, row[u]} \subseteq past[u]

PageOK ==
  /\ accounts \subseteq User /\ loads \subseteq User
  /\ token \in Somebody /\ screen \in {"auth", "dashboard"}
  /\ step \in Step /\ shown \in Somebody /\ hidden \in BOOLEAN
  /\ step \in IF shown = "nobody" THEN {1} ELSE past[shown]
  /\ hidden <=> step = LastStep

CallsOK ==
  /\ who \in [Call -> Somebody] /\ asks \in [Call -> 0 .. LastStep]
  /\ made \in 0 .. MaxCalls
  /\ blame \in [User -> SUBSET Causes]

\* A PATCH that succeeds has written its step.
Served ==
  \A t \in Try : stage[t] = "ok" /\ asks[t[1]] # 0 =>
    who[t[1]] \in User /\ asks[t[1]] \in past[who[t[1]]]

Patch(c, u) == who[c] = u /\ asks[c] # 0

NoSkip ==
  \A u \in User : "stranger" \notin blame[u] =>
    /\ \A s \in past[u] : 1 .. s \subseteq past[u]
    /\ \A c \in Call : Patch(c, u) => 1 .. (asks[c] - 1) \subseteq past[u] \cup {1}

NoBack ==
  \A u \in User : blame[u] \cap Clicks = {} =>
    \A c \in Call : Patch(c, u) =>
      /\ row[u] # 0 /\ asks[c] \in {row[u], row[u] + 1}
      /\ \A d \in Call : Patch(d, u) => d = c

\* A try that made a claim runs no more.
ClaimedOnce ==
  \A u \in User : \A t \in claims[u] :
    stage[t] # "run" /\ (Pending(t[1]) => t[2] <= tries[t[1]])

Parts == PageOK /\ CallsOK /\ Served /\ NoSkip /\ NoBack /\ ClaimedOnce

IInv == Orderly /\ StoreOK /\ Parts

-----------------------------------------------------------------------------
LEMMA StepFacts ==
  /\ 1 \in Step /\ LastStep \in Step /\ 0 \notin Step
  /\ \A s \in Step : s \in Nat /\ (s # LastStep => s + 1 \in Step /\ s < LastStep)
  /\ \A s \in 0 .. LastStep : s # 0 => s \in Step
  BY LastStepAssumption DEF Step

LEMMA IInvTypes == IInv => TypeOK
<1> SUFFICES ASSUME IInv PROVE TypeOK
  OBVIOUS
<1>1. asks \in [Call -> 0 .. LastStep + 1]
  <2>1. 0 .. LastStep \subseteq 0 .. LastStep + 1
    BY LastStepAssumption
  <2>2. QED
    BY <2>1 DEF IInv, Parts, CallsOK
<1>2. QED
  BY <1>1 DEF IInv, Orderly, Parts, StoreOK, PageOK, CallsOK, TypeOK

LEMMA InitIInv == Init => IInv
<1> SUFFICES ASSUME Init PROVE IInv
  OBVIOUS
<1> USE StepFacts DEF Init, MeshInit
<1>1. Orderly
  BY NumRetriesAssumption DEF Orderly, MeshTypeOK
<1>2. StoreOK
  BY PackCapAssumption DEF StoreOK
<1>3. PageOK
  <2>1. LastStep # 1
    BY LastStepAssumption
  <2>2. QED
    BY <2>1 DEF PageOK, Somebody
<1>4. CallsOK
  BY LastStepAssumption, MaxCallsAssumption DEF CallsOK, Somebody
<1>5. Served /\ NoSkip /\ NoBack /\ ClaimedOnce
  BY DEF Served, NoSkip, NoBack, ClaimedOnce, Patch
<1>6. QED
  BY <1>1, <1>2, <1>3, <1>4, <1>5 DEF IInv, Parts

(* A call is remembered while one of its tries is not over.                *)
LEMMA ForgetFacts ==
  ASSUME Forget
  PROVE  /\ \A c \in Call : ~ Free(c)' => who'[c] = who[c] /\ asks'[c] = asks[c]
         /\ \A c \in Call : \A u \in User : Patch(c, u)' => Patch(c, u) /\ asks'[c] = asks[c]
         /\ CallsOK /\ blame' = blame => CallsOK'
<1>1. \A c \in Call : \/ who'[c] = who[c] /\ asks'[c] = asks[c] /\ ~ Free(c)'
                      \/ who'[c] = "nobody" /\ asks'[c] = 0 /\ Free(c)'
  BY DEF Forget
<1>2. CallsOK /\ blame' = blame => CallsOK'
  <2> SUFFICES ASSUME CallsOK, blame' = blame PROVE CallsOK'
    OBVIOUS
  <2>1. who' \in [Call -> Somebody]
    BY DEF Forget, CallsOK, Somebody
  <2>2. asks' \in [Call -> 0 .. LastStep]
    BY LastStepAssumption DEF Forget, CallsOK
  <2>3. QED
    BY <2>1, <2>2 DEF Forget, CallsOK
<1>3. QED
  BY <1>1, <1>2, UserAssumption DEF Patch

(* What calls ask for stays in order when some are over and nothing else   *)
(* happens to the profiles.                                                *)
LEMMA OrderKept ==
  ASSUME NoSkip, NoBack, UNCHANGED <<row, past, blame>>,
         \A c \in Call : \A u \in User : Patch(c, u)' => Patch(c, u) /\ asks'[c] = asks[c]
  PROVE  NoSkip' /\ NoBack'
<1>1. NoSkip'
  BY DEF NoSkip
<1>2. NoBack'
  BY DEF NoBack
<1>3. QED
  BY <1>1, <1>2

(* Answers stay true while the profiles' histories grow.                   *)
LEMMA ServedKept ==
  ASSUME Served, Forget, \A u \in User : past[u] \subseteq past'[u],
         \A t \in Try : stage'[t] = "ok" => stage[t] = "ok"
  PROVE  Served'
<1> SUFFICES ASSUME NEW t \in Try, stage'[t] = "ok", asks'[t[1]] # 0
             PROVE  who'[t[1]] \in User /\ asks'[t[1]] \in past'[who'[t[1]]]
  BY DEF Served
<1>1. who'[t[1]] = who[t[1]] /\ asks'[t[1]] = asks[t[1]]
  BY BusyCall, ForgetFacts, TryFacts
<1>2. QED
  BY <1>1 DEF Served

LEMMA PageKept ==
  ASSUME PageOK, UNCHANGED <<accounts, page>>, \A u \in User : past[u] \subseteq past'[u]
  PROVE  PageOK'
<1>1. UNCHANGED <<accounts, token, screen, step, shown, hidden, loads>>
  BY DEF page
<1>2. step' \in IF shown' = "nobody" THEN {1} ELSE past'[shown']
  BY <1>1 DEF PageOK, Somebody
<1>3. QED
  BY <1>1, <1>2 DEF PageOK

LEMMA StepperOK ==
  ASSUME StoreOK, PageOK, NEW u \in User, NEW s \in past[u], Stepper(u, s), past' = past
  PROVE  /\ step' \in Step /\ shown' \in Somebody /\ hidden' \in BOOLEAN
         /\ step' \in IF shown' = "nobody" THEN {1} ELSE past'[shown']
         /\ hidden' <=> step' = LastStep
<1>1. s \in Step /\ u # "nobody" /\ u \in Somebody
  BY UserAssumption DEF StoreOK, Somebody
<1>2. QED
  BY <1>1 DEF Stepper

-----------------------------------------------------------------------------
(* A try that writes the step it asks for, or the first one.               *)
LEMMA PutIInv ==
  ASSUME IInv, NEW t \in Try, stage[t] = "run",
         NEW u \in User, who[t[1]] = u, NEW s \in Step, Put(u, s),
         NEW answer \in {"ok", "error"}, Finish(t, answer),
         Forget, UNCHANGED <<packs, accounts, page, blame>>,
         claims' = claims \/ claims' = [claims EXCEPT ![u] = @ \cup {t}],
         IF asks[t[1]] = 0 THEN row[u] = 0 /\ s = 1 ELSE row[u] # 0 /\ s = asks[t[1]]
  PROVE  IInv'
<1> DEFINE c == t[1]
<1>1. /\ Orderly'
      /\ \A r \in Try \ {t} : stage'[r] = stage[r]
      /\ stage'[t] \in {"none", answer}
      /\ tries' = tries
  BY ServiceAnswers, FinishOrderly DEF IInv, Finish
<1>2. c \in Call /\ t[2] \in Nat /\ tries[c] \in Nat
  BY TryFacts, NumRetriesAssumption DEF IInv, Orderly, MeshTypeOK
<1>3. /\ \A v \in User : row'[v] = IF v = u THEN s ELSE row[v]
      /\ \A v \in User : past'[v] = IF v = u THEN past[u] \cup {s} ELSE past[v]
      /\ \A v \in User : past[v] \subseteq past'[v]
  BY DEF Put, IInv, StoreOK
<1>4. StoreOK'
  <2>1. row' \in [User -> Step \cup {0}] /\ past' \in [User -> SUBSET Step]
    BY DEF Put, IInv, StoreOK
  <2>2. claims' \in [User -> SUBSET Try]
    BY DEF IInv, StoreOK
  <2>3. \A v \in User : IF row'[v] = 0 THEN past'[v] = {}
                        ELSE {1, row'[v]} \subseteq past'[v]
    <3>1. s # 0 /\ {1, s} \subseteq past[u] \cup {s}
      BY StepFacts DEF IInv, StoreOK
    <3>2. QED
      BY <1>3, <3>1 DEF IInv, StoreOK
  <2>4. QED
    BY <2>1, <2>2, <2>3 DEF IInv, StoreOK
<1>5. PageOK'
  BY <1>3, PageKept DEF IInv, Parts
<1>6. CallsOK'
  BY ForgetFacts DEF IInv, Parts
<1>7. Served'
  <2> SUFFICES ASSUME NEW r \in Try, stage'[r] = "ok", asks'[r[1]] # 0
               PROVE  who'[r[1]] \in User /\ asks'[r[1]] \in past'[who'[r[1]]]
    BY DEF Served
  <2>1. who'[r[1]] = who[r[1]] /\ asks'[r[1]] = asks[r[1]]
    BY BusyCall, ForgetFacts, TryFacts
  <2>2. CASE r = t
    BY <1>3, <2>1, <2>2
  <2>3. CASE r # t
    BY <1>1, <1>3, <2>1, <2>3 DEF IInv, Parts, Served
  <2>4. QED
    BY <2>2, <2>3
<1>8. NoSkip'
  <2> SUFFICES ASSUME NEW v \in User, "stranger" \notin blame[v]
               PROVE  /\ \A n \in past'[v] : 1 .. n \subseteq past'[v]
                      /\ \A d \in Call : Patch(d, v)' =>
                           1 .. (asks'[d] - 1) \subseteq past'[v] \cup {1}
    BY DEF NoSkip
  <2>1. /\ \A n \in past[v] : 1 .. n \subseteq past[v]
        /\ \A d \in Call : Patch(d, v) => 1 .. (asks[d] - 1) \subseteq past[v] \cup {1}
    BY DEF IInv, Parts, NoSkip
  <2>2. v = u => 1 .. s \subseteq past[u] \cup {s}
    <3>1. 1 .. s = (1 .. (s - 1)) \cup {s}
      BY StepFacts DEF Step
    <3>2. CASE asks[c] = 0
      BY <3>2, <3>1
    <3>3. CASE asks[c] # 0
      <4>1. 1 \in past[u]
        BY <3>3 DEF IInv, StoreOK
      <4>2. v = u => 1 .. (s - 1) \subseteq past[u] \cup {1}
        BY <1>2, <2>1, <3>3 DEF Patch
      <4>3. QED
        BY <3>1, <4>1, <4>2
    <3>4. QED
      BY <3>2, <3>3
  <2>3. \A n \in past'[v] : 1 .. n \subseteq past'[v]
    BY <1>3, <2>1, <2>2
  <2>4. \A d \in Call : Patch(d, v)' => 1 .. (asks'[d] - 1) \subseteq past'[v] \cup {1}
    BY <1>3, <2>1, ForgetFacts
  <2>5. QED
    BY <2>3, <2>4
<1>9. NoBack'
  <2> SUFFICES ASSUME NEW v \in User, blame[v] \cap Clicks = {}, NEW d \in Call, Patch(d, v)'
               PROVE  /\ row'[v] # 0 /\ asks'[d] \in {row'[v], row'[v] + 1}
                      /\ \A e \in Call : Patch(e, v)' => e = d
    BY DEF NoBack
  <2>1. Patch(d, v) /\ asks'[d] = asks[d] /\ \A e \in Call : Patch(e, v)' => Patch(e, v)
    BY ForgetFacts
  <2>2. /\ row[v] # 0 /\ asks[d] \in {row[v], row[v] + 1}
        /\ \A e \in Call : Patch(e, v) => e = d
    BY <2>1 DEF IInv, Parts, NoBack
  <2>3. v = u => c = d
    BY <1>2, <2>2 DEF Patch
  <2>4. QED
    BY <1>3, <2>1, <2>2, <2>3, StepFacts
<1>10. ClaimedOnce'
  <2>1. ASSUME NEW v \in User, NEW r \in claims'[v]
        PROVE  stage'[r] # "run" /\ (Pending(r[1])' => r[2] <= tries'[r[1]])
    <3>1. CASE r = t
      <4>1. Pending(c) => ~ t[2] > tries[c]
        BY DEF IInv, Orderly
      <4>2. QED
        BY <1>1, <1>2, <3>1, <4>1 DEF Pending
    <3>2. CASE r # t
      <4>1. r \in claims[v] /\ r \in Try
        BY <2>1, <3>2 DEF IInv, StoreOK
      <4>2. QED
        BY <1>1, <3>2, <4>1 DEF IInv, Parts, ClaimedOnce, Pending
    <3>3. QED
      BY <3>1, <3>2
  <2>2. QED
    BY <2>1 DEF ClaimedOnce
<1>11. QED
  BY <1>1, <1>4, <1>5, <1>6, <1>7, <1>8, <1>9, <1>10 DEF IInv, Parts

(* A try that ends and has written nothing, or gets an answer to a POST.   *)
LEMMA IdleIInv ==
  ASSUME IInv, NEW t \in Try, stage[t] = "run",
         NEW answer \in {"refused", "error"}, Finish(t, answer),
         Forget, UNCHANGED <<service, accounts, page, blame>>
  PROVE  IInv'
<1>1. /\ Orderly'
      /\ \A r \in Try \ {t} : stage'[r] = stage[r]
      /\ stage'[t] \in {"none", answer}
      /\ tries' = tries
  BY ServiceAnswers, FinishOrderly DEF IInv, Finish
<1>2. UNCHANGED <<row, past, claims, packs>>
  BY DEF service
<1>3. StoreOK' /\ PageOK' /\ CallsOK'
  BY <1>2, PageKept, ForgetFacts DEF IInv, Parts, StoreOK
<1>4. Served'
  BY <1>1, <1>2, ServedKept DEF IInv, Parts
<1>5. NoSkip' /\ NoBack'
  BY <1>2, ForgetFacts, OrderKept DEF IInv, Parts
<1>6. ClaimedOnce'
  BY <1>1, <1>2 DEF IInv, Parts, StoreOK, ClaimedOnce, Pending
<1>7. QED
  BY <1>1, <1>3, <1>4, <1>5, <1>6 DEF IInv, Parts

LEMMA ServeIInv ==
  ASSUME IInv, NEW t \in Try, Serve(t)
  PROVE  IInv'
<1>1. stage[t] = "run" /\ Forget /\ UNCHANGED <<accounts, page, blame>>
  BY DEF Serve
<1>2. t[1] \in Call /\ asks[t[1]] \in 0 .. LastStep
  BY TryFacts DEF IInv, Parts, CallsOK
<1>3. ASSUME NEW u \in User, who[t[1]] = u, Create(t, u) PROVE IInv'
  <2>1. PICK answer \in {"ok", "error"} : Finish(t, answer)
    BY <1>3 DEF Create, TryFails
  <2>2. asks[t[1]] = 0 /\ row[u] = 0 /\ Put(u, 1) /\ packs' = packs /\ claims' = claims
    BY <1>3 DEF Create
  <2>3. QED
    BY <1>1, <1>3, <2>1, <2>2, StepFacts, PutIInv
<1>4. ASSUME NEW u \in User, who[t[1]] = u, Update(t, u) \/ UpdateUnanswered(t, u)
      PROVE  IInv'
  <2>1. PICK answer \in {"ok", "error"} : Finish(t, answer)
    BY <1>4 DEF Update, UpdateUnanswered, TryFails
  <2>2. PICK s \in Step : s = asks[t[1]] /\ asks[t[1]] # 0
    BY <1>2, <1>4, StepFacts DEF Update, UpdateUnanswered
  <2>3. /\ row[u] # 0 /\ Put(u, s) /\ packs' = packs
        /\ claims' = claims \/ claims' = [claims EXCEPT ![u] = @ \cup {t}]
    BY <1>4, <2>2 DEF Update, UpdateUnanswered
  <2>4. QED
    BY <1>1, <1>4, <2>1, <2>2, <2>3, PutIInv
<1>5. ASSUME NEW u \in User, CreateAgain(t, u) \/ NotFound(t, u) PROVE IInv'
  <2>1. PICK answer \in {"refused", "error"} : Finish(t, answer)
    BY <1>5 DEF CreateAgain, NotFound
  <2>2. UNCHANGED service
    BY <1>5 DEF CreateAgain, NotFound
  <2>3. QED
    BY <1>1, <2>1, <2>2, IdleIInv
<1>6. CASE Unauthorized(t) \/ Fail(t)
  <2>1. PICK answer \in {"refused", "error"} : Finish(t, answer)
    BY <1>6 DEF Unauthorized, Fail, TryFails
  <2>2. UNCHANGED service
    BY <1>6 DEF Unauthorized, Fail
  <2>3. QED
    BY <1>1, <2>1, <2>2, IdleIInv
<1>7. QED
  BY <1>3, <1>4, <1>5, <1>6 DEF Serve, Handle

-----------------------------------------------------------------------------
(* Calls end, whatever the page makes of it.                               *)
LEMMA CloseIInv ==
  ASSUME IInv, NEW C \in SUBSET Call, Close(C), Forget,
         UNCHANGED <<service, blame>>, PageOK'
  PROVE  IInv'
<1>1. /\ Orderly'
      /\ \A c \in Call : tries'[c] = IF c \in C THEN 0 ELSE tries[c]
      /\ \A t \in Try : stage'[t] \in {stage[t], "none"}
  BY CloseOrderly DEF IInv
<1>2. UNCHANGED <<row, past, claims, packs>>
  BY DEF service
<1>3. StoreOK' /\ CallsOK'
  BY <1>2, ForgetFacts DEF IInv, Parts, StoreOK
<1>4. Served'
  BY <1>1, <1>2, ServedKept DEF IInv, Parts
<1>5. NoSkip' /\ NoBack'
  BY <1>2, ForgetFacts, OrderKept DEF IInv, Parts
<1>6. ClaimedOnce'
  <2>1. ASSUME NEW u \in User, NEW t \in claims[u]
        PROVE  stage'[t] # "run" /\ (Pending(t[1])' => t[2] <= tries'[t[1]])
    <3>1. t \in Try /\ t[1] \in Call
      BY TryFacts DEF IInv, StoreOK
    <3>2. QED
      BY <1>1, <3>1 DEF IInv, Parts, ClaimedOnce, Pending
  <2>2. QED
    BY <1>2, <2>1 DEF ClaimedOnce
<1>7. QED
  BY <1>1, <1>3, <1>4, <1>5, <1>6 DEF IInv, Parts

(* A call is made; a PATCH by a user to blame for nothing asks for the     *)
(* step after her row's, and one not made behind a stranger's step for one *)
(* whose predecessors she has been at.                                     *)
LEMMA AskIInv ==
  ASSUME IInv, NEW c \in Call, NEW u \in Somebody, NEW s \in 0 .. LastStep,
         Ask(c, u, s), UNCHANGED service, PageOK',
         blame' \in [User -> SUBSET Causes], \A v \in User : blame[v] \subseteq blame'[v],
         u \in User /\ s # 0 /\ "stranger" \notin blame'[u] =>
           1 .. (s - 1) \subseteq past[u] \cup {1},
         u \in User /\ s # 0 /\ blame'[u] \cap Clicks = {} =>
           row[u] # 0 /\ s = row[u] + 1 /\ ~ InFlight(u)
  PROVE  IInv'
<1>1. /\ Orderly'
      /\ tries' = [tries EXCEPT ![c] = 1]
      /\ \A d \in Call \ {c} : Free(d)' <=> Free(d)
      /\ \A t \in Try : stage'[t] # stage[t] => t[1] = c
      /\ \A t \in Try : t[1] = c => stage'[t] \in {"none", "run"}
  BY OpenOrderly DEF IInv, Ask
<1>2. UNCHANGED <<row, past, claims, packs>>
  BY DEF service
<1>3. /\ \A d \in Call : who'[d] = IF d = c THEN u ELSE who[d]
      /\ \A d \in Call : asks'[d] = IF d = c THEN s ELSE asks[d]
  BY DEF Ask, IInv, Parts, CallsOK
<1>4. StoreOK'
  BY <1>2 DEF IInv, StoreOK
<1>5. CallsOK'
  <2>1. made' \in 0 .. MaxCalls
    BY MaxCallsAssumption DEF Ask, IInv, Parts, CallsOK
  <2>2. QED
    BY <2>1 DEF Ask, IInv, Parts, CallsOK
<1>6. Served'
  BY <1>1, <1>2, <1>3, TryFacts DEF IInv, Parts, Served
<1>7. NoSkip'
  <2> SUFFICES ASSUME NEW v \in User, "stranger" \notin blame'[v]
               PROVE  /\ \A n \in past[v] : 1 .. n \subseteq past[v]
                      /\ \A d \in Call : Patch(d, v)' =>
                           1 .. (asks'[d] - 1) \subseteq past[v] \cup {1}
    BY <1>2 DEF NoSkip
  <2>1. /\ \A n \in past[v] : 1 .. n \subseteq past[v]
        /\ \A d \in Call : Patch(d, v) => 1 .. (asks[d] - 1) \subseteq past[v] \cup {1}
    BY DEF IInv, Parts, NoSkip
  <2>2. \A d \in Call : Patch(d, v)' => 1 .. (asks'[d] - 1) \subseteq past[v] \cup {1}
    BY <1>3, <2>1 DEF Patch
  <2>3. QED
    BY <2>1, <2>2
<1>8. NoBack'
  <2> SUFFICES ASSUME NEW v \in User, blame'[v] \cap Clicks = {}, NEW d \in Call, Patch(d, v)'
               PROVE  /\ row[v] # 0 /\ asks'[d] \in {row[v], row[v] + 1}
                      /\ \A e \in Call : Patch(e, v)' => e = d
    BY <1>2 DEF NoBack
  <2>1. blame[v] \cap Clicks = {}
    OBVIOUS
  <2>2. ASSUME v = u, s # 0 PROVE \A e \in Call : Patch(e, v)' => e = c
    BY <1>3, <2>2 DEF Patch, InFlight
  <2>3. CASE d = c
    <3>1. v = u /\ asks'[d] = s /\ s # 0
      BY <1>3, <2>3 DEF Patch
    <3>2. QED
      BY <2>2, <2>3, <3>1
  <2>4. CASE d # c
    <3>1. Patch(d, v) /\ asks'[d] = asks[d]
      BY <1>3, <2>4 DEF Patch
    <3>2. ~ Patch(c, v)'
      BY <1>3, <2>2, <2>4 DEF Patch
    <3>3. \A e \in Call : Patch(e, v)' => Patch(e, v)
      BY <1>3, <3>2 DEF Patch
    <3>4. QED
      BY <2>1, <3>1, <3>3 DEF IInv, Parts, NoBack
  <2>5. QED
    BY <2>3, <2>4
<1>9. ClaimedOnce'
  <2>1. ASSUME NEW v \in User, NEW t \in claims[v]
        PROVE  stage'[t] # "run" /\ (Pending(t[1])' => t[2] <= tries'[t[1]])
    <3>1. t \in Try /\ t[1] \in Call /\ t[1] # c
      BY TryFacts DEF Ask, IInv, StoreOK
    <3>2. stage'[t] = stage[t] /\ tries'[t[1]] = tries[t[1]]
      BY <1>1, <3>1 DEF IInv, Orderly, MeshTypeOK
    <3>3. QED
      BY <3>2 DEF IInv, Parts, ClaimedOnce, Pending
  <2>2. QED
    BY <1>2, <2>1 DEF ClaimedOnce
<1>10. QED
  BY <1>1, <1>4, <1>5, <1>6, <1>7, <1>8, <1>9 DEF IInv, Parts

(* Steps of the page that call nobody, of Grant and of LoseClaim, or none. *)
LEMMA QuietIInv ==
  ASSUME IInv, UNCHANGED <<mesh, row, past, calls, blame>>, PageOK',
         claims' \in [User -> SUBSET Try], packs' \in [User -> 0 .. PackCap],
         \A u \in User : claims'[u] \subseteq claims[u]
  PROVE  IInv'
<1>1. UNCHANGED <<tries, stage, row, past, who, asks, made, blame>>
  BY DEF mesh, calls
<1>2. Orderly' /\ StoreOK' /\ CallsOK'
  BY <1>1 DEF IInv, Parts, Orderly, MeshTypeOK, Latest, Pending, StoreOK, CallsOK
<1>3. Served' /\ NoSkip' /\ NoBack'
  BY <1>1 DEF IInv, Parts, Served, NoSkip, NoBack, Patch
<1>4. ClaimedOnce'
  BY <1>1 DEF IInv, Parts, ClaimedOnce, Pending
<1>5. QED
  BY <1>2, <1>3, <1>4 DEF IInv, Parts

LEMMA TryAgainIInv ==
  ASSUME IInv, NEW c \in Call, TryAgain(c)
  PROVE  IInv'
<1>1. /\ Orderly'
      /\ tries' = [tries EXCEPT ![c] = @ + 1]
      /\ \A t \in Try : stage'[t] # stage[t] => t[1] = c
      /\ \A t \in Try : t[1] = c => stage'[t] \in {"none", "run"}
  BY RetryOrderly DEF IInv, TryAgain
<1>2. /\ UNCHANGED <<row, past, claims, packs, who, asks, made, accounts>>
      /\ UNCHANGED page
  BY DEF TryAgain, service, calls
<1>3. /\ blame' \in [User -> SUBSET Causes]
      /\ \A u \in User : blame'[u] \cap Clicks = blame[u] \cap Clicks
  BY DEF TryAgain, IInv, Parts, CallsOK, Causes, Clicks
<1>4. StoreOK' /\ PageOK' /\ CallsOK'
  BY <1>2, <1>3, PageKept DEF IInv, Parts, StoreOK, CallsOK
<1>5. Served' /\ NoSkip' /\ NoBack'
  <2>1. Served' /\ NoBack'
    BY <1>1, <1>2, <1>3 DEF IInv, Parts, Served, NoBack, Patch
  <2>2. \A u \in User : "stranger" \notin blame'[u] => "stranger" \notin blame[u]
    BY <1>3 DEF Clicks
  <2>3. QED
    BY <1>2, <2>1, <2>2 DEF IInv, Parts, NoSkip, Patch
<1>6. ClaimedOnce'
  <2>1. ASSUME NEW u \in User, NEW t \in claims[u]
        PROVE  stage'[t] # "run" /\ (Pending(t[1])' => t[2] <= tries'[t[1]])
    <3>1. t \in Try /\ t[1] \in Call /\ t[2] \in Nat /\ t = <<t[1], t[2]>>
      BY TryFacts DEF IInv, StoreOK
    <3>2. stage[t] # "run" /\ (Pending(t[1]) => t[2] <= tries[t[1]])
      BY DEF IInv, Parts, ClaimedOnce
    <3>3. CASE t[1] # c
      <4>1. stage'[t] = stage[t] /\ tries'[t[1]] = tries[t[1]]
        BY <1>1, <3>1, <3>3 DEF IInv, Orderly, MeshTypeOK
      <4>2. QED
        BY <3>2, <4>1 DEF Pending
    <3>4. CASE t[1] = c
      <4> DEFINE n == tries[c] + 1
      <4>1. Pending(c) /\ tries[c] \in Nat /\ tries'[c] = n
        BY <1>1, NumRetriesAssumption DEF TryAgain, Retry, IInv, Orderly, MeshTypeOK
      <4>2. t[2] <= tries[c]
        BY <3>2, <3>4, <4>1
      <4>3. t # <<c, n>>
        BY <3>1, <4>1, <4>2
      <4>4. stage'[t] = Abandon({c})[t]
        BY <3>1, <4>3, AbandonFacts DEF TryAgain, Retry, IInv
      <4>5. stage'[t] # "run"
        BY <3>1, <3>2, <4>4, AbandonFacts DEF IInv
      <4>6. QED
        BY <3>1, <3>4, <4>1, <4>2, <4>5
    <3>5. QED
      BY <3>3, <3>4
  <2>2. QED
    BY <1>2, <2>1 DEF ClaimedOnce
<1>7. QED
  BY <1>1, <1>4, <1>5, <1>6 DEF IInv, Parts

-----------------------------------------------------------------------------
(* The steps of the page and of its calls.                                 *)
LEMMA RegisterIInv ==
  ASSUME IInv, NEW c \in Call, NEW u \in User, Register(c, u)
  PROVE  IInv'
<1>1. /\ Ask(c, u, 0) /\ UNCHANGED <<service, screen, step, shown, hidden, loads, blame>>
      /\ past' = past /\ token' = u /\ accounts' = accounts \cup {u}
  BY DEF Register, service
<1>2. PageOK'
  BY <1>1 DEF IInv, Parts, PageOK, Somebody
<1>3. PICK s \in 0 .. LastStep : s = 0
  BY LastStepAssumption
<1>4. u \in Somebody /\ blame' \in [User -> SUBSET Causes]
  BY <1>1 DEF Somebody, IInv, Parts, CallsOK
<1>5. QED
  BY <1>1, <1>2, <1>3, <1>4, AskIInv

LEMMA ClickIInv ==
  ASSUME IInv, NEW c \in Call, Click(c)
  PROVE  IInv'
<1> DEFINE u == token
<1>1. /\ Ask(c, u, step + 1) /\ UNCHANGED <<service, accounts, page>>
      /\ UNCHANGED <<row, past>>
  BY DEF Click, service
<1>2. PageOK'
  BY <1>1, PageKept DEF IInv, Parts
<1>3. /\ step \in Step /\ step # LastStep /\ u \in Somebody
      /\ step \in IF shown = "nobody" THEN {1} ELSE past[shown]
  BY DEF IInv, Parts, PageOK, Click
<1>4. PICK s \in 0 .. LastStep : s = step + 1
  BY <1>3, StepFacts DEF Step
<1>5. s - 1 = step
  BY <1>3, <1>4, StepFacts
<1>6. \A v \in User : blame'[v] = IF v = u THEN blame[v] \cup Why(v) ELSE blame[v]
  BY DEF Click
<1>7. blame' \in [User -> SUBSET Causes] /\ \A v \in User : blame[v] \subseteq blame'[v]
  BY <1>6 DEF Click, Why, Causes, IInv, Parts, CallsOK
<1>8. u \in User /\ "stranger" \notin blame'[u] => 1 .. step \subseteq past[u] \cup {1}
  <2> SUFFICES ASSUME u \in User, "stranger" \notin blame'[u]
               PROVE  1 .. step \subseteq past[u] \cup {1}
    OBVIOUS
  <2>1. shown \in {u, "nobody"} /\ "stranger" \notin blame[u]
    BY <1>6 DEF Why, Clicks
  <2>2. CASE shown = "nobody"
    BY <1>3, <2>2
  <2>3. CASE shown = u /\ shown # "nobody"
    BY <1>3, <2>1, <2>3 DEF IInv, Parts, NoSkip
  <2>4. QED
    BY <2>1, <2>2, <2>3
<1>9. u \in User /\ blame'[u] \cap Clicks = {} => row[u] # 0 /\ s = row[u] + 1 /\ ~ InFlight(u)
  <2> SUFFICES ASSUME u \in User, blame'[u] \cap Clicks = {}
               PROVE  row[u] # 0 /\ s = row[u] + 1 /\ ~ InFlight(u)
    OBVIOUS
  <2>1. "haste" \notin Why(u)
    BY <1>6 DEF Clicks
  <2>2. step = row[u] /\ ~ InFlight(u)
    BY <2>1 DEF Why, Clicks
  <2>3. QED
    BY <1>3, <1>4, <2>2, StepFacts
<1>10. QED
  <2>1. u \in User /\ s # 0 /\ "stranger" \notin blame'[u] =>
          1 .. (s - 1) \subseteq past[u] \cup {1}
    BY <1>5, <1>8
  <2>2. Ask(c, u, s)
    BY <1>1, <1>4
  <2> HIDE DEF u
  <2>3. QED
    BY <1>1, <1>2, <1>3, <1>7, <1>9, <2>1, <2>2, AskIInv

LEMMA AnsweredIInv ==
  ASSUME IInv, NEW c \in Call, Answered(c) \/ Break(c)
  PROVE  IInv'
<1>1. PageOK /\ StoreOK
  BY DEF IInv, Parts
<1>2. /\ Pending(c) /\ Close({c}) /\ Forget /\ UNCHANGED <<service, blame>>
      /\ past' = past
  BY DEF Answered, ProfileAnswer, Advance, Remain, Break, Forward, GiveUp, Hangup, service
<1>3. PageOK'
  <2>1. CASE ProfileAnswer(c)
    BY <1>1, <1>2, <2>1 DEF ProfileAnswer, Show, PageOK
  <2>2. CASE Advance(c)
    <3>1. Latest(c) \in Try /\ Latest(c)[1] = c
      BY <1>2, LatestIsTry DEF IInv, Orderly
    <3>2. who[c] \in User /\ asks[c] \in past[who[c]]
      BY <2>2, <3>1 DEF Advance, IInv, Parts, Served
    <3>3. Stepper(who[c], asks[c]) /\ UNCHANGED <<accounts, token, screen, loads>>
      BY <2>2 DEF Advance
    <3>4. QED
      BY <1>1, <1>2, <3>2, <3>3, StepperOK DEF PageOK
  <2>3. CASE Remain(c) \/ Break(c)
    BY <1>1, <1>2, <2>3, PageKept DEF Remain, Break
  <2>4. QED
    BY <2>1, <2>2, <2>3 DEF Answered
<1>4. QED
  BY <1>2, <1>3, CloseIInv

LEMMA ReloadIInv == IInv /\ Reload => IInv'
<1> SUFFICES ASSUME IInv, Reload PROVE IInv'
  OBVIOUS
<1> DEFINE C == {c \in Call : Pending(c)}
<1>1. Close(C) /\ Forget /\ UNCHANGED <<service, blame>>
  BY DEF Reload
<1>2. PageOK'
  <2>1. 1 # LastStep
    BY LastStepAssumption
  <2>2. QED
    BY <2>1, StepFacts DEF Reload, IInv, Parts, PageOK, Somebody
<1> HIDE DEF C
<1>3. C \in SUBSET Call
  BY DEF C
<1>4. QED
  BY <1>1, <1>2, <1>3, CloseIInv

LEMMA PageStepIInv ==
  ASSUME IInv, NEW u \in User, RegisterUnheard(u) \/ Login(u) \/ LoadAnswer(u)
  PROVE  IInv'
<1>1. PageOK /\ StoreOK
  BY DEF IInv, Parts
<1>2. UNCHANGED <<mesh, row, past, claims, packs, calls, blame>>
  BY DEF RegisterUnheard, Login, LoadAnswer, page, service
<1>3. PageOK'
  <2>1. CASE RegisterUnheard(u) \/ Login(u)
    BY <1>1, <1>2, <2>1 DEF RegisterUnheard, Login, Show, page, PageOK, Somebody
  <2>2. CASE LoadAnswer(u)
    <3>1. PICK s \in past[u] : Stepper(u, s)
      BY <2>2 DEF LoadAnswer
    <3>2. UNCHANGED <<accounts, token, screen>> /\ loads' \subseteq loads
      BY <2>2 DEF LoadAnswer
    <3>3. QED
      BY <1>1, <1>2, <3>1, <3>2, StepperOK DEF PageOK
  <2>3. QED
    BY <2>1, <2>2
<1>4. QED
  BY <1>1, <1>2, <1>3, QuietIInv DEF StoreOK

LEMMA ClaimIInv ==
  ASSUME IInv, NEW u \in User, NEW t \in Try, Grant(u, t) \/ LoseClaim(u, t)
  PROVE  IInv'
<1>1. PageOK /\ StoreOK
  BY DEF IInv, Parts
<1>2. UNCHANGED <<mesh, row, past, calls, blame, accounts, page>>
  BY DEF Grant, LoseClaim
<1>3. PageOK'
  BY <1>1, <1>2, PageKept
<1>4. /\ claims' \in [User -> SUBSET Try]
      /\ \A v \in User : claims'[v] \subseteq claims[v]
  BY <1>1 DEF Grant, LoseClaim, StoreOK
<1>5. packs' \in [User -> 0 .. PackCap]
  <2> DEFINE n == IF packs[u] < PackCap THEN packs[u] + 1 ELSE packs[u]
  <2>1. n \in 0 .. PackCap
    <3>1. packs[u] \in 0 .. PackCap
      BY <1>1 DEF StoreOK
    <3>2. QED
      BY <3>1, PackCapAssumption
  <2>2. packs' \in {packs, [packs EXCEPT ![u] = n]}
    BY DEF Grant, LoseClaim
  <2> HIDE DEF n
  <2>3. QED
    BY <1>1, <2>1, <2>2 DEF StoreOK
<1>6. QED
  BY <1>2, <1>3, <1>4, <1>5, QuietIInv

LEMMA NextIInv == IInv /\ [Next]_vars => IInv'
<1> SUFFICES ASSUME IInv, [Next]_vars PROVE IInv'
  OBVIOUS
<1>1. ASSUME NEW c \in Call, NEW u \in User, Register(c, u) PROVE IInv'
  BY <1>1, RegisterIInv
<1>2. ASSUME NEW c \in Call, Click(c) PROVE IInv'
  BY <1>2, ClickIInv
<1>3. ASSUME NEW c \in Call, Answered(c) \/ Break(c) PROVE IInv'
  BY <1>3, AnsweredIInv
<1>4. ASSUME NEW c \in Call, TryAgain(c) PROVE IInv'
  BY <1>4, TryAgainIInv
<1>5. ASSUME NEW t \in Try, Serve(t) PROVE IInv'
  BY <1>5, ServeIInv
<1>6. ASSUME NEW t \in Try, NEW u \in User, Grant(u, t) \/ LoseClaim(u, t) PROVE IInv'
  BY <1>6, ClaimIInv
<1>7. ASSUME NEW u \in User, RegisterUnheard(u) \/ Login(u) \/ LoadAnswer(u) PROVE IInv'
  BY <1>7, PageStepIInv
<1>8. CASE Logout \/ UNCHANGED vars
  <2>1. UNCHANGED <<mesh, row, past, claims, packs, calls, blame>>
    BY <1>8 DEF Logout, vars, mesh, service, calls
  <2>2. PageOK'
    BY <1>8, <2>1 DEF Logout, vars, IInv, Parts, PageOK, Somebody
  <2>3. QED
    BY <2>1, <2>2, QuietIInv DEF IInv, StoreOK
<1>9. CASE Reload
  BY <1>9, ReloadIInv
<1>10. QED
  BY <1>1, <1>2, <1>3, <1>4, <1>5, <1>6, <1>7, <1>8, <1>9 DEF Next

(* All parts of the invariant hold together.                               *)
THEOREM Invariance == Spec => []IInv
  BY InitIInv, NextIInv, PTL DEF Spec

(***************************************************************************)
(* Every reachable state of the dashboard and its calls is well typed.     *)
(***************************************************************************)
THEOREM TypeCorrect == Spec => []TypeOK
  BY IInvTypes, Invariance, PTL

(***************************************************************************)
(* For any users and calls, the page shows a step that was somebody's, and *)
(* no request goes beyond the last one (app.js:112-180).                   *)
(***************************************************************************)
THEOREM PageWasTrueCorrect == Spec => []PageWasTrue
<1>1. IInv => PageWasTrue
  BY LastStepAssumption DEF IInv, Parts, PageOK, CallsOK, PageWasTrue
<1>2. QED
  BY <1>1, Invariance, PTL

(***************************************************************************)
(* For any number of retries and late tries, who never clicked behind      *)
(* another user's step was at every step before hers (app.js:3, 145-166).  *)
(***************************************************************************)
THEOREM SkipHasCauseCorrect == Spec => []SkipHasCause
<1>1. IInv => SkipHasCause
  BY DEF IInv, Parts, NoSkip, SkipHasCause
<1>2. QED
  BY <1>1, Invariance, PTL

-----------------------------------------------------------------------------
(* What a try does to the table, if it does anything.                      *)
LEMMA ServeWrites ==
  ASSUME IInv, NEW t \in Try, Serve(t)
  PROVE  \/ UNCHANGED service
         \/ \E u \in User : \E s \in Step :
              /\ Put(u, s) /\ packs' = packs /\ stage[t] = "run"
              /\ \/ row[u] = 0 /\ s = 1 /\ claims' = claims
                 \/ /\ row[u] # 0 /\ Patch(t[1], u) /\ s = asks[t[1]]
                    /\ \/ claims' = claims
                       \/ s = LastStep /\ claims' = [claims EXCEPT ![u] = @ \cup {t}]
<1>1. asks[t[1]] # 0 => asks[t[1]] \in Step
  BY TryFacts, StepFacts DEF IInv, Parts, CallsOK
<1>2. ASSUME NEW u \in User, who[t[1]] = u, Create(t, u)
      PROVE  Put(u, 1) /\ packs' = packs /\ row[u] = 0 /\ claims' = claims
  BY <1>2 DEF Create
<1>3. ASSUME NEW u \in User, who[t[1]] = u, Update(t, u) \/ UpdateUnanswered(t, u)
      PROVE  /\ Put(u, asks[t[1]]) /\ packs' = packs /\ row[u] # 0 /\ Patch(t[1], u)
             /\ \/ claims' = claims
                \/ /\ asks[t[1]] = LastStep
                   /\ claims' = [claims EXCEPT ![u] = @ \cup {t}]
  BY <1>3 DEF Update, UpdateUnanswered, Patch
<1>4. ASSUME NEW u \in User, CreateAgain(t, u) \/ NotFound(t, u) PROVE UNCHANGED service
  BY <1>4 DEF CreateAgain, NotFound
<1>5. CASE Unauthorized(t) \/ Fail(t)
  BY <1>5 DEF Unauthorized, Fail
<1>6. stage[t] = "run" /\ 1 \in Step
  BY StepFacts DEF Serve
<1>7. QED
  <2>1. CASE \E u \in User \cap {who[t[1]]} : Create(t, u)
    BY <1>2, <1>6, <2>1
  <2>2. CASE \E u \in User \cap {who[t[1]]} : Update(t, u) \/ UpdateUnanswered(t, u)
    <3>1. PICK u \in User : who[t[1]] = u /\ (Update(t, u) \/ UpdateUnanswered(t, u))
      BY <2>2
    <3>2. asks[t[1]] \in Step
      BY <1>1, <3>1 DEF Update, UpdateUnanswered
    <3>3. QED
      BY <1>3, <1>6, <3>1, <3>2
  <2>3. QED
    BY <1>4, <1>5, <2>1, <2>2 DEF Serve, Handle

(* The other steps leave the table alone.                                  *)
LEMMA OthersRest ==
  ASSUME [Next]_vars
  PROVE  \/ \E t \in Try : \/ Serve(t)
                           \/ \E u \in User : Grant(u, t) \/ LoseClaim(u, t)
         \/ UNCHANGED service
<1>1. ASSUME NEW c \in Call, \/ \E u \in User : Register(c, u)
                             \/ Click(c) \/ Answered(c) \/ TryAgain(c) \/ Break(c)
      PROVE  UNCHANGED service
  BY <1>1 DEF Register, Click, Answered, ProfileAnswer, Advance, Remain, TryAgain, Break
<1>2. ASSUME NEW u \in User, RegisterUnheard(u) \/ Login(u) \/ LoadAnswer(u)
      PROVE  UNCHANGED service
  BY <1>2 DEF RegisterUnheard, Login, LoadAnswer
<1>3. CASE Logout \/ Reload \/ UNCHANGED vars
  BY <1>3 DEF Logout, Reload, vars, service
<1>4. QED
  BY <1>1, <1>2, <1>3 DEF Next

(***************************************************************************)
(* A user's row goes back only if she clicked on an outdated page or while *)
(* a request was under way: retries alone do no harm (user.go:142-150).    *)
(***************************************************************************)
THEOREM BackHasCauseCorrect == Spec => BackHasCause
<1> DEFINE OnlyBlamed ==
             \A u \in User : row'[u] < row[u] => blame[u] \cap Clicks # {}
<1>1. ASSUME IInv, [Next]_vars PROVE [OnlyBlamed]_vars
  <2>1. StoreOK
    BY <1>1 DEF IInv
  <2>2. \A u \in User : ~ (row[u] < row[u])
    BY <2>1, StepFacts DEF StoreOK
  <2>3. ASSUME row' = row PROVE OnlyBlamed
    BY <2>2, <2>3
  <2>4. ASSUME NEW t \in Try, Serve(t) PROVE OnlyBlamed
    <3>1. CASE UNCHANGED service
      BY <2>3, <3>1 DEF service
    <3>2. CASE ~ UNCHANGED service
      <4>1. PICK u \in User, s \in Step :
              /\ Put(u, s)
              /\ \/ row[u] = 0
                 \/ row[u] # 0 /\ Patch(t[1], u) /\ s = asks[t[1]]
        BY <1>1, <2>4, <3>2, ServeWrites
      <4>2. \A v \in User : row'[v] = IF v = u THEN s ELSE row[v]
        BY <2>1, <4>1 DEF Put, StoreOK
      <4>3. s < row[u] => blame[u] \cap Clicks # {}
        <5>1. CASE row[u] = 0
          BY <5>1, StepFacts DEF Step
        <5>2. CASE row[u] # 0 /\ blame[u] \cap Clicks = {}
          <6>1. s \in {row[u], row[u] + 1} /\ row[u] \in Nat
            BY <1>1, <2>1, <4>1, <5>2, TryFacts, StepFacts DEF IInv, Parts, NoBack, StoreOK
          <6>2. QED
            BY <6>1
        <5>3. QED
          BY <5>1, <5>2
      <4>4. QED
        BY <2>2, <4>2, <4>3
    <3>3. QED
      BY <3>1, <3>2
  <2>5. ASSUME NEW t \in Try, NEW u \in User, Grant(u, t) \/ LoseClaim(u, t) PROVE OnlyBlamed
    BY <2>3, <2>5 DEF Grant, LoseClaim
  <2>6. QED
    BY <1>1, <2>3, <2>4, <2>5, OthersRest DEF service
<1>2. QED
  BY <1>1, Invariance, PTL DEF Spec, BackHasCause

(* A written step is one of the store, with or without a claim.            *)
LEMMA PutMaps ==
  ASSUME IInv, NEW t \in Try, NEW u \in User, NEW s \in Step,
         Put(u, s), packs' = packs, stage[t] = "run",
         \/ row[u] = 0 /\ s = 1 /\ claims' = claims
         \/ /\ row[u] # 0
            /\ \/ claims' = claims
               \/ s = LastStep /\ claims' = [claims EXCEPT ![u] = @ \cup {t}]
  PROVE  Store!Next
<1>1. Store!Copy
  <2>1. \A v \in User : past'[v] = IF v = u THEN past[v] \cup {s} ELSE past[v]
    BY DEF Put, IInv, StoreOK
  <2>2. row'[u] = s /\ s # 0
    BY StepFacts DEF Put, IInv, StoreOK
  <2>3. QED
    BY <2>1, <2>2 DEF Store!Copy
<1>2. CASE row[u] = 0 /\ s = 1 /\ claims' = claims
  <2>1. Store!Enrol(u)
    BY <1>2 DEF Put, Store!Enrol
  <2>2. QED
    BY <1>1, <2>1 DEF Store!Next
<1>3. CASE row[u] # 0 /\ claims' = claims
  <2>1. Store!Move(u, s) /\ s \in Store!Step
    BY <1>3 DEF Put, Store!Move, Step, Store!Step
  <2>2. QED
    BY <1>1, <2>1 DEF Store!Next
<1>4. CASE /\ row[u] # 0 /\ s = LastStep
           /\ claims' = [claims EXCEPT ![u] = @ \cup {t}]
  <2>1. \A v \in User : t \notin claims[v]
    BY DEF IInv, Parts, ClaimedOnce
  <2>2. Store!Complete(u, t)
    BY <1>4, <2>1 DEF Put, Store!Complete
  <2>3. QED
    BY <1>1, <2>2 DEF Store!Next
<1>5. QED
  BY <1>2, <1>3, <1>4

LEMMA NextMaps == IInv /\ [Next]_vars => [Store!Next]_Store!vars
<1> SUFFICES ASSUME IInv, [Next]_vars PROVE [Store!Next]_Store!vars
  OBVIOUS
<1>1. CASE UNCHANGED service
  BY <1>1 DEF service, Store!vars
<1>2. ASSUME NEW t \in Try, Serve(t), ~ UNCHANGED service PROVE Store!Next
  BY <1>2, ServeWrites, PutMaps
<1>3. ASSUME NEW t \in Try, NEW u \in User, Grant(u, t) PROVE Store!Next
  <2>1. Store!Copy /\ Store!Grant(u, t)
    BY <1>3 DEF Grant, Store!Copy, Store!Grant
  <2>2. QED
    BY <2>1 DEF Store!Next
<1>4. ASSUME NEW t \in Try, NEW u \in User, LoseClaim(u, t) PROVE Store!Next
  <2>1. \A v \in User : claims'[v] \subseteq claims[v]
    BY <1>4 DEF LoseClaim, IInv, StoreOK
  <2>2. Store!Copy /\ Store!Lose
    BY <1>4, <2>1 DEF LoseClaim, Store!Copy, Store!Lose
  <2>3. QED
    BY <2>2 DEF Store!Next
<1>5. QED
  BY <1>1, <1>2, <1>3, <1>4, OthersRest

(***************************************************************************)
(* The user service as it is seen through the mesh, with its tries as      *)
(* tickets, implements ProfileStore for any users, calls and retries.      *)
(***************************************************************************)
THEOREM StoreImplemented == Spec => ImplementsStore
<1>1. Init => Store!Init
  BY DEF Init, Store!Init
<1>2. QED
  BY <1>1, NextMaps, Invariance, PTL DEF Spec, ImplementsStore, Store!Spec

-----------------------------------------------------------------------------
(***************************************************************************)
(* Why a blameless user gets one pack: while she is to blame for nothing,  *)
(* a last step has one try that is not over, and once it made a claim, her *)
(* row is at the last step and no try of hers is running or has failed, so *)
(* that neither Envoy nor her page asks again.                             *)
(***************************************************************************)
Alive(c) == {t \in Try : t[1] = c /\ stage[t] # "none"}

OneTry ==
  \A u \in User : blame[u] = {} =>
    \A c \in Call : Patch(c, u) /\ asks[c] = LastStep =>
      \A s, t \in Alive(c) : s = t

Claimed(u) == packs[u] # 0 \/ claims[u] # {}

Settled ==
  \A u \in User : blame[u] = {} /\ Claimed(u) =>
    /\ row[u] = LastStep
    /\ \A t \in Try : Patch(t[1], u) => stage[t] \in {"none", "ok"}

PackInv == OneTry /\ Settled /\ SecondPackHasCause

LEMMA NoClicksAreBlameless == \A u \in User : blame[u] = {} => blame[u] \cap Clicks = {}
  OBVIOUS

LEMMA InitPackInv == Init => PackInv
  BY DEF Init, MeshInit, PackInv, OneTry, Alive, Settled, SecondPackHasCause, Claimed, Patch

(* The service rests, and tries are only over.                             *)
LEMMA PackKept ==
  ASSUME PackInv, UNCHANGED <<service, blame>>,
         \A c \in Call : \A u \in User : Patch(c, u)' => Patch(c, u) /\ asks'[c] = asks[c],
         \A t \in Try : stage'[t] \in {stage[t], "none"}
  PROVE  PackInv'
<1>1. UNCHANGED <<row, claims, packs, blame>>
  BY DEF service
<1>2. \A t \in Try : t[1] \in Call
  BY TryFacts
<1>3. OneTry'
  <2>1. \A c \in Call : Alive(c)' \subseteq Alive(c)
    BY DEF Alive
  <2>2. QED
    BY <1>1, <2>1 DEF PackInv, OneTry
<1>4. Settled'
  BY <1>1, <1>2 DEF PackInv, Settled, Claimed
<1>5. SecondPackHasCause'
  BY <1>1 DEF PackInv, SecondPackHasCause
<1>6. QED
  BY <1>3, <1>4, <1>5 DEF PackInv

LEMMA ServePackInv ==
  ASSUME IInv, PackInv, NEW t \in Try, Serve(t)
  PROVE  PackInv'
<1> USE DEF PackInv
<1>1. /\ t[1] \in Call /\ stage[t] = "run" /\ blame' = blame
      /\ \A c \in Call : \A u \in User : Patch(c, u)' => Patch(c, u) /\ asks'[c] = asks[c]
  BY TryFacts, ForgetFacts DEF Serve
<1>2. PICK answer \in {"ok", "refused", "error"} : Finish(t, answer)
  BY DEF Serve, Handle, Create, CreateAgain, Update, UpdateUnanswered, NotFound,
         Unauthorized, Fail, TryFails
<1>3. /\ \A r \in Try \ {t} : stage'[r] = stage[r]
      /\ stage'[t] \in {"none", answer}
  BY <1>2, ServiceAnswers, FinishOrderly DEF IInv
<1>4. OneTry'
  <2>1. \A c \in Call : Alive(c)' \subseteq Alive(c)
    BY <1>1, <1>3 DEF Alive
  <2>2. QED
    BY <1>1, <2>1 DEF OneTry
\* A user with a claim has no try running, and this one leaves her alone.
<1>5. ASSUME NEW v \in User, blame[v] = {}, Claimed(v)
      PROVE  /\ ~ Patch(t[1], v) /\ row'[v] = row[v]
             /\ claims'[v] = claims[v] /\ packs'[v] = packs[v]
  <2>1. row[v] = LastStep /\ ~ Patch(t[1], v)
    BY <1>1, <1>5 DEF Settled
  <2>2. CASE UNCHANGED service
    BY <2>1, <2>2 DEF service
  <2>3. CASE ~ UNCHANGED service
    <3>1. PICK u \in User, s \in Step :
            /\ Put(u, s) /\ packs' = packs
            /\ \/ row[u] = 0 /\ s = 1 /\ claims' = claims
               \/ /\ row[u] # 0 /\ Patch(t[1], u) /\ s = asks[t[1]]
                  /\ \/ claims' = claims
                     \/ s = LastStep /\ claims' = [claims EXCEPT ![u] = @ \cup {t}]
      BY <2>3, ServeWrites
    <3>2. LastStep # 0
      BY LastStepAssumption
    <3>3. v # u
      BY <2>1, <3>1, <3>2
    <3>4. QED
      BY <2>1, <3>1, <3>3 DEF Put, IInv, StoreOK
  <2>4. QED
    BY <2>2, <2>3
<1>6. ASSUME NEW v \in User, blame[v] = {}, ~ Claimed(v), Claimed(v)'
      PROVE  /\ row'[v] = LastStep /\ claims'[v] = {t} /\ packs'[v] = 0
             /\ \A r \in Try : Patch(r[1], v)' => stage'[r] \in {"none", "ok"}
  <2>1. packs[v] = 0 /\ claims[v] = {}
    BY <1>6 DEF Claimed
  <2>2. ~ (claims' = claims /\ packs' = packs)
    BY <1>6, <2>1 DEF Claimed
  <2>3. PICK u \in User : who[t[1]] = u /\ Update(t, u) /\ asks[t[1]] = LastStep
    BY <2>2 DEF Serve, Handle, Create, CreateAgain, Update, UpdateUnanswered, NotFound,
                Unauthorized, Fail, service
  <2>4. /\ \A w \in User : claims'[w] = IF w = u THEN claims[w] \cup {t} ELSE claims[w]
        /\ packs' = packs /\ row'[u] = LastStep
        /\ Patch(t[1], u) /\ Finish(t, "ok")
    BY <2>3 DEF Update, Put, Patch, IInv, StoreOK
  <2>5. v = u
    BY <1>6, <2>1, <2>4 DEF Claimed
  <2>6. stage'[t] \in {"none", "ok"}
    BY <2>4, ServiceAnswers, FinishOrderly DEF IInv
  <2>7. ASSUME NEW r \in Try, Patch(r[1], v)', r # t PROVE stage'[r] = "none"
    <3>1. r[1] \in Call
      BY TryFacts
    <3>2. Patch(r[1], v)
      BY <1>1, <2>7, <3>1
    <3>3. r[1] = t[1]
      BY <1>1, <1>6, <2>4, <2>5, <3>1, <3>2, NoClicksAreBlameless DEF IInv, Parts, NoBack
    <3>4. stage[r] = "none"
      BY <1>1, <1>6, <2>3, <2>4, <2>5, <2>7, <3>3 DEF OneTry, Alive
    <3>5. QED
      BY <1>3, <2>7, <3>4
  <2>8. QED
    BY <2>1, <2>4, <2>5, <2>6, <2>7
<1>7. Settled'
  <2> SUFFICES ASSUME NEW v \in User, blame[v] = {}, Claimed(v)'
               PROVE  /\ row'[v] = LastStep
                      /\ \A r \in Try : Patch(r[1], v)' => stage'[r] \in {"none", "ok"}
    BY <1>1 DEF Settled
  <2>1. CASE Claimed(v)
    <3>1. row'[v] = LastStep
      BY <1>5, <2>1 DEF Settled
    <3>2. \A r \in Try : Patch(r[1], v)' => stage'[r] \in {"none", "ok"}
      BY <1>1, <1>3, <1>5, <2>1, TryFacts DEF Settled
    <3>3. QED
      BY <3>1, <3>2
  <2>2. CASE ~ Claimed(v)
    BY <1>6, <2>2
  <2>3. QED
    BY <2>1, <2>2
<1>8. SecondPackHasCause'
  <2> SUFFICES ASSUME NEW v \in User, blame[v] = {}
               PROVE  /\ packs'[v] <= 1
                      /\ \A r, s \in claims'[v] : r = s /\ packs'[v] = 0
    BY <1>1 DEF SecondPackHasCause
  <2>1. CASE Claimed(v)
    BY <1>5, <2>1 DEF SecondPackHasCause
  <2>2. CASE ~ Claimed(v) /\ Claimed(v)'
    BY <1>6, <2>2
  <2>3. CASE ~ Claimed(v)'
    BY <2>3 DEF Claimed
  <2>4. QED
    BY <2>1, <2>2, <2>3
<1>9. QED
  BY <1>4, <1>7, <1>8

(* A claim is used up, whether it brings a pack or not.                    *)
LEMMA ClaimPackInv ==
  ASSUME IInv, PackInv, NEW u \in User, NEW t \in Try, Grant(u, t) \/ LoseClaim(u, t)
  PROVE  PackInv'
<1> USE DEF PackInv
<1>1. UNCHANGED <<tries, stage, row, who, asks, blame>> /\ t \in claims[u]
  BY DEF Grant, LoseClaim, mesh, calls
<1>2. OneTry'
  BY <1>1 DEF OneTry, Patch, Alive
<1>3. \A v \in User : claims'[v] = IF v = u THEN claims[v] \ {t} ELSE claims[v]
  BY DEF Grant, LoseClaim, IInv, StoreOK
<1>4. \A v \in User : packs'[v] # packs[v] => v = u /\ packs'[v] = packs[v] + 1
  BY DEF Grant, LoseClaim, IInv, StoreOK
<1>5. \A v \in User : Claimed(v)' => Claimed(v)
  BY <1>1, <1>3, <1>4 DEF Claimed
<1>6. Settled'
  BY <1>1, <1>5 DEF Settled, Patch
<1>7. SecondPackHasCause'
  <2> SUFFICES ASSUME NEW v \in User, blame[v] = {}
               PROVE  /\ packs'[v] <= 1
                      /\ \A r, s \in claims'[v] : r = s /\ packs'[v] = 0
    BY <1>1 DEF SecondPackHasCause
  <2>1. packs[v] <= 1 /\ \A r, s \in claims[v] : r = s /\ packs[v] = 0
    BY DEF SecondPackHasCause
  <2>2. CASE v = u
    <3>1. packs[v] = 0 /\ claims'[v] = {}
      BY <1>1, <1>3, <2>1, <2>2
    <3>2. packs'[v] \in {0, 1}
      BY <1>4, <3>1
    <3>3. QED
      BY <3>1, <3>2
  <2>3. CASE v # u
    BY <1>3, <1>4, <2>1, <2>3
  <2>4. QED
    BY <2>2, <2>3
<1>8. QED
  BY <1>2, <1>6, <1>7

(* A call is made, and its user, if blameless, had no PATCH under way.     *)
LEMMA AskPackInv ==
  ASSUME IInv, PackInv, NEW c \in Call, NEW u \in Somebody, NEW s \in 0 .. LastStep,
         Ask(c, u, s), UNCHANGED service, \A v \in User : blame[v] \subseteq blame'[v],
         u \in User /\ s # 0 /\ blame'[u] = {} => row[u] # LastStep
  PROVE  PackInv'
<1> USE DEF PackInv
<1>1. /\ \A t \in Try : stage'[t] = IF t = <<c, 1>> THEN "run" ELSE stage[t]
      /\ \A t \in Try : t[1] = c => stage[t] = "none"
  BY OpenOrderly, TryFacts DEF IInv, Orderly, MeshTypeOK, Ask, Open, Free
<1>2. /\ \A d \in Call : who'[d] = IF d = c THEN u ELSE who[d]
      /\ \A d \in Call : asks'[d] = IF d = c THEN s ELSE asks[d]
      /\ UNCHANGED <<row, claims, packs>>
  BY DEF Ask, IInv, Parts, CallsOK, service
<1>3. OneTry'
  <2> SUFFICES ASSUME NEW v \in User, blame'[v] = {}, NEW d \in Call,
                      Patch(d, v)', asks'[d] = LastStep,
                      NEW r \in Alive(d)', NEW t \in Alive(d)'
               PROVE  r = t
    BY DEF OneTry
  <2>1. CASE d = c
    BY <1>1, <2>1 DEF Alive
  <2>2. CASE d # c
    <3>1. Patch(d, v) /\ asks[d] = LastStep /\ blame[v] = {}
      BY <1>2, <2>2 DEF Patch
    <3>2. r \in Alive(d) /\ t \in Alive(d)
      BY <1>1, <2>2 DEF Alive
    <3>3. QED
      BY <3>1, <3>2 DEF OneTry
  <2>3. QED
    BY <2>1, <2>2
<1>4. Settled'
  <2> SUFFICES ASSUME NEW v \in User, blame'[v] = {}, Claimed(v)
               PROVE  /\ row[v] = LastStep
                      /\ \A t \in Try : Patch(t[1], v)' => stage'[t] \in {"none", "ok"}
    BY <1>2 DEF Settled, Claimed
  <2>1. /\ row[v] = LastStep
        /\ \A t \in Try : Patch(t[1], v) => stage[t] \in {"none", "ok"}
    BY DEF Settled
  <2>2. ~ Patch(c, v)'
    BY <1>2, <2>1 DEF Patch
  <2>3. ASSUME NEW t \in Try, Patch(t[1], v)' PROVE stage'[t] \in {"none", "ok"}
    <3>1. t[1] \in Call /\ t[1] # c /\ t # <<c, 1>>
      BY <2>2, <2>3, TryFacts
    <3>2. Patch(t[1], v)
      BY <1>2, <2>3, <3>1 DEF Patch
    <3>3. QED
      BY <1>1, <2>1, <3>1, <3>2
  <2>4. QED
    BY <2>1, <2>3
<1>5. SecondPackHasCause'
  BY <1>2 DEF SecondPackHasCause
<1>6. QED
  BY <1>3, <1>4, <1>5

LEMMA CallPackInv ==
  ASSUME IInv, PackInv, NEW c \in Call, Click(c) \/ \E u \in User : Register(c, u)
  PROVE  PackInv'
<1>1. CASE Click(c)
  <2>1. /\ Ask(c, token, step + 1) /\ UNCHANGED service /\ token \in Somebody
        /\ step \in Step /\ step # LastStep
    BY <1>1 DEF Click, IInv, Parts, PageOK
  <2>2. PICK s \in 0 .. LastStep : s = step + 1
    BY <2>1, StepFacts DEF Step
  <2>3. \A v \in User : blame'[v] = IF v = token THEN blame[v] \cup Why(v) ELSE blame[v]
    BY <1>1 DEF Click
  <2>4. token \in User /\ blame'[token] = {} => row[token] # LastStep
    BY <2>1, <2>3 DEF Why, Clicks
  <2>5. QED
    BY <2>1, <2>2, <2>3, <2>4, AskPackInv
<1>2. ASSUME NEW u \in User, Register(c, u) PROVE PackInv'
  <2>1. PICK s \in 0 .. LastStep : s = 0
    BY LastStepAssumption
  <2>2. Ask(c, u, s) /\ UNCHANGED <<service, blame>> /\ u \in Somebody
    BY <1>2, <2>1 DEF Register, Somebody
  <2>3. QED
    BY <2>1, <2>2, AskPackInv
<1>3. QED
  BY <1>1, <1>2

(* Envoy tries again: a last step whose try before is over, or with blame. *)
LEMMA TryAgainPackInv ==
  ASSUME IInv, PackInv, NEW c \in Call, TryAgain(c)
  PROVE  PackInv'
<1> USE DEF PackInv
<1>1. Retry(c) /\ UNCHANGED <<row, claims, packs, who, asks>> /\ Pending(c)
  BY DEF TryAgain, Retry, service, calls
<1>2. /\ \A u \in User : blame[u] \subseteq blame'[u]
      /\ \A u \in User : u = who[c] /\ asks[c] = LastStep /\ blame'[u] = {} =>
           stage[Latest(c)] = "error"
  BY DEF TryAgain
<1>3. \A t \in Try : t[1] # c => stage'[t] = stage[t]
  BY <1>1, RetryOrderly DEF IInv
<1>4. Latest(c) \in Try /\ Latest(c)[1] = c
  BY <1>1, LatestIsTry DEF IInv, Orderly
<1>5. OneTry'
  <2> SUFFICES ASSUME NEW v \in User, blame'[v] = {}, NEW d \in Call,
                      Patch(d, v), asks[d] = LastStep,
                      NEW r \in Alive(d)', NEW t \in Alive(d)'
               PROVE  r = t
    BY <1>1 DEF OneTry, Patch
  <2>1. blame[v] = {}
    BY <1>2
  <2>2. CASE d # c
    BY <1>3, <2>1, <2>2 DEF OneTry, Alive
  <2>3. CASE d = c
    <3>1. stage[Latest(c)] = "error"
      BY <1>2, <2>3 DEF Patch
    <3>2. \A q \in Try : q[1] = c /\ q # Latest(c) => stage[q] = "none"
      BY <1>4, <2>1, <2>3, <3>1 DEF OneTry, Alive
    <3>3. \A q \in Try : q[1] = c => Abandon({c})[q] = "none"
      BY <3>1, <3>2, AbandonFacts DEF IInv
    <3>4. \A q \in Try : q[1] = c /\ stage'[q] # "none" => q = <<c, tries[c] + 1>>
      BY <1>1, <3>3, AbandonFacts DEF Retry, IInv
    <3>5. QED
      BY <2>3, <3>4 DEF Alive
  <2>4. QED
    BY <2>2, <2>3
<1>6. Settled'
  <2> SUFFICES ASSUME NEW v \in User, blame'[v] = {}, Claimed(v)
               PROVE  /\ row[v] = LastStep
                      /\ \A t \in Try : Patch(t[1], v) => stage'[t] \in {"none", "ok"}
    BY <1>1 DEF Settled, Claimed, Patch
  <2>1. /\ row[v] = LastStep /\ blame[v] = {}
        /\ \A t \in Try : Patch(t[1], v) => stage[t] \in {"none", "ok"}
    BY <1>2 DEF Settled
  <2>2. ~ Patch(c, v)
    <3>1. SUFFICES ASSUME Patch(c, v) PROVE FALSE
      OBVIOUS
    <3>2. asks[c] \in {row[v], row[v] + 1} /\ asks[c] \in 0 .. LastStep
      BY <2>1, <3>1, NoClicksAreBlameless DEF IInv, Parts, NoBack, CallsOK
    <3>3. asks[c] = LastStep
      BY <2>1, <3>2, LastStepAssumption
    <3>4. QED
      BY <1>2, <1>4, <2>1, <3>1, <3>3 DEF Patch
  <2>3. QED
    BY <1>3, <2>1, <2>2
<1>7. SecondPackHasCause'
  BY <1>1, <1>2 DEF SecondPackHasCause
<1>8. QED
  BY <1>5, <1>6, <1>7

LEMMA NextPackInv == IInv /\ PackInv /\ [Next]_vars => PackInv'
<1> SUFFICES ASSUME IInv, PackInv, [Next]_vars PROVE PackInv'
  OBVIOUS
<1>1. ASSUME NEW c \in Call, Click(c) \/ \E u \in User : Register(c, u) PROVE PackInv'
  BY <1>1, CallPackInv
<1>2. ASSUME NEW c \in Call, Answered(c) \/ Break(c) PROVE PackInv'
  <2>1. Close({c}) /\ Forget /\ UNCHANGED <<service, blame>>
    BY <1>2 DEF Answered, ProfileAnswer, Advance, Remain, Break, Forward, GiveUp, Hangup
  <2>2. \A t \in Try : stage'[t] \in {stage[t], "none"}
    BY <2>1, CloseOrderly DEF IInv
  <2>3. QED
    BY <2>1, <2>2, ForgetFacts, PackKept
<1>3. ASSUME NEW c \in Call, TryAgain(c) PROVE PackInv'
  BY <1>3, TryAgainPackInv
<1>4. ASSUME NEW t \in Try, Serve(t) PROVE PackInv'
  BY <1>4, ServePackInv
<1>5. ASSUME NEW t \in Try, NEW u \in User, Grant(u, t) \/ LoseClaim(u, t) PROVE PackInv'
  BY <1>5, ClaimPackInv
<1>6. CASE Reload
  <2> DEFINE C == {c \in Call : Pending(c)}
  <2>1. Close(C) /\ Forget /\ UNCHANGED <<service, blame>>
    BY <1>6 DEF Reload
  <2>2. C \in SUBSET Call
    OBVIOUS
  <2> HIDE DEF C
  <2>3. \A t \in Try : stage'[t] \in {stage[t], "none"}
    BY <2>1, <2>2, CloseOrderly DEF IInv
  <2>4. QED
    BY <2>1, <2>3, ForgetFacts, PackKept
<1>7. CASE UNCHANGED <<mesh, service, calls, blame>>
  BY <1>7, PackKept DEF mesh, calls, Patch
<1>8. ASSUME NEW u \in User, RegisterUnheard(u) \/ Login(u) \/ LoadAnswer(u)
      PROVE  UNCHANGED <<mesh, service, calls, blame>>
  BY <1>8 DEF RegisterUnheard, Login, LoadAnswer
<1>9. CASE Logout \/ UNCHANGED vars
  BY <1>7, <1>9 DEF Logout, vars, mesh, service, calls
<1>10. QED
  BY <1>1, <1>2, <1>3, <1>4, <1>5, <1>6, <1>7, <1>8, <1>9 DEF Next

(***************************************************************************)
(* For any users, calls, retries, steps and faults: unless a user clicked  *)
(* where her page should not have let her, or Envoy retried a last step    *)
(* whose try might still be served, she gets one pack at most, also when   *)
(* the answers of UPDATEs are lost (user.go:157-168, envoy-user.yml:39).   *)
(***************************************************************************)
THEOREM SecondPackHasCauseCorrect == Spec => []SecondPackHasCause
<1>1. PackInv => SecondPackHasCause
  BY DEF PackInv
<1>2. QED
  BY <1>1, InitPackInv, NextPackInv, Invariance, PTL DEF Spec
=============================================================================
