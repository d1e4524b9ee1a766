--------------------------- MODULE AccountsProofs ---------------------------
(***************************************************************************)
(* Theorems about Accounts, for any number of calls, retries, emails,      *)
(* passwords, ids and faults.  A token on its way or with a client has its *)
(* account in the table, where nothing is ever changed; the rest follows:  *)
(* an email is free only if nobody was welcomed with it, and who was given *)
(* a token names an account.                                               *)
(***************************************************************************)
EXTENDS Accounts, MeshTheorems

\* What the table, the calls and the history hold.
TablesOK ==
  /\ users \subseteq User /\ redis \subseteq Id
  /\ req \in [Call -> Request \cup {NoRequest}]
  /\ own \subseteq Call /\ entitled \subseteq Call
  /\ told \subseteq Token

\* A call that is not over asks for something.
Asking == \A c \in Call : ~ Free(c) => req[c] \in Request

\* Who is entitled has been told so, and her call is not over.
Entitled == \A c \in entitled : ~ Free(c) /\ \E k \in told : Names(k, req[c])

\* A call's own account is made by its only try when that is answered.
OwnIsServed ==
  \A c \in own : Pending(c) /\ (tries[c] = 1 => stage[<<c, 1>>] \in Id \cup {"error"})

\* What is known of the calls and of their clients.
CallsOK == Asking /\ Entitled /\ LoginStaysGood /\ OwnIsServed

IInv == Orderly /\ TablesOK /\ CallsOK /\ TokenMatchesPassword /\ OneWelcome

-----------------------------------------------------------------------------
LEMMA AnswersDiffer ==
  /\ \A x \in Id : x \notin {"none", "run", "error", "refused"}
  /\ Answer = Id \cup {"refused"}
  BY AnswerAssumption, AccountAnswers

LEMMA IInvTypes == IInv => TypeOK
  BY DEF IInv, Orderly, TablesOK, TypeOK

LEMMA InitIInv == Init => IInv
<1> SUFFICES ASSUME Init PROVE IInv
  OBVIOUS
<1>1. Orderly
  BY NumRetriesAssumption DEF Init, MeshInit, Orderly, MeshTypeOK
<1>2. TablesOK
  BY DEF Init, TablesOK
<1>3. \A t \in Try : stage[t] = "none"
  BY DEF Init, MeshInit
<1>4. CallsOK
  BY <1>3, TryFacts DEF Init, MeshInit, CallsOK, Asking, Entitled, LoginStaysGood,
                        OwnIsServed, Free, Pending
<1>5. TokenMatchesPassword /\ OneWelcome
  BY <1>3, AnswersDiffer DEF Init, TokenMatchesPassword, OneWelcome, Welcomes
<1>6. QED
  BY <1>1, <1>2, <1>4, <1>5 DEF IInv

(* Requests and entitlements outlive the calls by nothing.                 *)
LEMMA ForgetFacts ==
  ASSUME Forget
  PROVE  /\ \A c \in Call : ~ Free(c)' => req'[c] = req[c]
         /\ \A c \in entitled' : c \in entitled /\ ~ Free(c)'
         /\ TablesOK => /\ req' \in [Call -> Request \cup {NoRequest}]
                        /\ entitled' \subseteq Call
  BY DEF Forget, TablesOK

(* Steps that bring no token on its way, and to no client.                 *)
LEMMA QuietSafe ==
  ASSUME TokenMatchesPassword, OneWelcome, users \subseteq users', told' = told,
         \A t \in Try : stage'[t] \in Id => stage'[t] = stage[t] /\ req'[t[1]] = req[t[1]]
  PROVE  TokenMatchesPassword' /\ OneWelcome'
<1>1. TokenMatchesPassword'
  BY DEF TokenMatchesPassword
<1>2. \A t \in Try : Welcomes(t)' => Welcomes(t) /\ req'[t[1]] = req[t[1]]
  BY DEF Welcomes
<1>3. OneWelcome'
  BY <1>2 DEF OneWelcome
<1>4. QED
  BY <1>1, <1>3

(* A try may bring the token of an account with its email and password, if *)
(* it is a login's or nobody was welcomed with the email.                  *)
LEMMA AwardSafe ==
  ASSUME TokenMatchesPassword, OneWelcome, users \subseteq users', told' = told,
         NEW t \in Try, req[t[1]].op \in {"register", "login"},
         \A s \in Try : stage'[s] \in Id => req'[s[1]] = req[s[1]],
         \A s \in Try \ {t} : stage'[s] = stage[s],
         stage'[t] \in Id =>
           /\ \E a \in users' : a.id = stage'[t] /\ Names(a, req[t[1]])
           /\ req[t[1]].op # "login" => ~ Taken(req[t[1]].email)
  PROVE  TokenMatchesPassword' /\ OneWelcome'
<1>1. TokenMatchesPassword'
  BY DEF TokenMatchesPassword
<1>2. \A s \in Try \ {t} : Welcomes(s)' => Welcomes(s) /\ req'[s[1]] = req[s[1]]
  BY DEF Welcomes
<1>3. Welcomes(t)' => ~ Taken(req[t[1]].email) /\ req'[t[1]] = req[t[1]]
  BY DEF Welcomes
<1>4. \A k \in told : Taken(k.email)
  BY DEF TokenMatchesPassword, Names, Taken
<1>5. \A s \in Try : Welcomes(s) => Taken(req[s[1]].email)
  BY DEF TokenMatchesPassword, Names, Taken, Welcomes
<1>6. ASSUME NEW s \in Try, Welcomes(s)'
      PROVE  /\ \A k \in told' : k.op = "register" => k.email # req'[s[1]].email
             /\ \A r \in Try \ {s} : Welcomes(r)' => req'[r[1]].email # req'[s[1]].email
  <2>1. CASE s = t
    BY <2>1, <1>2, <1>3, <1>4, <1>5, <1>6
  <2>2. CASE s # t
    <3>1. Welcomes(s) /\ req'[s[1]] = req[s[1]]
      BY <2>2, <1>2, <1>6
    <3>2. \A k \in told' : k.op = "register" => k.email # req'[s[1]].email
      BY <3>1 DEF OneWelcome
    <3>3. ASSUME NEW r \in Try \ {s}, Welcomes(r)'
          PROVE  req'[r[1]].email # req'[s[1]].email
      <4>1. CASE r = t
        BY <4>1, <3>1, <3>3, <1>3, <1>5
      <4>2. CASE r # t
        BY <4>2, <3>1, <3>3, <1>2 DEF OneWelcome
      <4>3. QED
        BY <4>1, <4>2
    <3>4. QED
      BY <3>2, <3>3
  <2>3. QED
    BY <2>1, <2>2
<1>7. OneWelcome'
  BY <1>6 DEF OneWelcome
<1>8. QED
  BY <1>1, <1>7

(* Calls of which tries end or are given up stay as they are known.        *)
LEMMA CallsKept ==
  ASSUME CallsOK, told \subseteq told', entitled' \subseteq entitled,
         \A c \in entitled' : ~ Free(c)', entitled \subseteq Call,
         \A c \in Call : ~ Free(c)' => ~ Free(c) /\ req'[c] = req[c],
         \A t \in Try : stage'[t] = "refused" /\ req[t[1]].op = "login" =>
           stage[t] = "refused" \/ t[1] \notin entitled
  PROVE  Asking' /\ Entitled' /\ LoginStaysGood'
<1>1. Asking' /\ Entitled'
  BY DEF CallsOK, Asking, Entitled
<1>2. LoginStaysGood'
  <2> SUFFICES ASSUME NEW c \in entitled', req'[c].op = "login",
                      NEW t \in TriesOf(c), stage'[t] = "refused"
               PROVE  FALSE
    BY DEF LoginStaysGood, TriesOf
  <2>1. c \in Call /\ t \in Try /\ t[1] = c
    BY TryFacts
  <2>2. req[c].op = "login" /\ stage[t] # "refused"
    BY <2>1 DEF CallsOK, LoginStaysGood
  <2>3. QED
    BY <2>1, <2>2
<1>3. QED
  BY <1>1, <1>2

LEMMA OwnKept ==
  ASSUME Orderly, OwnIsServed, NEW t \in Try, stage[t] = "run",
         NEW answer \in Answer \cup {"error"}, Finish(t, answer),
         own' = own \/ (own' = Made(t) /\ answer \in Id \cup {"error"})
  PROVE  OwnIsServed'
<1> SUFFICES ASSUME NEW c \in own'
             PROVE  Pending(c)' /\ (tries'[c] = 1 => stage'[<<c, 1>>] \in Id \cup {"error"})
  BY DEF OwnIsServed
<1>1. tries' = tries
  BY DEF Finish
<1>2. CASE c \in own
  <2>1. Pending(c)' /\ (tries'[c] = 1 => <<c, 1>> # t)
    BY <1>1, <1>2, AnswersDiffer DEF OwnIsServed, Pending
  <2>2. tries[c] = 1 => stage'[<<c, 1>>] = stage[<<c, 1>>]
    BY <1>1, <2>1 DEF Finish, Orderly, MeshTypeOK
  <2>3. QED
    BY <1>1, <1>2, <2>1, <2>2 DEF OwnIsServed
<1>3. CASE c \notin own
  <2>1. c = t[1] /\ Pending(c) /\ answer \in Id \cup {"error"}
    BY <1>3 DEF Made
  <2>2. tries[c] = 1 => t = <<c, 1>>
    BY <2>1, TryFacts DEF Orderly
  <2>3. tries[c] = 1 => stage'[<<c, 1>>] = answer
    BY <2>1, <2>2, FinishOrderly DEF Latest
  <2>4. QED
    BY <1>1, <2>1, <2>3 DEF Pending
<1>4. QED
  BY <1>2, <1>3

(* The end of a try, with an answer that the table gives.                  *)
LEMMA FinishIInv ==
  ASSUME IInv, NEW t \in Try, stage[t] = "run",
         NEW answer \in Answer \cup {"error"}, Finish(t, answer),
         Forget, told' = told,
         users \subseteq users', users' \subseteq User, redis' \subseteq Id,
         own' = own \/ (own' = Made(t) /\ answer \in Id \cup {"error"}),
         answer \in Id =>
           /\ \E a \in users' : a.id = answer /\ Names(a, req[t[1]])
           /\ req[t[1]].op # "login" => ~ Taken(req[t[1]].email),
         answer = "refused" /\ req[t[1]].op = "login" =>
           ~ \E a \in users : Names(a, req[t[1]])
  PROVE  IInv'
<1>1. /\ Orderly'
      /\ \A s \in Try \ {t} : stage'[s] = stage[s]
      /\ stage'[t] \in {"none", answer}
      /\ \A c \in Call : ~ Free(c)' => ~ Free(c)
  BY FinishOrderly DEF IInv
<1>2. req[t[1]] \in Request /\ t[1] \in Call
  BY BusyCall, TryFacts DEF IInv, CallsOK, Asking
<1>3. TablesOK'
  <2>1. own' \subseteq Call
    BY <1>2 DEF IInv, TablesOK, Made
  <2>2. QED
    BY <2>1, ForgetFacts DEF IInv, TablesOK
<1>4. TokenMatchesPassword' /\ OneWelcome'
  <2>1. \A s \in Try : stage'[s] \in Id => req'[s[1]] = req[s[1]]
    BY BusyCall, ForgetFacts, AnswersDiffer, TryFacts
  <2>2. stage'[t] \in Id => stage'[t] = answer
    BY <1>1, AnswersDiffer
  <2>3. req[t[1]].op \in {"register", "login"}
    BY <1>2 DEF Request
  <2>4. QED
    BY <1>1, <2>1, <2>2, <2>3, AwardSafe DEF IInv
<1>5. CallsOK'
  <2>1. ASSUME NEW s \in Try, stage'[s] = "refused", req[s[1]].op = "login"
        PROVE  stage[s] = "refused" \/ s[1] \notin entitled
    <3>1. CASE s = t
      <4>1. ~ \E a \in users : Names(a, req[t[1]])
        BY <1>1, <2>1, <3>1
      <4>2. ASSUME t[1] \in entitled PROVE FALSE
        <5>1. PICK k \in told : Names(k, req[t[1]])
          BY <4>2 DEF IInv, CallsOK, Entitled
        <5>2. \E a \in users : Names(a, req[t[1]])
          BY <5>1 DEF IInv, TokenMatchesPassword, Names
        <5>3. QED
          BY <4>1, <5>2
      <4>3. QED
        BY <3>1, <4>2
    <3>2. QED
      BY <1>1, <2>1, <3>1
  <2>2. Asking' /\ Entitled' /\ LoginStaysGood'
    <3>1. \A c \in Call : ~ Free(c)' => ~ Free(c) /\ req'[c] = req[c]
      BY <1>1, ForgetFacts
    <3>2. entitled' \subseteq entitled /\ \A c \in entitled' : ~ Free(c)'
      BY ForgetFacts
    <3>3. entitled \subseteq Call /\ CallsOK
      BY DEF IInv, TablesOK
    <3>4. QED
      BY <2>1, <3>1, <3>2, <3>3, CallsKept
  <2>3. OwnIsServed'
    BY OwnKept DEF IInv, CallsOK
  <2>4. QED
    BY <2>2, <2>3 DEF CallsOK
<1>6. QED
  BY <1>1, <1>3, <1>4, <1>5 DEF IInv

(* The end of a try that changes no table.                                 *)
LEMMA RefuseIInv ==
  ASSUME IInv, NEW t \in Try, stage[t] = "run",
         NEW answer \in {"refused", "error"}, Finish(t, answer),
         Forget, told' = told, users' = users, redis' = redis, own' = own,
         answer = "refused" /\ req[t[1]].op = "login" =>
           ~ \E a \in users : Names(a, req[t[1]])
  PROVE  IInv'
<1>1. users \subseteq users' /\ users' \subseteq User /\ redis' \subseteq Id
  BY DEF IInv, TablesOK
<1>2. answer \in Answer \cup {"error"} /\ answer \notin Id
  BY AnswersDiffer
<1>3. own' = own \/ (own' = Made(t) /\ answer \in Id \cup {"error"})
  OBVIOUS
<1>4. answer \in Id =>
        /\ \E a \in users' : a.id = answer /\ Names(a, req[t[1]])
        /\ req[t[1]].op # "login" => ~ Taken(req[t[1]].email)
  BY <1>2
<1>5. QED
  BY <1>1, <1>2, <1>3, <1>4, FinishIInv

LEMMA ServeIInv ==
  ASSUME IInv, NEW t \in Try, Serve(t) \/ ServeFails(t)
  PROVE  IInv'
<1> DEFINE q == req[t[1]]
<1>1. TablesOK /\ stage[t] = "run" /\ Forget /\ told' = told
  BY DEF IInv, Serve, ServeFails, Fail, TryFails, Finish
<1>2. q \in Request
  BY <1>1, BusyCall, TryFacts DEF IInv, CallsOK, Asking
<1>3. CASE Register(t, q)
  <2>1. PICK id \in Id \ {a.id : a \in users} :
          /\ users' = users \cup {[id |-> id, email |-> q.email, password |-> q.password]}
          /\ Finish(t, id) \/ TryFails(t)
    BY <1>3 DEF Register
  <2>2. PICK answer \in {id, "error"} : Finish(t, answer)
    BY <2>1 DEF TryFails
  <2>3. users' \subseteq User /\ users \subseteq users'
    BY <1>1, <1>2, <2>1 DEF TablesOK, User, Request
  <2>4. /\ \E a \in users' : a.id = id /\ Names(a, q)
        /\ ~ Taken(q.email) /\ own' = Made(t) /\ redis' \subseteq Id
    <3> DEFINE a == [id |-> id, email |-> q.email, password |-> q.password]
    <3>1. a \in users' /\ a.id = id /\ Names(a, q)
      BY <2>1 DEF Names
    <3> HIDE DEF a
    <3>2. QED
      BY <1>1, <1>3, <3>1 DEF Register, TablesOK
  <2>5. /\ answer \in Answer \cup {"error"} /\ answer \in Id \cup {"error"}
        /\ answer # "refused" /\ (answer \in Id => answer = id)
    BY AnswersDiffer
  <2>6. QED
    BY <1>1, <2>2, <2>3, <2>4, <2>5, FinishIInv
<1>4. CASE RegisterTaken(t, q)
  <2>1. PICK answer \in {"refused"} : Finish(t, answer)
    BY <1>4 DEF RegisterTaken
  <2>2. /\ q.op # "login" /\ users' = users /\ redis' = redis /\ own' = own
    BY <1>4 DEF RegisterTaken
  <2>3. QED
    BY <1>1, <2>1, <2>2, RefuseIInv
<1>5. CASE Login(t, q)
  <2>1. PICK a \in users : /\ Names(a, q) /\ Finish(t, a.id)
                           /\ redis' \in {redis, redis \cup {a.id}}
    BY <1>5 DEF Login
  <2>2. a.id \in Id /\ redis' \subseteq Id
    BY <1>1, <2>1 DEF TablesOK, User
  <2>3. users' = users /\ own' = own /\ q.op = "login"
    BY <1>5 DEF Login
  <2>4. QED
    BY <1>1, <2>1, <2>2, <2>3, AnswersDiffer, FinishIInv DEF TablesOK
<1>6. CASE LoginDenied(t, q)
  <2>1. PICK answer \in {"refused"} : Finish(t, answer)
    BY <1>6 DEF LoginDenied
  <2>2. /\ users' = users /\ redis' = redis /\ own' = own
        /\ ~ \E a \in users : Names(a, q)
    BY <1>6 DEF LoginDenied
  <2>3. QED
    BY <1>1, <2>1, <2>2, RefuseIInv
<1>7. CASE Fail(t)
  <2>1. PICK answer \in {"error"} : Finish(t, answer)
    BY <1>7 DEF Fail, TryFails
  <2>2. users' = users /\ redis' = redis /\ own' = own
    BY <1>7 DEF Fail, TryFails
  <2>3. QED
    BY <1>1, <2>1, <2>2, RefuseIInv
<1>8. QED
  BY <1>3, <1>4, <1>5, <1>6, <1>7 DEF Serve, ServeFails

(* The end of a call, whose client may get the token of its last try.      *)
LEMMA CloseIInv ==
  ASSUME IInv, NEW c \in Call, Pending(c), Close({c}), Forget,
         own' = own \ {c}, users' = users, redis' = redis,
         told \subseteq told', told' \subseteq told \cup Given(c)
  PROVE  IInv'
<1>1. /\ Orderly'
      /\ \A d \in Call : tries'[d] = IF d = c THEN 0 ELSE tries[d]
      /\ \A t \in Try : stage'[t] \in {stage[t], "none"}
      /\ \A t \in Try : t[1] = c => stage'[t] \in {"none", "run"}
      /\ \A t \in Try : t[1] # c => stage'[t] = stage[t]
      /\ \A d \in Call : ~ Free(d)' => ~ Free(d)
  BY CloseOrderly DEF IInv
<1>2. \A t \in Try : stage'[t] \in Id =>
        t[1] # c /\ stage'[t] = stage[t] /\ req'[t[1]] = req[t[1]]
  BY <1>1, BusyCall, ForgetFacts, AnswersDiffer, TryFacts
<1> DEFINE last == Latest(c)
<1>3. last \in Try /\ last[1] = c
  BY LatestIsTry DEF IInv, Orderly
<1>4. req[c] \in Request
  BY DEF IInv, CallsOK, Asking, Free
<1>5. \A k \in Given(c) :
        /\ k \in Token /\ stage[last] = k.id /\ k.id \in Id
        /\ k.op = req[c].op /\ k.email = req[c].email /\ k.password = req[c].password
  <2> TAKE k \in Given(c)
  <2>1. PICK id \in Id \cap {stage[last]} :
          k = [op |-> req[c].op, email |-> req[c].email, password |-> req[c].password, id |-> id]
    BY DEF Given
  <2>2. QED
    BY <1>4, <2>1 DEF Token, Request
<1> HIDE DEF last
<1>6. TablesOK'
  BY <1>5, ForgetFacts DEF IInv, TablesOK
<1>7. TokenMatchesPassword'
  <2>1. ASSUME NEW k \in told' PROVE \E a \in users' : a.id = k.id /\ Names(a, k)
    <3>1. CASE k \in told
      BY <3>1 DEF IInv, TokenMatchesPassword
    <3>2. CASE k \in Given(c)
      <4>1. PICK a \in users : a.id = stage[last] /\ Names(a, req[c])
        BY <1>3, <1>5, <3>2 DEF IInv, TokenMatchesPassword
      <4>2. QED
        BY <1>5, <3>2, <4>1 DEF Names
    <3>3. QED
      BY <3>1, <3>2
  <2>2. ASSUME NEW t \in Try, stage'[t] \in Id
        PROVE  \E a \in users' : a.id = stage'[t] /\ Names(a, req'[t[1]])
    BY <1>2, <2>2 DEF IInv, TokenMatchesPassword
  <2>3. QED
    BY <2>1, <2>2 DEF TokenMatchesPassword
<1>8. OneWelcome'
  <2>1. \A t \in Try : Welcomes(t)' => Welcomes(t) /\ t # last /\ req'[t[1]] = req[t[1]]
    BY <1>2, <1>3 DEF Welcomes
  <2>2. ASSUME NEW t \in Try, Welcomes(t)', NEW k \in told', k.op = "register"
        PROVE  k.email # req'[t[1]].email
    <3>1. CASE k \in told
      BY <2>1, <2>2, <3>1 DEF IInv, OneWelcome
    <3>2. CASE k \in Given(c)
      <4>1. Welcomes(last) /\ k.email = req[last[1]].email
        BY <1>3, <1>5, <2>2, <3>2 DEF Welcomes
      <4>2. QED
        BY <1>3, <2>1, <2>2, <4>1 DEF IInv, OneWelcome
    <3>3. QED
      BY <3>1, <3>2
  <2>3. ASSUME NEW t \in Try, Welcomes(t)', NEW s \in Try \ {t}, Welcomes(s)'
        PROVE  req'[s[1]].email # req'[t[1]].email
    BY <2>1, <2>3 DEF IInv, OneWelcome
  <2>4. QED
    BY <2>2, <2>3 DEF OneWelcome
<1>9. CallsOK'
  <2>1. Asking' /\ Entitled' /\ LoginStaysGood'
    <3>1. \A d \in Call : ~ Free(d)' => ~ Free(d) /\ req'[d] = req[d]
      BY <1>1, ForgetFacts
    <3>2. entitled' \subseteq entitled /\ \A d \in entitled' : ~ Free(d)'
      BY ForgetFacts
    <3>3. \A t \in Try : stage'[t] = "refused" => stage[t] = "refused"
      BY <1>1
    <3>4. entitled \subseteq Call /\ CallsOK
      BY DEF IInv, TablesOK
    <3>5. QED
      BY <3>1, <3>2, <3>3, <3>4, CallsKept
  <2>2. OwnIsServed'
    <3> SUFFICES ASSUME NEW d \in own \ {c}
                 PROVE  /\ Pending(d)'
                        /\ tries'[d] = 1 => stage'[<<d, 1>>] \in Id \cup {"error"}
      BY DEF OwnIsServed
    <3>1. d \in Call /\ <<d, 1>> \in Try /\ <<d, 1>>[1] = d
      BY TryFacts, NumRetriesAssumption DEF IInv, TablesOK
    <3>2. tries'[d] = tries[d] /\ stage'[<<d, 1>>] = stage[<<d, 1>>]
      BY <1>1, <3>1
    <3>3. QED
      BY <3>2 DEF IInv, CallsOK, OwnIsServed, Pending
  <2>3. QED
    BY <2>1, <2>2 DEF CallsOK
<1>10. QED
  BY <1>1, <1>6, <1>7, <1>8, <1>9 DEF IInv

LEMMA SendIInv ==
  ASSUME IInv, NEW c \in Call, NEW q \in Request, Send(c, q)
  PROVE  IInv'
<1>1. /\ Orderly'
      /\ tries' = [tries EXCEPT ![c] = 1]
      /\ \A d \in Call \ {c} : Free(d)' <=> Free(d)
      /\ \A t \in Try : stage'[t] # stage[t] => t[1] = c
      /\ \A t \in Try : t[1] = c => stage'[t] \in {"none", "run"}
      /\ ~ Free(c)' /\ Free(c)
  BY OpenOrderly DEF IInv, Send, Open
<1>2. \A d \in Call : req'[d] = IF d = c THEN q ELSE req[d]
  BY DEF IInv, TablesOK, Send
<1>3. TablesOK'
  BY DEF IInv, TablesOK, Send
<1>4. TokenMatchesPassword' /\ OneWelcome'
  <2>1. \A t \in Try : stage'[t] \in Id => stage'[t] = stage[t] /\ req'[t[1]] = req[t[1]]
    BY <1>1, <1>2, AnswersDiffer, TryFacts
  <2>2. users' = users /\ told' = told
    BY DEF Send
  <2>3. QED
    BY <2>1, <2>2, QuietSafe DEF IInv
<1>5. c \notin entitled /\ c \notin own
  BY <1>1 DEF IInv, CallsOK, Entitled, OwnIsServed, Free
<1>6. Asking'
  BY <1>1, <1>2 DEF IInv, CallsOK, Asking
<1>7. Entitled'
  <2>1. ASSUME NEW d \in entitled'
        PROVE  ~ Free(d)' /\ \E k \in told' : Names(k, req'[d])
    <3>1. CASE d = c
      BY <1>1, <1>2, <1>5, <2>1, <3>1 DEF Send
    <3>2. CASE d # c
      <4>1. d \in entitled /\ d \in Call /\ told' = told
        BY <2>1, <3>2 DEF Send, IInv, TablesOK
      <4>2. QED
        BY <1>1, <1>2, <3>2, <4>1 DEF IInv, CallsOK, Entitled
    <3>3. QED
      BY <3>1, <3>2
  <2>2. QED
    BY <2>1 DEF Entitled
<1>8. LoginStaysGood'
  <2> SUFFICES ASSUME NEW d \in entitled', req'[d].op = "login",
                      NEW t \in TriesOf(d), stage'[t] = "refused"
               PROVE  FALSE
    BY DEF LoginStaysGood, TriesOf
  <2>1. d \in Call /\ t \in Try /\ t[1] = d
    BY <1>3, TryFacts DEF TablesOK
  <2>2. d # c
    BY <1>1, <2>1
  <2>3. d \in entitled /\ stage[t] = "refused" /\ req[d].op = "login"
    BY <1>1, <1>2, <2>1, <2>2 DEF Send
  <2>4. QED
    BY <2>1, <2>3 DEF IInv, CallsOK, LoginStaysGood
<1>9. OwnIsServed'
  <2> SUFFICES ASSUME NEW d \in own
               PROVE  /\ Pending(d)'
                      /\ tries'[d] = 1 => stage'[<<d, 1>>] \in Id \cup {"error"}
    BY DEF OwnIsServed, Send
  <2>1. d # c /\ d \in Call /\ <<d, 1>> \in Try /\ <<d, 1>>[1] = d
    BY <1>5, TryFacts, NumRetriesAssumption DEF IInv, TablesOK
  <2>2. tries'[d] = tries[d] /\ stage'[<<d, 1>>] = stage[<<d, 1>>]
    BY <1>1, <2>1 DEF IInv, Orderly, MeshTypeOK
  <2>3. QED
    BY <2>2 DEF IInv, CallsOK, OwnIsServed, Pending
<1>10. QED
  BY <1>1, <1>3, <1>4, <1>6, <1>7, <1>8, <1>9 DEF IInv, CallsOK

LEMMA TryAgainIInv ==
  ASSUME IInv, NEW c \in Call, TryAgain(c)
  PROVE  IInv'
<1>1. /\ Orderly' /\ tries'[c] > 1
      /\ tries' = [tries EXCEPT ![c] = @ + 1]
      /\ \A t \in Try : stage'[t] # stage[t] => t[1] = c
      /\ \A t \in Try : t[1] = c => stage'[t] \in {"none", "run"}
      /\ \A d \in Call : Free(d)' <=> Free(d)
  BY RetryOrderly DEF IInv, TryAgain
<1>2. /\ UNCHANGED <<users, redis, req, own, entitled, told>>
      /\ TablesOK /\ CallsOK
  BY DEF TryAgain, IInv
<1>3. TablesOK'
  BY <1>2 DEF TablesOK
<1>4. TokenMatchesPassword' /\ OneWelcome'
  BY <1>1, <1>2, AnswersDiffer, QuietSafe DEF IInv
<1>5. Asking' /\ Entitled' /\ LoginStaysGood'
  <2>1. \A t \in Try : stage'[t] = "refused" => stage[t] = "refused"
    BY <1>1
  <2>2. \A d \in entitled : ~ Free(d)'
    BY <1>1, <1>2 DEF CallsOK, Entitled, TablesOK
  <2>3. QED
    BY <1>1, <1>2, <2>1, <2>2, CallsKept DEF TablesOK
<1>6. OwnIsServed'
  <2> SUFFICES ASSUME NEW d \in own
               PROVE  /\ Pending(d)'
                      /\ tries'[d] = 1 => stage'[<<d, 1>>] \in Id \cup {"error"}
    BY <1>2 DEF OwnIsServed
  <2>1. d \in Call /\ <<d, 1>> \in Try /\ <<d, 1>>[1] = d
    BY <1>2, TryFacts, NumRetriesAssumption DEF TablesOK
  <2>2. CASE d = c
    BY <1>1, <2>2 DEF Pending, IInv, Orderly, MeshTypeOK
  <2>3. CASE d # c
    <3>1. tries'[d] = tries[d] /\ stage'[<<d, 1>>] = stage[<<d, 1>>]
      BY <1>1, <2>1, <2>3 DEF IInv, Orderly, MeshTypeOK
    <3>2. QED
      BY <1>2, <3>1 DEF CallsOK, OwnIsServed, Pending
  <2>4. QED
    BY <2>2, <2>3
<1>7. QED
  BY <1>1, <1>3, <1>4, <1>5, <1>6 DEF IInv, CallsOK

(* Steps of Redis, and none at all.                                        *)
LEMMA RestIInv ==
  ASSUME IInv, (\E id \in Id : ExpireToken(id)) \/ UNCHANGED vars
  PROVE  IInv'
<1>1. /\ UNCHANGED <<tries, stage, users, req, own, entitled, told>>
      /\ redis' \subseteq redis
  BY DEF ExpireToken, mesh, history, vars
<1>2. Orderly'
  BY <1>1 DEF IInv, Orderly, MeshTypeOK, Latest, Pending
<1>3. TablesOK'
  BY <1>1 DEF IInv, TablesOK
<1>4. CallsOK'
  BY <1>1 DEF IInv, CallsOK, Asking, Entitled, LoginStaysGood, OwnIsServed, Free, Pending
<1>5. TokenMatchesPassword' /\ OneWelcome'
  BY <1>1 DEF IInv, TokenMatchesPassword, OneWelcome, Welcomes
<1>6. QED
  BY <1>2, <1>3, <1>4, <1>5 DEF IInv

LEMMA NextIInv == IInv /\ [Next]_vars => IInv'
<1> SUFFICES ASSUME IInv, [Next]_vars PROVE IInv'
  OBVIOUS
<1>1. ASSUME NEW c \in Call, NEW q \in Request, Send(c, q) PROVE IInv'
  BY <1>1, SendIInv
<1>2. ASSUME NEW c \in Call, Reply(c) PROVE IInv'
  BY <1>2, CloseIInv DEF Reply, Forward
<1>3. ASSUME NEW c \in Call, ReplyError(c) \/ Leave(c) PROVE IInv'
  BY <1>3, CloseIInv DEF ReplyError, Leave, GiveUp, Hangup, Unanswered
<1>4. ASSUME NEW c \in Call, TryAgain(c) PROVE IInv'
  BY <1>4, TryAgainIInv
<1>5. ASSUME NEW t \in Try, Serve(t) \/ ServeFails(t) PROVE IInv'
  BY <1>5, ServeIInv
<1>6. CASE (\E id \in Id : ExpireToken(id)) \/ UNCHANGED vars
  BY <1>6, RestIInv
<1>7. QED
  BY <1>1, <1>2, <1>3, <1>4, <1>5, <1>6 DEF Next

(* All parts of the invariant hold together.                               *)
THEOREM Invariance == Spec => []IInv
  BY InitIInv, NextIInv, PTL DEF Spec

(***************************************************************************)
(* Every reachable state of the auth service and its calls is well typed.  *)
(***************************************************************************)
THEOREM TypeCorrect == Spec => []TypeOK
  BY IInvTypes, Invariance, PTL

(***************************************************************************)
(* For any number of clients and retries, no client ever gets a token of   *)
(* an account whose email and password are not hers (auth.go:40-141).      *)
(***************************************************************************)
THEOREM TokenMatchesPasswordCorrect == Spec => []TokenMatchesPassword
<1>1. IInv => TokenMatchesPassword
  BY DEF IInv
<1>2. QED
  BY <1>1, Invariance, PTL

(***************************************************************************)
(* However many tries register an email, one of them at most is answered   *)
(* with a token.                                                           *)
(***************************************************************************)
THEOREM OneWelcomeCorrect == Spec => []OneWelcome
<1>1. IInv => OneWelcome
  BY DEF IInv
<1>2. QED
  BY <1>1, Invariance, PTL

(***************************************************************************)
(* Who got a token is never refused when she logs in, whatever others do.  *)
(***************************************************************************)
THEOREM LoginStaysGoodCorrect == Spec => []LoginStaysGood
<1>1. IInv => LoginStaysGood
  BY DEF IInv, CallsOK
<1>2. QED
  BY <1>1, Invariance, PTL

(***************************************************************************)
(* A client whose own registration takes her email is told so only after a *)
(* retry (auth.go:74-76).                                                  *)
(***************************************************************************)
THEOREM OwnRefusalIsRetryCorrect == Spec => []OwnRefusalIsRetry
<1>1. IInv => OwnRefusalIsRetry
  <2> SUFFICES ASSUME IInv, NEW c \in own, stage[Latest(c)] = "refused"
               PROVE  tries[c] > 1
    BY DEF OwnRefusalIsRetry
  <2>1. tries[c] \in Nat /\ tries[c] > 0
    <3>1. c \in Call /\ Pending(c)
      BY DEF IInv, TablesOK, CallsOK, OwnIsServed
    <3>2. QED
      BY <3>1, NumRetriesAssumption DEF IInv, Orderly, MeshTypeOK, Pending
  <2>2. tries[c] # 1
    BY AnswersDiffer DEF IInv, CallsOK, OwnIsServed, Latest
  <2>3. QED
    BY <2>1, <2>2
<1>2. QED
  BY <1>1, Invariance, PTL

-----------------------------------------------------------------------------
(* Accounts are made and never changed; a call is called one's own when a  *)
(* try of it makes one, and a call that is one's own is remembered.        *)
LEMMA OwnSteps ==
  ASSUME IInv, IInv', [Next]_vars
  PROVE  /\ users \subseteq users'
         /\ \A c \in own \cap own' : req'[c] = req[c]
         /\ \A c \in own' \ own : \E a \in users' : Names(a, req'[c])
<1> DEFINE Goal == /\ users \subseteq users'
                   /\ \A c \in own \cap own' : req'[c] = req[c]
                   /\ \A c \in own' \ own : \E a \in users' : Names(a, req'[c])
<1>1. \A c \in own : c \in Call /\ ~ Free(c)
  BY DEF IInv, TablesOK, CallsOK, OwnIsServed, Free
<1>2. \A c \in own' : c \in Call /\ ~ Free(c)'
  BY DEF IInv, TablesOK, CallsOK, OwnIsServed, Free
<1>3. ASSUME own' \subseteq own, users' = users, Forget \/ req' = req
      PROVE  Goal
  BY <1>2, <1>3, ForgetFacts
<1>4. ASSUME NEW c \in Call, NEW q \in Request, Send(c, q)
      PROVE  Goal
  BY <1>1, <1>4 DEF Send, Open, IInv, TablesOK
<1>5. ASSUME NEW c \in Call, Reply(c) \/ ReplyError(c) \/ TryAgain(c) \/ Leave(c)
      PROVE  Goal
  BY <1>3, <1>5 DEF Reply, ReplyError, TryAgain, Leave, Unanswered
<1>6. ASSUME NEW t \in Try, ServeFails(t) \/ (Serve(t) /\ ~ Register(t, req[t[1]]))
      PROVE  Goal
  BY <1>3, <1>6 DEF Serve, ServeFails, RegisterTaken, Login, LoginDenied, Fail
<1>7. ASSUME NEW t \in Try, Serve(t), Register(t, req[t[1]])
      PROVE  Goal
  <2> DEFINE q == req[t[1]]
  <2>1. PICK id \in Id :
          users' = users \cup {[id |-> id, email |-> q.email, password |-> q.password]}
    BY <1>7 DEF Register
  <2>2. \E a \in users' : Names(a, q)
    <3> DEFINE a == [id |-> id, email |-> q.email, password |-> q.password]
    <3>1. a \in users' /\ Names(a, q)
      BY <2>1 DEF Names
    <3> HIDE DEF a
    <3>2. QED
      BY <3>1
  <2>3. own' \subseteq own \cup {t[1]} /\ Forget
    BY <1>7 DEF Register, Made, Serve
  <2>4. \A c \in own' : req'[c] = req[c]
    BY <1>2, <2>3, ForgetFacts
  <2>5. QED
    BY <2>1, <2>2, <2>3, <2>4
<1>8. CASE (\E id \in Id : ExpireToken(id)) \/ UNCHANGED vars
  BY <1>3, <1>8 DEF ExpireToken, history, vars
<1>9. QED
  BY <1>4, <1>5, <1>6, <1>7, <1>8 DEF Next

(***************************************************************************)
(* For any number of retries, late tries and lost answers: an account that *)
(* her registration made opens with the client's own password, until she   *)
(* is answered (auth.go:66-81).                                            *)
(***************************************************************************)
THEOREM OwnAccountOpensCorrect == Spec => []OwnAccountOpens
<1>1. Init => OwnAccountOpens
  BY DEF Init, OwnAccountOpens
<1>2. IInv /\ IInv' /\ OwnAccountOpens /\ [Next]_vars => OwnAccountOpens'
  <2> SUFFICES ASSUME IInv, IInv', OwnAccountOpens, [Next]_vars, NEW c \in own'
               PROVE  \E a \in users' : Names(a, req'[c])
    BY DEF OwnAccountOpens, Names
  <2>1. CASE c \in own
    BY <2>1, OwnSteps DEF OwnAccountOpens
  <2>2. CASE c \notin own
    BY <2>2, OwnSteps
  <2>3. QED
    BY <2>1, <2>2
<1>3. QED
  BY <1>1, <1>2, Invariance, PTL DEF Spec
=============================================================================
