------------------------------ MODULE Accounts ------------------------------
(***************************************************************************)
(* The auth service (handler/auth.go) behind its Envoy: clients register   *)
(* and log in, a try may be served late, twice or not at all, and clients  *)
(* learn what the last try learned.                                        *)
(*                                                                         *)
(* A handler is one step, that of its query: rows are never changed, so it *)
(* makes no difference when the rest of it runs.  A password stands for    *)
(* its hash, a token for the id it carries.  Requests refused for method   *)
(* or body, and Health, change nothing and are left out.                   *)
(***************************************************************************)
EXTENDS Mesh

CONSTANTS Email, Password, Id, NoRequest

User == [id : Id, email : Email, password : Password]
Request == [op : {"register", "login"}, email : Email, password : Password]
Token == [op : {"register", "login"}, email : Email, password : Password, id : Id]

ASSUME AccountAnswers == Answer = Id \cup {"refused"} /\ "refused" \notin Id
ASSUME NoRequestAssumption == NoRequest \notin Request

VARIABLES
  users,     \* the table
  redis,     \* the ids whose token Redis keeps
  req,       \* what each call asks for
  own,       \* the calls of which a try made an account (history)
  entitled,  \* the calls of clients who had been given a token before (history)
  told       \* the tokens clients got, and what for (history)

history == <<own, entitled, told>>
vars == <<tries, stage, users, redis, req, own, entitled, told>>

TypeOK ==
  /\ MeshTypeOK
  /\ users \subseteq User
  /\ redis \subseteq Id
  /\ req \in [Call -> Request \cup {NoRequest}]
  /\ own \subseteq Call /\ entitled \subseteq Call
  /\ told \subseteq Token

Init ==
  /\ MeshInit
  /\ users = {} /\ redis = {}
  /\ req = [c \in Call |-> NoRequest]
  /\ own = {} /\ entitled = {} /\ told = {}

Names(x, y) == x.email = y.email /\ x.password = y.password

\* A client sends a request; a client that got a token knows that it may log in.
Send(c, q) ==
  /\ Open(c)
  /\ req' = [req EXCEPT ![c] = q]
  /\ entitled' = IF \E k \in told : Names(k, q) THEN entitled \cup {c} ELSE entitled
  /\ UNCHANGED <<users, redis, own, told>>

\* Requests are forgotten when the last of their tries is over.
Forget ==
  /\ req' = [c \in Call |-> IF Free(c)' THEN NoRequest ELSE req[c]]
  /\ entitled' = {c \in entitled : ~ Free(c)'}

-----------------------------------------------------------------------------
(* Serving the try t, whose request is q.                                  *)

Made(t) == own \cup {c \in {t[1]} : Pending(c)}

Taken(email) == \E a \in users : a.email = email

RegisterOverwrites(t, q) ==
  /\ q.op = "register"
  /\ \E id \in Id \ {a.id : a \in users} :
       /\ users' = {a \in users : a.email # q.email}
                     \cup {[id |-> id, email |-> q.email, password |-> q.password]}
       /\ Finish(t, id)
  /\ own' = Made(t)
  /\ UNCHANGED redis

RegisterErrorAsTaken(t, q) ==
  /\ q.op = "register" /\ ~ Taken(q.email)
  /\ \E id \in Id \ {a.id : a \in users} :
       /\ users' = users \cup {[id |-> id, email |-> q.email, password |-> q.password]}
       /\ Finish(t, id) \/ Finish(t, "refused")
  /\ own' = Made(t)
  /\ UNCHANGED redis

RegisterReturningId(t, q) ==
  /\ q.op = "register"
  /\ \/ /\ ~ Taken(q.email)
        /\ \E id \in Id \ {a.id : a \in users} :
             /\ users' = users \cup {[id |-> id, email |-> q.email, password |-> q.password]}
             /\ Finish(t, id)
        /\ own' = Made(t)
     \/ /\ \E a \in users : a.email = q.email /\ Finish(t, a.id)
        /\ UNCHANGED <<users, own>>
  /\ UNCHANGED redis

\* INSERT ... RETURNING id, then the token.  An answer that is lost, or a
\* token that cannot be made, is a 500 for what has been done.  Ids come
\* from a sequence with gaps: any unused one may be next.
Register(t, q) ==
  /\ q.op = "register" /\ ~ Taken(q.email)
  /\ \E id \in Id \ {a.id : a \in users} :
       /\ users' = users \cup {[id |-> id, email |-> q.email, password |-> q.password]}
       /\ Finish(t, id) \/ TryFails(t)
  /\ own' = Made(t)
  /\ UNCHANGED redis

\* The unique constraint on the email: 409.
RegisterTaken(t, q) ==
  /\ q.op = "register" /\ Taken(q.email)
  /\ Finish(t, "refused")
  /\ UNCHANGED <<users, redis, own>>

LoginUnchecked(t, q) ==
  /\ q.op = "login"
  /\ \E a \in users :
       /\ a.email = q.email
       /\ Finish(t, a.id)
       /\ redis' \in {redis, redis \cup {a.id}}
  /\ UNCHANGED <<users, own>>

\* The token is kept in Redis under its own name, if Redis answers; nobody
\* looks for it there.
Login(t, q) ==
  /\ q.op = "login"
  /\ \E a \in users :
       /\ Names(a, q)
       /\ Finish(t, a.id)
       /\ redis' \in {redis, redis \cup {a.id}}
  /\ UNCHANGED <<users, own>>

\* No such email, or another password: 401.
LoginDenied(t, q) ==
  /\ q.op = "login" /\ ~ \E a \in users : Names(a, q)
  /\ Finish(t, "refused")
  /\ UNCHANGED <<users, redis, own>>

\* The try fails before its query is carried out.
Fail(t) == TryFails(t) /\ UNCHANGED <<users, redis, own>>

Serve(t) ==
  /\ stage[t] = "run"
  /\ LET q == req[t[1]] IN \/ Register(t, q) \/ RegisterTaken(t, q)
                           \/ Login(t, q) \/ LoginDenied(t, q)
  /\ Forget /\ UNCHANGED told

ServeFails(t) == Fail(t) /\ Forget /\ UNCHANGED told

-----------------------------------------------------------------------------
(* Envoy and the client.                                                   *)

Given(c) ==
  {[op |-> req[c].op, email |-> req[c].email, password |-> req[c].password, id |-> id] :
     id \in Id \cap {stage[Latest(c)]}}

\* The client of c gets its answer and, if there is one, its token.
Reply(c) ==
  /\ Forward(c)
  /\ told' = told \cup Given(c)
  /\ own' = own \ {c}
  /\ Forget /\ UNCHANGED <<users, redis>>

\* The client of c is left without a token.
Unanswered(c) ==
  /\ own' = own \ {c}
  /\ Forget /\ UNCHANGED <<users, redis, told>>

ReplyError(c) == GiveUp(c) /\ Unanswered(c)
Leave(c) == Hangup(c) /\ Unanswered(c)

TryAgain(c) == Retry(c) /\ UNCHANGED <<users, redis, req, own, entitled, told>>

\* Twenty-four hours are over, or the key makes room for others.
ExpireToken(id) ==
  /\ id \in redis
  /\ redis' = redis \ {id}
  /\ UNCHANGED <<mesh, users, req, history>>

Next ==
  \/ \E c \in Call : \/ \E q \in Request : Send(c, q)
                     \/ Reply(c) \/ ReplyError(c) \/ TryAgain(c) \/ Leave(c)
  \/ \E t \in Try : Serve(t) \/ ServeFails(t)
  \/ \E id \in Id : ExpireToken(id)

Spec == Init /\ [][Next]_vars

-----------------------------------------------------------------------------
\* An account is registered, and its id or its password is under way in t.
Welcomes(t) == stage[t] \in Id /\ req[t[1]].op = "register"

(***************************************************************************)
(* A token, with a client or on its way, is that of the account with the   *)
(* client's own email and password: neither a registration whose email is  *)
(* taken nor a retried one can end up with another's account.              *)
(***************************************************************************)
TokenMatchesPassword ==
  /\ \A k \in told : \E a \in users : a.id = k.id /\ Names(a, k)
  /\ \A t \in Try : stage[t] \in Id =>
       \E a \in users : a.id = stage[t] /\ Names(a, req[t[1]])

(***************************************************************************)
(* An email is registered once: of all the tries that register it, by any  *)
(* clients, retried or late, one is answered with a token (auth.go:63-81). *)
(***************************************************************************)
OneWelcome ==
  \A t \in Try : Welcomes(t) =>
    LET email == req[t[1]].email
    IN /\ \A k \in told : k.op = "register" => k.email # email
       /\ \A s \in Try \ {t} : Welcomes(s) => req[s[1]].email # email

(***************************************************************************)
(* Who was given a token can log in with the same email and password from  *)
(* then on, whatever others register or retry later.                       *)
(***************************************************************************)
LoginStaysGood ==
  \A c \in entitled : req[c].op = "login" => \A t \in TriesOf(c) : stage[t] # "refused"

(***************************************************************************)
(* While a client waits for her registration, an account that one of its   *)
(* tries made opens with her password, also when a later try is refused    *)
(* or fails (auth.go:66-81): she can log in instead of registering again.  *)
(***************************************************************************)
OwnAccountOpens == \A c \in own : \E a \in users : Names(a, req[c])

(***************************************************************************)
(* Only a retry tells a client that her email is taken when it is her own  *)
(* registration that took it (auth.go:74-76).                              *)
(***************************************************************************)
OwnRefusalIsRetry ==
  \A c \in own : stage[Latest(c)] = "refused" => tries[c] > 1
=============================================================================
