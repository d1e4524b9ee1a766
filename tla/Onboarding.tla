----------------------------- MODULE Onboarding -----------------------------
(***************************************************************************)
(* The dashboard of one browser (frontend/app.js), which users share, the  *)
(* Envoy in front of the user service, and that service, as far as         *)
(* Profiles implements it: a GET may show any profile its user ever had,   *)
(* and the pack of a completed onboarding is granted once or lost.         *)
(*                                                                         *)
(* The page runs on when answers are late: they are taken for those of the *)
(* user who is logged in by then, and the step survives a logout.          *)
(***************************************************************************)
EXTENDS Mesh

CONSTANTS
  User,
  LastStep,  \* the step that completes the onboarding (5 in user.go)
  PackCap,   \* packs are counted up to this bound
  MaxCalls   \* the page calls the user service that often

Step == 1 .. LastStep

ASSUME UserAssumption == "nobody" \notin User
ASSUME LastStepAssumption == LastStep \in Nat /\ LastStep > 1
ASSUME PackCapAssumption == PackCap \in Nat
ASSUME MaxCallsAssumption == MaxCalls \in Nat
ASSUME ServiceAnswers == Answer = {"ok", "refused"}

VARIABLES
  row,       \* the table: the step of each user's profile, 0 for no row
  past,      \* the steps each user's profile was at, any of which may be cached
  claims,    \* for each user, the tries that are to ask for a pack
  packs,     \* the starter packs each user got, counted up to PackCap
  accounts,  \* who has an account
  token,     \* who is logged in
  screen,    \* "auth" or "dashboard"
  step,      \* currentStep
  shown,     \* whose profile was shown last (history)
  hidden,    \* the button for the next step is hidden
  loads,     \* whose profiles this page has asked for
  who,       \* the token of each call
  asks,      \* the step of its PATCH, 0 for the POST of a profile
  made,      \* the calls made, up to MaxCalls
  blame      \* what went wrong with each user's requests (history)

service == <<row, past, claims, packs>>
page == <<token, screen, step, shown, hidden, loads>>
calls == <<who, asks, made>>
vars == <<tries, stage, row, past, claims, packs, accounts, token, screen, step,
          shown, hidden, loads, who, asks, made, blame>>

Somebody == User \cup {"nobody"}

\* A click may be made behind another user's step, or in haste; and Envoy may
\* retry a last step although the try before has not failed.
Clicks == {"stranger", "haste"}
Causes == Clicks \cup {"retry"}

TypeOK ==
  /\ MeshTypeOK
  /\ row \in [User -> Step \cup {0}] /\ past \in [User -> SUBSET Step]
  /\ claims \in [User -> SUBSET Try] /\ packs \in [User -> 0 .. PackCap]
  /\ accounts \subseteq User
  /\ token \in Somebody /\ screen \in {"auth", "dashboard"}
  /\ step \in Step /\ shown \in Somebody /\ hidden \in BOOLEAN
  /\ loads \subseteq User
  /\ who \in [Call -> Somebody] /\ asks \in [Call -> 0 .. LastStep + 1]
  /\ made \in 0 .. MaxCalls
  /\ blame \in [User -> SUBSET Causes]

Init ==
  /\ MeshInit
  /\ row = [u \in User |-> 0] /\ past = [u \in User |-> {}]
  /\ claims = [u \in User |-> {}] /\ packs = [u \in User |-> 0]
  /\ accounts = {}
  /\ token = "nobody" /\ screen = "auth" /\ loads = {}
  /\ step = 1 /\ shown = "nobody" /\ hidden = FALSE
  /\ who = [c \in Call |-> "nobody"] /\ asks = [c \in Call |-> 0] /\ made = 0
  /\ blame = [u \in User |-> {}]

\* Calls are forgotten when the last of their tries is over.
Forget ==
  /\ who' = [c \in Call |-> IF Free(c)' THEN "nobody" ELSE who[c]]
  /\ asks' = [c \in Call |-> IF Free(c)' THEN 0 ELSE asks[c]]
  /\ UNCHANGED made

-----------------------------------------------------------------------------
(* The user service, one step of it for each try.                          *)

Put(u, s) ==
  /\ row' = [row EXCEPT ![u] = s]
  /\ past' = [past EXCEPT ![u] = @ \cup {s}]

\* CreateProfile; the answer of the INSERT may be lost.
Create(t, u) ==
  /\ asks[t[1]] = 0 /\ row[u] = 0
  /\ Put(u, 1)
  /\ Finish(t, "ok") \/ TryFails(t)
  /\ UNCHANGED <<claims, packs>>

\* user_id is UNIQUE; the handler does not tell this error from others.
CreateAgain(t, u) ==
  /\ asks[t[1]] = 0 /\ row[u] # 0
  /\ Finish(t, "error")
  /\ UNCHANGED service

UpdateUpserting(t, u) ==
  /\ asks[t[1]] # 0
  /\ Put(u, asks[t[1]])
  /\ Finish(t, "ok")
  /\ claims' = IF asks[t[1]] = LastStep THEN [claims EXCEPT ![u] = @ \cup {t}] ELSE claims
  /\ UNCHANGED packs

UpdateCachedStep(t, u) ==
  /\ asks[t[1]] # 0 /\ row[u] # 0
  /\ \E s \in past[u] : Put(u, IF s < LastStep THEN s + 1 ELSE s)
  /\ Finish(t, "ok")
  /\ UNCHANGED <<claims, packs>>

\* UpdateOnboarding; the last step sends for a pack.
Update(t, u) ==
  /\ asks[t[1]] # 0 /\ row[u] # 0
  /\ Put(u, asks[t[1]])
  /\ Finish(t, "ok")
  /\ claims' = IF asks[t[1]] = LastStep THEN [claims EXCEPT ![u] = @ \cup {t}] ELSE claims
  /\ UNCHANGED packs

UpdateUnansweredClaiming(t, u) ==
  /\ asks[t[1]] # 0 /\ row[u] # 0
  /\ Put(u, asks[t[1]])
  /\ TryFails(t)
  /\ claims' = IF asks[t[1]] = LastStep THEN [claims EXCEPT ![u] = @ \cup {t}] ELSE claims
  /\ UNCHANGED packs

\* The UPDATE is carried out and its answer lost: 500, and no pack.
UpdateUnanswered(t, u) ==
  /\ asks[t[1]] # 0 /\ row[u] # 0
  /\ Put(u, asks[t[1]])
  /\ TryFails(t)
  /\ UNCHANGED <<claims, packs>>

\* No such profile.
NotFound(t, u) ==
  /\ asks[t[1]] # 0 /\ row[u] = 0
  /\ Finish(t, "refused")
  /\ UNCHANGED service

\* No valid token.
Unauthorized(t) ==
  /\ who[t[1]] = "nobody"
  /\ Finish(t, "refused")
  /\ UNCHANGED service

\* The try fails before its statement is carried out.
Fail(t) == TryFails(t) /\ UNCHANGED service

Handle(t, u) ==
  \/ Create(t, u) \/ CreateAgain(t, u)
  \/ Update(t, u) \/ UpdateUnanswered(t, u) \/ NotFound(t, u)

Serve(t) ==
  /\ stage[t] = "run"
  /\ \/ \E u \in User \cap {who[t[1]]} : Handle(t, u)
     \/ Unauthorized(t) \/ Fail(t)
  /\ Forget /\ UNCHANGED <<accounts, page, blame>>

GrantKeepingClaim(u, t) ==
  /\ t \in claims[u]
  /\ packs' = [packs EXCEPT ![u] = IF @ < PackCap THEN @ + 1 ELSE @]
  /\ UNCHANGED <<mesh, row, past, claims, accounts, page, calls, blame>>

\* assignStarterPack: the inventory service assigns the pack.
Grant(u, t) ==
  /\ t \in claims[u]
  /\ claims' = [claims EXCEPT ![u] = @ \ {t}]
  /\ packs' = [packs EXCEPT ![u] = IF @ < PackCap THEN @ + 1 ELSE @]
  /\ UNCHANGED <<mesh, row, past, accounts, page, calls, blame>>

\* The call fails, or the pack comes short, or the user service dies.
LoseClaim(u, t) ==
  /\ "error" \in Faults
  /\ t \in claims[u]
  /\ claims' = [claims EXCEPT ![u] = @ \ {t}]
  /\ UNCHANGED <<mesh, row, past, packs, accounts, page, calls, blame>>

-----------------------------------------------------------------------------
(* The page.                                                               *)

\* It calls the service for the user u.
Ask(c, u, s) ==
  /\ \A v \in User : claims[v] \cap TriesOf(c) = {}
  /\ Open(c)
  /\ who' = [who EXCEPT ![c] = u]
  /\ asks' = [asks EXCEPT ![c] = s]
  /\ made < MaxCalls /\ made' = made + 1

\* showDashboard, for whoever is logged in, u.
Show(u) ==
  /\ screen' = "dashboard"
  /\ loads' = loads \cup ({u} \cap User)

\* handleRegister, up to the POST of the profile: u is logged in already.
Register(c, u) ==
  /\ screen = "auth" /\ u \notin accounts
  /\ accounts' = accounts \cup {u}
  /\ token' = u
  /\ Ask(c, u, 0)
  /\ UNCHANGED <<service, screen, step, shown, hidden, loads, blame>>

\* An account is made and nobody told; see Accounts.
RegisterUnheard(u) ==
  /\ screen = "auth" /\ u \notin accounts
  /\ accounts' = accounts \cup {u}
  /\ UNCHANGED <<mesh, service, page, calls, blame>>

\* The answer to the POST, whatever it is.
ProfileAnswer(c) ==
  /\ asks[c] = 0
  /\ Forward(c) \/ GiveUp(c)
  /\ Show(token)
  /\ Forget
  /\ UNCHANGED <<service, accounts, token, step, shown, hidden, blame>>

\* handleLogin.
Login(u) ==
  /\ screen = "auth" /\ u \in accounts
  /\ token' = u
  /\ Show(u)
  /\ UNCHANGED <<mesh, service, accounts, step, shown, hidden, calls, blame>>

Logout ==
  /\ screen = "dashboard"
  /\ token' = "nobody" /\ screen' = "auth"
  /\ UNCHANGED <<mesh, service, accounts, step, shown, hidden, loads, calls, blame>>

\* updateStepper with u's step s.
Stepper(u, s) ==
  /\ step' = s /\ shown' = u
  /\ hidden' = (s = LastStep)

\* loadProfile gets a profile.  There may be another answer to come, since
\* each login asks again; one that fails, or never comes, changes nothing.
LoadAnswer(u) ==
  /\ u \in loads
  /\ \E s \in past[u] : Stepper(u, s)
  /\ UNCHANGED <<mesh, service, accounts, token, screen, loads, calls, blame>>

\* A call of u is not answered, or a try of it may still be served: one that
\* Envoy gave up, although the next was answered, or one whose connection broke.
InFlight(u) == \E c \in Call : who[c] = u

\* The click is made behind another user's step; or in haste, on a page that
\* does not show the row, or while an earlier request, or an abandoned try of
\* one that was answered, is under way.
Why(u) ==
  {cause \in Clicks : \/ cause = "stranger" /\ shown \notin {u, "nobody"}
                      \/ cause = "haste" /\ (step # row[u] \/ InFlight(u))}

ClickShowingNextStep(c) ==
  /\ screen = "dashboard" /\ ~ hidden
  /\ Ask(c, token, step + 1)
  /\ Stepper(token, step + 1)
  /\ UNCHANGED <<service, accounts, token, screen, loads, blame>>

\* advanceStep, up to the PATCH.
Click(c) ==
  /\ screen = "dashboard" /\ ~ hidden
  /\ Ask(c, token, step + 1)
  /\ blame' = [u \in User |-> IF u = token THEN blame[u] \cup Why(u) ELSE blame[u]]
  /\ UNCHANGED <<service, accounts, page>>

\* The rest of advanceStep, whoever is logged in now.
Advance(c) ==
  /\ asks[c] # 0
  /\ Forward(c) /\ stage[Latest(c)] = "ok"
  /\ Stepper(who[c], asks[c])
  /\ Forget
  /\ UNCHANGED <<service, accounts, token, screen, loads, blame>>

\* Not ok, and the page stays as it is.
Remain(c) ==
  /\ asks[c] # 0
  /\ \/ Forward(c) /\ stage[Latest(c)] = "refused"
     \/ GiveUp(c)
  /\ Forget
  /\ UNCHANGED <<service, accounts, page, blame>>

\* The connection breaks: after a POST the user is logged in and has to log
\* in again, or reload the page.
Break(c) ==
  /\ Hangup(c)
  /\ Forget
  /\ UNCHANGED <<service, accounts, page, blame>>

Reload ==
  /\ "hangup" \in Faults
  /\ Close({c \in Call : Pending(c)})
  /\ step' = 1 /\ shown' = "nobody" /\ hidden' = FALSE
  /\ screen' = IF token = "nobody" THEN "auth" ELSE "dashboard"
  /\ loads' = {token} \ {"nobody"}
  /\ Forget
  /\ UNCHANGED <<service, accounts, token, blame>>

\* Envoy tries again; the try before, if it did not fail, may be served yet.
TryAgain(c) ==
  /\ Retry(c)
  /\ blame' = [u \in User |->
                IF u = who[c] /\ asks[c] = LastStep /\ stage[Latest(c)] # "error"
                THEN blame[u] \cup {"retry"} ELSE blame[u]]
  /\ UNCHANGED <<service, accounts, page, calls>>

Answered(c) == ProfileAnswer(c) \/ Advance(c) \/ Remain(c)

Next ==
  \/ \E c \in Call : \/ \E u \in User : Register(c, u)
                     \/ Click(c) \/ Answered(c) \/ TryAgain(c) \/ Break(c)
  \/ \E t \in Try : Serve(t) \/ \E u \in User : Grant(u, t) \/ LoseClaim(u, t)
  \/ \E u \in User : RegisterUnheard(u) \/ Login(u) \/ LoadAnswer(u)
  \/ Logout \/ Reload

Spec == Init /\ [][Next]_vars

-----------------------------------------------------------------------------
(***************************************************************************)
(* The user service as the dashboard uses it is the one that Profiles      *)
(* implements: profiles that were true once, one pack for a claim.         *)
(***************************************************************************)
Store == INSTANCE ProfileStore WITH copies <- past, Ticket <- Try

ImplementsStore == Store!Spec

(***************************************************************************)
(* The page shows a step that somebody's profile had, or the first one,    *)
(* and hides the button at the last: no user goes beyond it.               *)
(***************************************************************************)
PageWasTrue ==
  /\ step \in IF shown = "nobody" THEN {1} ELSE past[shown]
  /\ hidden <=> step = LastStep
  /\ \A c \in Call : asks[c] <= LastStep

(***************************************************************************)
(* A user goes through all the steps, in whatever order requests, retries  *)
(* and answers come, unless she clicked on another user's step, which a    *)
(* shared browser shows until the profile is loaded (app.js:3, 72, 112).   *)
(***************************************************************************)
SkipHasCause ==
  \A u \in User : "stranger" \notin blame[u] =>
    \A s \in past[u] : 1 .. s \subseteq past[u]

(***************************************************************************)
(* Retries alone never take a user back a step (user.go:142-150): it takes *)
(* a click behind another user's step, one on an outdated page, or one     *)
(* while an earlier request may still be carried out - the page may have   *)
(* had the answer to it, and only a try that Envoy abandoned be left.      *)
(***************************************************************************)
BackHasCause ==
  [][\A u \in User : row'[u] < row[u] => blame[u] \cap Clicks # {}]_vars

(***************************************************************************)
(* A second pack, or one on its way beside another, has a cause: a click   *)
(* that the page should not have offered, or a retry of the last step      *)
(* while the try before might still be served (envoy-user.yml:39).  An     *)
(* UPDATE whose answer is lost and that is tried again is none             *)
(* (user.go:157-168).                                                      *)
(***************************************************************************)
SecondPackHasCause ==
  \A u \in User : blame[u] = {} =>
    /\ packs[u] <= 1
    /\ \A s, t \in claims[u] : s = t /\ packs[u] = 0

(***************************************************************************)
(* grpc.go:30 says that default assets are assigned "when a user completes *)
(* onboarding", and envoy-user.yml:36 that the service "doesn't even know  *)
(* a retry happened".  A last step carried out twice gives two packs.      *)
(***************************************************************************)
OnePackPerUser == \A u \in User : packs[u] <= 1
=============================================================================
