--------------------------- MODULE ProfilesBlame ---------------------------
(***************************************************************************)
(* Why is a cached profile out of date?  A history variable collects, for  *)
(* each user and since the copy last was empty or right, what went wrong   *)
(* with it.  It adds nothing to the behaviour of Profiles.                 *)
(***************************************************************************)
EXTENDS Profiles

VARIABLE blame

blameVars == <<vars, blame>>

BlameInit == Init /\ blame = [u \in User |-> {}]

\* The handler in r still owes the DEL of u's key.
Owes(r, u) == user[r] = u /\ pc[r] = "del"

\* The DEL fails, or the service dies before it.
Skipped(u) ==
  \E r \in Request : /\ Owes(r, u)
                     /\ \/ RedisFails(r) /\ cache'[u] # {}
                        \/ Crash

\* A row read or created before an update is cached after it.
Overtaken(u) ==
  \E r \in Request : /\ user[r] = u /\ pc[r] = "set"
                     /\ held[r] # {row[u]} /\ cache'[u] = held[r]
                     /\ RedisAnswers(r) \/ RedisFails(r)

\* An old copy comes back with the snapshot.
Restored(u) == RedisRestart /\ dump[u] # {row[u]}

\* An update whose answer is lost invalidates nothing.
Unanswered(u) == row'[u] # row[u] /\ pc' = pc

Explains(cause, u) ==
  \/ cause = "skipped" /\ Skipped(u)
  \/ cause = "overtaken" /\ Overtaken(u)
  \/ cause = "restored" /\ Restored(u)
  \/ cause = "unanswered" /\ Unanswered(u)

Causes == {"skipped", "overtaken", "restored", "unanswered"}

BlameNext ==
  /\ Next
  /\ blame' = [u \in User |->
                 IF cache'[u] \subseteq {row'[u]} THEN {}
                 ELSE blame[u] \cup {cause \in Causes : Explains(cause, u)}]

BlameSpec == BlameInit /\ [][BlameNext]_blameVars

(***************************************************************************)
(* A cached profile is out of date only while a request still owes its     *)
(* DEL, or after one of the four causes; there is no fifth, in any order   *)
(* of the steps of CreateProfile, GetProfile, UpdateOnboarding and Redis.  *)
(* For a user whose requests are served one after the other, as those of a *)
(* client that waits for each reply, a late fill is not one of them.       *)
(***************************************************************************)
ServedAlone(u) ==
  \A r, s \in Request : u \in Clients[r] \cap Clients[s] => r = s

PossibleCauses(u) == IF ServedAlone(u) THEN Causes \ {"overtaken"} ELSE Causes

StaleHasCause ==
  \A u \in User :
    Stale(u) => \/ blame[u] \cap PossibleCauses(u) # {}
                \/ \E r \in Request : Owes(r, u)
=============================================================================
