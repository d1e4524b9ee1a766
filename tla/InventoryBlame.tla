-------------------------- MODULE InventoryBlame --------------------------
(***************************************************************************)
(* Why is a cached list out of date?  A history variable collects, since   *)
(* the cache last was empty or right, what went wrong with it.  It adds    *)
(* nothing to the behaviour of Inventory; it states which steps of the     *)
(* code are answerable for stale reads, and that there are no others.      *)
(***************************************************************************)
EXTENDS Inventory

VARIABLE blame

blameVars == <<vars, blame>>

BlameInit == Init /\ blame = {}

\* A request in r drops the invalidation it owes: its DEL was refused or
\* failed, or the service died before it.
Owes(r) == pc[r] = "pack" \/ (cmd[r] = "del" /\ pc[r] \in {"gate", "redis"})

Skipped ==
  \E r \in Request : /\ Owes(r)
                     /\ \/ ExecuteRejects(r)
                        \/ RedisFails(r) /\ cache' # {}
                        \/ Crash

\* A list found before a write is cached after it.
Overtaken ==
  \E r \in Request : /\ cmd[r] = "set" /\ view[r] # {docs}
                     /\ \/ RedisAnswers(r)
                        \/ RedisFails(r) /\ cache' = view[r]

\* An old list comes back with the snapshot.
Restored == RedisRestart /\ dump # {docs}

\* A write whose answer is lost invalidates nothing.
Unanswered ==
  /\ docs' # docs
  /\ \A r \in Request : pc'[r] = pc[r] /\ pc[r] # "pack"

Explains(cause) ==
  \/ cause = "skipped" /\ Skipped
  \/ cause = "overtaken" /\ Overtaken
  \/ cause = "restored" /\ Restored
  \/ cause = "unanswered" /\ Unanswered

Causes == {"skipped", "overtaken", "restored", "unanswered"}

BlameNext ==
  /\ Next
  /\ blame' = IF cache' \subseteq {docs'} THEN {}
               ELSE blame \cup {cause \in Causes : Explains(cause)}

BlameSpec == BlameInit /\ [][BlameNext]_blameVars

(***************************************************************************)
(* A list in the cache is out of date only while a request still owes the  *)
(* invalidation, or after one of the four causes: however the steps of the *)
(* handlers, of Redis and of the breaker interleave, there is no fifth.    *)
(***************************************************************************)
StaleHasCause ==
  Stale => blame # {} \/ \E r \in Request : Owes(r)

(***************************************************************************)
(* Without faults, and with fewer than MaxFailures requests at a time, no  *)
(* invalidation is lost: a list stays out of date only if its fill was     *)
(* overtaken by a write.                                                   *)
(***************************************************************************)
OnlyOvertaken == blame \subseteq {"overtaken"}
=============================================================================
