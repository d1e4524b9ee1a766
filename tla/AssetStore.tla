----------------------------- MODULE AssetStore -----------------------------
(***************************************************************************)
(* What the inventory service promises about its assets, whatever caching  *)
(* it does: an asset is registered once, is assigned at most once, and     *)
(* keeps its owner; and a list of assets that is kept or shown anywhere    *)
(* was the truth at some earlier moment.  How long old lists stay around   *)
(* is left open.                                                           *)
(***************************************************************************)
CONSTANTS Asset, User

VARIABLES
  docs,   \* what each asset is: "absent", "available", or its owner
  lists   \* the lists of assets kept somewhere in the system

vars == <<docs, lists>>

Doc == {"absent", "available"} \cup User
List == [Asset -> Doc]

Init ==
  /\ docs = [a \in Asset |-> "absent"]
  /\ lists = {}

Register(a) ==
  /\ docs[a] = "absent"
  /\ docs' = [docs EXCEPT ![a] = "available"]
  /\ lists' \subseteq lists

Give(a, u) ==   \* an asset of the pool, or one made for this user
  /\ docs[a] \in {"absent", "available"}
  /\ docs' = [docs EXCEPT ![a] = u]
  /\ lists' \subseteq lists

\* Lists are dropped, or the current one is taken.
Circulate ==
  /\ lists' \subseteq lists \cup {docs}
  /\ UNCHANGED docs

Next ==
  \/ \E a \in Asset : Register(a) \/ \E u \in User : Give(a, u)
  \/ Circulate

Spec == Init /\ [][Next]_vars

-----------------------------------------------------------------------------
\* Could the collection have passed from l to m?
Precedes(l, m) ==
  \A a \in Asset : \/ l[a] = m[a]
                   \/ l[a] = "absent"
                   \/ l[a] = "available" /\ m[a] \in User

(***************************************************************************)
(* No list shows an asset, a free asset or an owner that never was: every  *)
(* list kept anywhere can have become the present collection.              *)
(***************************************************************************)
NoPhantoms == \A l \in lists : Precedes(l, docs)
=============================================================================
