---------------------------- MODULE ProfileStore ----------------------------
(***************************************************************************)
(* What the user service promises about profiles, whatever caching it      *)
(* does: a user gets one profile, which starts at step 1; a profile that   *)
(* is kept or shown anywhere was that user's row at some moment; and every *)
(* completed onboarding is a claim to one starter pack, which is granted   *)
(* at most once.  A claim may be lost, or used up by a pack that is not    *)
(* whole, and old profiles may stay around.                                *)
(***************************************************************************)
EXTENDS Naturals

CONSTANTS User, LastStep, Ticket, PackCap

VARIABLES
  row,      \* the step of each user's profile, 0 for no profile
  copies,   \* the profiles of each user kept somewhere in the system
  claims,   \* the claims to a starter pack each user has
  packs     \* the starter packs each user got, counted up to PackCap

vars == <<row, copies, claims, packs>>

Step == 1 .. LastStep

Init ==
  /\ row = [u \in User |-> 0]
  /\ copies = [u \in User |-> {}]
  /\ claims = [u \in User |-> {}]
  /\ packs = [u \in User |-> 0]

\* Copies are dropped, and taken of the row.
Copy == \A u \in User : copies'[u] \subseteq copies[u] \cup ({row[u], row'[u]} \ {0})

Enrol(u) ==
  /\ row[u] = 0
  /\ row' = [row EXCEPT ![u] = 1]
  /\ UNCHANGED <<claims, packs>>

Move(u, s) ==
  /\ row[u] # 0
  /\ row' = [row EXCEPT ![u] = s]
  /\ UNCHANGED <<claims, packs>>

Complete(u, t) ==
  /\ row[u] # 0
  /\ \A v \in User : t \notin claims[v]
  /\ row' = [row EXCEPT ![u] = LastStep]
  /\ claims' = [claims EXCEPT ![u] = @ \cup {t}]
  /\ UNCHANGED packs

Grant(u, t) ==
  /\ t \in claims[u]
  /\ claims' = [claims EXCEPT ![u] = @ \ {t}]
  /\ packs' = [packs EXCEPT ![u] = IF @ < PackCap THEN @ + 1 ELSE @]
  /\ UNCHANGED row

Lose ==
  /\ \A u \in User : claims'[u] \subseteq claims[u]
  /\ UNCHANGED <<row, packs>>

Next ==
  /\ \/ \E u \in User : \/ Enrol(u)
                        \/ \E s \in Step : Move(u, s)
                        \/ \E t \in Ticket : Complete(u, t) \/ Grant(u, t)
     \/ Lose
  /\ Copy

Spec == Init /\ [][Next]_vars
=============================================================================
