----------------------------- MODULE MCProfiles -----------------------------
(* An instance of ProfilesReward for TLC: one user, two requests at a time.  *)
EXTENDS ProfilesReward

CONSTANTS r1, r2, u1

MCRequest == {r1, r2}
MCUser == {u1}
MCClients == [r \in MCRequest |-> MCUser]

AnyFault == {"redis", "timeout", "cancel", "postgres", "crash", "inventory", "insert"}
=============================================================================
