----------------------------- MODULE MCAccounts -----------------------------
(* Instances of Accounts for TLC.                                           *)
EXTENDS Accounts, TLC

CONSTANTS c1, c2, e1, e2, p1, p2, i1, i2

MCCall == {c1, c2}
MCEmail == {e1, e2}
MCPassword == {p1, p2}
MCId == {i1, i2}
MCAnswer == MCId \cup {"refused"}
AnyFault == {"slow", "error", "hangup"}

Symmetry == Permutations(MCCall) \cup Permutations(MCEmail)
              \cup Permutations(MCPassword) \cup Permutations(MCId)
=============================================================================
