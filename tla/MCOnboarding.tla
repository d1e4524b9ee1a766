---------------------------- MODULE MCOnboarding ----------------------------
(* Instances of Onboarding for TLC.                                         *)
EXTENDS Onboarding, TLC

CONSTANTS c1, c2, u1, u2

MCCall == {c1, c2}
MCUser == {u1, u2}

\* One call at a time of one user.
OneCall == {c1}
OneUser == {u1}

MCAnswer == {"ok", "refused"}
Timeouts == {"slow"}
AnyFault == {"slow", "error", "hangup"}

Symmetry == Permutations(MCCall) \cup Permutations(MCUser)
=============================================================================
