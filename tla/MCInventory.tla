---------------------------- MODULE MCInventory ----------------------------
(* Instances of Inventory for TLC: one asset and one user, enough for a     *)
(* list to be stale.                                                        *)
EXTENDS Inventory, TLC

CONSTANTS r1, r2, r3, r4, r5, u1, a1

MCUser == {u1}
MCAsset == {a1}
OutageFaults == {"redis", "mongo", "cancel", "crash"}

\* One goroutine lists, the other one writes and answers health checks.
MCRequest == {r1, r2}
MCWorkload == (r1 :> {"list"}) @@ (r2 :> Endpoint \ {"list"})

\* Five lists at once: MaxFailures of them.
FiveRequests == {r1, r2, r3, r4, r5}
FiveWorkload == [r \in FiveRequests |-> {"list"}]
FiveSymmetry == Permutations(FiveRequests)
=============================================================================
