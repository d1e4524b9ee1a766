-------------------------- MODULE MCInventoryBlame --------------------------
(* Instances of InventoryBlame for TLC.                                     *)
EXTENDS InventoryBlame, TLC

CONSTANTS r1, r2, r3, r4, u1, u2, a1, a2

Writers == {"create", "assign", "pack"}

TwoUsers == {u1, u2}
OneUser == {u1}
OneAsset == {a1}
TwoAssets == {a1, a2}
AnyFault == {"mongo", "timeout", "redis", "cancel", "crash"}

\* One goroutine lists, the other one serves every endpoint.
TwoRequests == {r1, r2}
TwoWorkload == (r1 :> {"list"}) @@ (r2 :> Endpoint)
TwoSymmetry == Permutations(TwoUsers)

\* Four requests at a time, one fewer than MaxFailures.
FourRequests == {r1, r2, r3, r4}
FourWorkload == [r \in FourRequests |->
                   IF r = r4 THEN Writers ELSE {"list"}]
FourSymmetry == Permutations({r1, r2, r3}) \cup Permutations(TwoAssets)
=============================================================================
