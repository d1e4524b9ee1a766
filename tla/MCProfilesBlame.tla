-------------------------- MODULE MCProfilesBlame --------------------------
(* An instance of ProfilesBlame for TLC.                                    *)
EXTENDS ProfilesBlame, TLC

CONSTANTS r1, r2, u1, u2

MCRequest == {r1, r2}
MCUser == {u1, u2}

\* One user is served by one goroutine, the other one by both.
MCClients == (r1 :> {u1, u2}) @@ (r2 :> {u2})

\* A cancelled Redis command is one that times out and was not carried out.
MostFaults == {"redis", "timeout", "postgres", "crash", "inventory", "insert"}
=============================================================================
