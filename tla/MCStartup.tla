----------------------------- MODULE MCStartup -----------------------------
(* An instance of Startup for TLC.                                          *)
EXTENDS Startup

CONSTANTS auth, inventory

\* The user service starts as the auth service does.
MCService == {auth, inventory}
MCTabled == {auth}
MCRemote == {inventory}
=============================================================================
