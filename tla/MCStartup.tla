----------------------------- MODULE MCStartup ------------------------------
(* Startup for TLC: two handlers of the server, and one run of pwreset at a time. *)
EXTENDS Startup, TLC

CONSTANTS server, pwreset, h1, h2, cli

MCProcOf(w) == IF w = cli THEN pwreset ELSE server

HandlersAndKeys == Permutations({h1, h2}) \cup Permutations(Keys)
=============================================================================
