--------------------------- MODULE MCRuntimePorts ---------------------------
(* A small instance of RuntimePorts: the mcp ports start at 1, the UI's at  *)
(* 4 and the metrics' at 7.                                                 *)
EXTENDS RuntimePorts, TLC

CONSTANTS srv, ui

Five == {1, 2, 4, 5, 7}
OneMetrics == [mcp |-> {1, 2}, ui |-> {4, 5}, metrics |-> {7}]

(* MCP_PORT and UI_PORT are the same for each of the processes.             *)
SamePort == [p \in Procs |->
    IF Kind[p] = "ui" THEN [mcp |-> 2, ui |-> 2, metrics |-> 7]
    ELSE [mcp |-> 4, ui |-> 4, metrics |-> 7]]

ServerAndUi == srv :> "server" @@ ui :> "ui"

=============================================================================
