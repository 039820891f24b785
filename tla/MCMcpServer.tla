----------------------------- MODULE MCMcpServer -----------------------------
(* Instances of McpServer for TLC: Mcp.cfg gives the constants. *)
EXTENDS McpServer
==============================================================================
