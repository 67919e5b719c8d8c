----------------------------- MODULE McpSessionMC -----------------------------
(***************************************************************************)
(* Sessions with two scores, so that a repeated answer can differ from the *)
(* first.                                                                  *)
(***************************************************************************)
EXTENDS McpSession

CONSTANTS red, blue, s60, s80

MCSolo == {red}
MCPair == {red, blue}
==============================================================================
