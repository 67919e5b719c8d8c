----------------------------- MODULE ToolCallsMC -----------------------------
(***************************************************************************)
(* A step with five calls over a pool of three.                            *)
(***************************************************************************)
EXTENDS ToolCalls

\* Three fill the pool; the fourth waits for one of them, and the fifth may
\* change its mode while the fourth is being prepared.
Five == 5
==============================================================================
