----------------------------- MODULE AgentLoopMC -----------------------------
(***************************************************************************)
(* One agent whose inbox gets a few messages while its driver runs.        *)
(***************************************************************************)
EXTENDS AgentLoop

\* Three messages: one a turn runs on, one pending, one that arrives late.
Three == 3
==============================================================================
