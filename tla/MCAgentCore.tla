----------------------------- MODULE MCAgentCore -----------------------------
(* Instances of AgentCore for TLC.                                           *)
EXTENDS AgentCore

CONSTANT v1
==============================================================================
