------------------------------ MODULE MCPipeline ------------------------------
(***************************************************************************)
(* Instances of Pipeline for TLC: two connections and two starts, so that  *)
(* a watchdog restart and a reconnect both happen.                         *)
(***************************************************************************)
EXTENDS Pipeline
==============================================================================
