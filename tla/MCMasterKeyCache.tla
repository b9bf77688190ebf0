-------------------------- MODULE MCMasterKeyCache --------------------------
(* Instances of MasterKeyCache: an app and an agent, each with requests of its own. *)
EXTENDS MasterKeyCache, TLC

CONSTANTS app, agent, t1, t2, t3

MCProcOfAgent == t3 :> agent
MCProcOfOne == (t1 :> app) @@ (t2 :> app)
=============================================================================
