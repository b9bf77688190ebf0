------------------------------- MODULE MCVault -------------------------------
(* Instances of Vault: the app and the agent, writing the same two accounts. *)
EXTENDS Vault

CONSTANTS app, agent, masterkey, appkey
=============================================================================
