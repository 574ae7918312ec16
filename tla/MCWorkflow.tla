------------------------------ MODULE MCWorkflow ------------------------------
(* Instances of Workflow: one invocation and one client write state.json      *)
(* beside the pipeline, or a client alone.                                    *)
EXTENDS Workflow

MCAgents == {"agent"}
MCClients == {"client"}
MCWriters == {Main} \cup MCAgents \cup MCClients
MCDrivers == {Main} \cup MCClients
=============================================================================
