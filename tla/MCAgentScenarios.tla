--------------------------- MODULE MCAgentScenarios ---------------------------
(***************************************************************************)
(* Two agents, of which a behaviour runs one: as the configuration says,   *)
(* with inputs in its queues and no hooks, or with hooks, compaction, tool *)
(* calls and an override and no inputs but prompts.  ConfiguredSpec is the *)
(* first alone, with the agent's fairness.                                 *)
(***************************************************************************)
EXTENDS MCAgentActor

VARIABLE scenario

Requests == INSTANCE AgentActor WITH
    SubmitKinds <- {}, Replies <- AllReplies, HooksEnabled <- TRUE, KeepBudgets <- {2},
    Commands <- {"Prompt", "Abort", "SetProviderRequestOverride"}

ScenarioInit == ActorInit /\ scenario \in {"configured", "requests"}

ScenarioNext ==
    \/ scenario = "configured" /\ ActorNext /\ UNCHANGED scenario
    \/ scenario = "requests" /\ Requests!ActorNext /\ UNCHANGED scenario

ScenarioSpec == ScenarioInit /\ [][ScenarioNext]_<<vars, scenario>>

ConfiguredInit == ActorInit /\ scenario = "configured"

ConfiguredSpec ==
    /\ ConfiguredInit
    /\ [][ScenarioNext]_<<vars, scenario>> /\ ActorFairness
=============================================================================
