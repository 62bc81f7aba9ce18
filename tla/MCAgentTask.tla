---------------------------- MODULE MCAgentTask ----------------------------
(* Bounds for AgentTask: one phrase for each way through the classifier and *)
(* the rule planner.                                                        *)
EXTENDS AgentTask

MCPhrases == {{"environment"}, {"degrees"}, {"exceeds", "how"}, {"exceeds", "turnOn"},
              {"if", "degrees"}, {"turnOn"}, {"turnOff"}, {"turnOn", "how"}, {"state"},
              {"airConditioner", "running"}, {"confirm"}, {"refuse"}, {"emergency"}}
=============================================================================
