------------------------------ MODULE AgentTask ------------------------------
(***************************************************************************)
(* What VehicleAgent leaves to chance: the words that make a request a     *)
(* command (agent_intent_classifier.cpp), the two planners                 *)
(* (rule_agent_planner.cpp, llm_agent_planner.cpp), the registered tools   *)
(* (tool_registry.cpp, vehicle_tools.cpp) and the device behind them       *)
(* (vehicle_device.cpp, linux_vehicle_device.cpp).                         *)
(***************************************************************************)
EXTENDS VehicleAgent

CONSTANT Phrases   \* what the user may say: sets of Words

\* The words that tell the keyword lists of the classifier and the planner apart: "cabin
\* temperature", "how many degrees", "the temperature exceeds", "if", "turn on" and "turn
\* off the air conditioner", "state of the air conditioner", "air conditioner", "is it
\* running", "how"; then the texts of an answer to a prompt, and any emergency.
Words == {"environment", "degrees", "exceeds", "if", "turnOn", "turnOff", "state",
          "airConditioner", "running", "how", "confirm", "refuse", "emergency"}

ASSUME TaskAssumption == Phrases \subseteq SUBSET Words

Tools == {"get_cabin_environment", "get_air_conditioner_state", "set_air_conditioner"}
Arguments == {"none", "on", "off", "mistyped"}
Calls == [tool : Tools, arguments : Arguments]
NoCall == [tool |-> "none", arguments |-> "none"]
Observations == [tool : Tools, ok : BOOLEAN, enabled : BOOLEAN]
NoObservation == [tool |-> "none", ok |-> FALSE, enabled |-> FALSE]

VARIABLES
    planner,      \* "rule" or "llm"
    device,       \* "mock", "failing" (a mock told to fail) or "iio"
    on,           \* air_conditioner_enabled_
    words,        \* the user's words in this request
    observation,  \* context.observations.back()
    call,         \* action.tool_call
    held,         \* the tool call of the pending action
    said          \* what the final answer tells: "nothing", "environment", "on", "off"

setupVars == <<planner, device>>
taskVars == <<setupVars, on, words, observation, call, held, said>>

TaskTypeOK ==
    /\ planner \in {"rule", "llm"} /\ device \in {"mock", "failing", "iio"}
    /\ on \in BOOLEAN /\ words \in Phrases \cup {{}}
    /\ observation \in Observations \cup {NoObservation}
    /\ call \in Calls \cup {NoCall} /\ held \in Calls \cup {NoCall}
    /\ said \in {"nothing", "environment", "on", "off"}

TaskInit ==
    /\ Init
    /\ planner \in {"rule", "llm"} /\ device \in {"mock", "failing", "iio"}
    /\ on = FALSE /\ words = {} /\ said = "nothing"
    /\ observation = NoObservation /\ call = NoCall /\ held = NoCall
-----------------------------------------------------------------------------
(***************************************************************************)
(* AgentIntentClassifier.                                                  *)
(***************************************************************************)
AnyOf(w, keywords) == w \cap keywords # {}

ContainsEnvironment(w) == AnyOf(w, {"environment", "degrees", "exceeds"})
ContainsCondition(w) == AnyOf(w, {"exceeds", "if"})
ContainsAirConditioner(w) == AnyOf(w, {"airConditioner", "turnOn", "turnOff", "state"})

\* The first test names contains_condition twice and a control never, so a condition
\* on the environment alone is already a workflow, even in a question how to do it.
Intent(w) ==
    CASE ContainsEnvironment(w) /\ ContainsCondition(w) -> "conditional_workflow"
      [] "how" \in w /\ ~(ContainsEnvironment(w) /\ ContainsCondition(w)) -> "none"
      [] "how" \notin w /\ ContainsEnvironment(w) /\ ~ContainsCondition(w) -> "environment_query"
      [] OTHER -> IF ContainsAirConditioner(w) /\ AnyOf(w, {"state", "running"})
                  THEN "device_state_query"
                  ELSE IF AnyOf(w, {"turnOn", "turnOff"}) THEN "device_control" ELSE "none"

InputOf(w) == CASE "emergency" \in w -> "emergency"
                [] w = {"confirm"} -> "confirm"
                [] w = {"refuse"} -> "refuse"
                [] OTHER -> IF Intent(w) = "none" THEN "other" ELSE "command"
-----------------------------------------------------------------------------
(***************************************************************************)
(* The planners' AgentAction.                                              *)
(***************************************************************************)
Error == [type |-> "error", call |-> NoCall, says |-> "nothing"]
FinalAnswer(s) == [type |-> "final", call |-> NoCall, says |-> s]
ToolCall(tool, arguments) ==
    [type |-> IF tool = "set_air_conditioner" THEN "write" ELSE "read",
     call |-> [tool |-> tool, arguments |-> arguments], says |-> "nothing"]

PlanInitialAction(w) ==
    CASE AnyOf(w, {"environment", "exceeds"}) -> ToolCall("get_cabin_environment", "none")
      [] OTHER ->
           CASE "state" \in w -> ToolCall("get_air_conditioner_state", "none")
             [] "state" \notin w /\ "turnOn" \in w -> ToolCall("set_air_conditioner", "on")
             [] w \cap {"state", "turnOn", "turnOff"} = {"turnOff"} ->
                    ToolCall("set_air_conditioner", "off")
             [] OTHER -> FinalAnswer("nothing")

HandleObservation(o) ==
    CASE ~o.ok -> Error
      [] o.ok /\ o.tool = "get_cabin_environment" -> FinalAnswer("environment")
      [] o.ok /\ o.tool # "get_cabin_environment" ->
             FinalAnswer(IF o.enabled THEN "on" ELSE "off")

RulePlan == IF observation = NoObservation THEN PlanInitialAction(words)
                                           ELSE HandleObservation(observation)

\* A language model may write anything; parseResponse() lets a final answer, a call of a
\* registered tool with any object for arguments, and otherwise an error come of it.
LlmPlans == {Error, FinalAnswer("nothing")} \cup {ToolCall(t, a) : t \in Tools, a \in Arguments}
-----------------------------------------------------------------------------
(***************************************************************************)
(* The tools and the device: the observation of a call and the state of    *)
(* the air conditioner after it.                                           *)
(***************************************************************************)
Observed(c, ok, enabled) == [tool |-> c.tool, ok |-> ok, enabled |-> enabled]
Refused(c) == observation' = Observed(c, FALSE, FALSE) /\ UNCHANGED on

\* The sensor of the real device may be missing, unreadable or out of range.
ReadEnvironment(c) == \/ c.arguments = "none" /\ observation' = Observed(c, TRUE, FALSE)
                      \/ /\ c.arguments # "none" \/ device = "iio"
                         /\ observation' = Observed(c, FALSE, FALSE)

ReadState(c) == observation' = IF c.arguments = "none" THEN Observed(c, TRUE, on)
                                                       ELSE Observed(c, FALSE, FALSE)

\* A plausible bug: the tool reports what was asked, not what the device has.
SetAirConditionerBlindly(c) ==
    IF c.arguments \notin {"on", "off"} THEN Refused(c)
    ELSE /\ on' = IF device = "failing" THEN on ELSE c.arguments = "on"
         /\ observation' = Observed(c, TRUE, c.arguments = "on")

SetAirConditioner(c) ==
    IF c.arguments \notin {"on", "off"} \/ device = "failing" THEN Refused(c)
    ELSE on' = (c.arguments = "on") /\ observation' = Observed(c, TRUE, on')

ExecuteTool(c) ==
    \/ c.tool = "get_cabin_environment" /\ ReadEnvironment(c) /\ UNCHANGED on
    \/ c.tool = "get_air_conditioner_state" /\ ReadState(c) /\ UNCHANGED on
    \/ c.tool = "set_air_conditioner" /\ SetAirConditioner(c)
-----------------------------------------------------------------------------
(***************************************************************************)
(* The steps of VehicleAgent, with what they now do.                       *)
(***************************************************************************)
AskTask(w) ==
    /\ Ask(InputOf(w))
    /\ words' = w /\ said' = "nothing"
    /\ UNCHANGED <<setupVars, on, observation, call, held>>

\* A request starts with a context of its own.
RunTask ==
    /\ Run
    /\ observation' = NoObservation
    /\ UNCHANGED <<setupVars, on, words, call, held, said>>

PlannerReturnsTask ==
    /\ PlannerReturns
    /\ \E plan \in IF planner = "rule" THEN {RulePlan} ELSE LlmPlans :
           action' = plan.type /\ call' = plan.call /\ said' = plan.says
    /\ UNCHANGED <<setupVars, on, words, observation, held>>

\* buildConfirmationPrompt() throws when "enabled" is there and no boolean; the action
\* is pending by then.
ActTask ==
    /\ Act
    /\ IF action = "read" THEN ExecuteTool(call) ELSE UNCHANGED <<on, observation>>
    /\ IF action = "write"
       THEN held' = call /\ reply' = IF call.arguments = "mistyped" THEN "failed" ELSE "waiting"
       ELSE UNCHANGED held
    /\ UNCHANGED <<setupVars, words, call, said>>

ExecuteTask ==
    /\ Execute
    /\ ExecuteTool(held)
    /\ UNCHANGED <<setupVars, words, call, held, said>>

CancelPlannerTask ==
    /\ CancelPlanner
    /\ planner = "rule" => planCancelled' = planCancelled
    /\ UNCHANGED taskVars

Unchanged == \/ Route \/ Select \/ FallbackAnswers \/ Return \/ Spoken \/ CheckPending
             \/ TakePending \/ Plan \/ Tick \/ Interrupt \/ CancelRoute \/ CancelPending

TaskNext == \/ \E w \in Phrases : AskTask(w)
            \/ RunTask \/ PlannerReturnsTask \/ ActTask \/ ExecuteTask \/ CancelPlannerTask
            \/ Unchanged /\ UNCHANGED taskVars

TaskSpec == TaskInit /\ [][TaskNext]_<<vars, taskVars>>
-----------------------------------------------------------------------------
\* When the rule planner tells the user that the air conditioner is on or off, it is:
\* through a prompt, a confirmation in a later request, a device that may refuse, the
\* step limit and an interruption (src/agent/vehicle_tools.cpp:152-165 reads back what
\* it wrote; README.md:184).
AnswerIsTrue ==
    planner = "rule" /\ q \in {"answered", "speaking", "idle"} /\ said \in {"on", "off"}
        => on = (said = "on")
=============================================================================
