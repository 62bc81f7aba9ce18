---------------------------- MODULE VehicleAgent ----------------------------
(***************************************************************************)
(* src/agent: a request is routed to the device agent or to the fallback   *)
(* (agent_routing_answer_backend.cpp); the agent plans, calls tools, and   *)
(* keeps a device write pending until the user confirms it in a later      *)
(* request (agent_executor.cpp).  A barge-in cancels from another thread.  *)
(*                                                                         *)
(* Requests come one at a time and a cancellation is over before the next  *)
(* request: that is what processText() and the session guarantee           *)
(* (VoiceAssistant, TurnsAreJoined of ContinuousVoiceSession).  There is   *)
(* one session id, as in board_voice_main.cpp.  What the planner answers   *)
(* is a free choice among the forms an AgentAction has; tool arguments,    *)
(* observations and texts are left out.                                    *)
(***************************************************************************)
EXTENDS Naturals

CONSTANTS MaxSteps,     \* maximum_steps
          Timeout,      \* confirmation_timeout, in ticks
          MaxRequests   \* bound: requests made

ASSUME ConstantsAssumption ==
    MaxSteps \in Nat \ {0} /\ Timeout \in Nat \ {0} /\ MaxRequests \in Nat

\* What the user says, as the classifiers see it: a device command, a
\* confirmation, a refusal, an emergency, or anything else.
Inputs == {"command", "confirm", "refuse", "emergency", "other"}

NoAction == 0

VARIABLES
    q,              \* where query() is
    req, input,     \* the request it serves
    sawPending,     \* what hasPendingAction() told the router
    routed,         \* active_backend_ of the router
    steps,          \* context.observations.size()
    action,         \* what the planner returned
    taken,          \* the pending action being executed
    pending, pendingSteps, age,  \* pending_actions_: the request that made it,
                    \* the observations it holds, ticks since created_at
    reply,          \* the AgentResponse of the request
    planCancelled,  \* cancel_requested of the language model
    canceller,      \* where the cancelling thread is
    interrupted,    \* history: this request was interrupted
    arrivedLate,    \* history: the pending action had expired when it arrived
    executed,       \* history: pending actions whose write was executed
    dropped         \* history: pending actions refused, expired or cancelled

reqVars == <<q, req, input, sawPending, routed>>
workVars == <<steps, action, taken, reply>>
pendingVars == <<pending, pendingSteps, age>>
history == <<interrupted, arrivedLate, executed, dropped>>
vars == <<reqVars, workVars, pendingVars, planCancelled, canceller, history>>

QueryTypeOK ==
    /\ q \in {"idle", "route", "select", "fallback", "run", "check", "take", "execute",
              "plan", "running", "planned", "answered", "speaking"}
    /\ req \in 0 .. MaxRequests
    /\ input \in Inputs
    /\ sawPending \in BOOLEAN
    /\ routed \in {"none", "agent", "fallback"}

WorkTypeOK ==
    /\ steps \in 0 .. MaxSteps
    /\ action \in {"none", "final", "error", "read", "write"}
    /\ taken \in 0 .. MaxRequests
    /\ reply \in {"none", "waiting", "completed", "failed"}

PendingTypeOK ==
    /\ pending \in 0 .. MaxRequests
    /\ pendingSteps \in 0 .. MaxSteps - 1
    /\ age \in 0 .. Timeout

CancelTypeOK ==
    /\ planCancelled \in BOOLEAN
    /\ canceller \in {"idle", "router", "pending", "planner"}

HistoryTypeOK ==
    /\ interrupted \in BOOLEAN /\ arrivedLate \in BOOLEAN
    /\ executed \subseteq 1 .. MaxRequests
    /\ dropped \subseteq 1 .. MaxRequests

TypeOK == QueryTypeOK /\ WorkTypeOK /\ PendingTypeOK /\ CancelTypeOK /\ HistoryTypeOK

Init ==
    /\ q = "idle"
    /\ req = 0 /\ input = "other" /\ sawPending = FALSE /\ routed = "none"
    /\ steps = 0 /\ action = "none" /\ taken = NoAction /\ reply = "none"
    /\ pending = NoAction /\ pendingSteps = 0 /\ age = 0
    /\ planCancelled = FALSE
    /\ canceller = "idle"
    /\ interrupted = FALSE /\ arrivedLate = FALSE
    /\ executed = {} /\ dropped = {}

Goto(pc) == q' = pc

Expired == age >= Timeout

\* The pending action is erased without being executed.
Drop ==
    /\ pending' = NoAction
    /\ dropped' = IF pending = NoAction THEN dropped ELSE dropped \cup {pending}
    /\ UNCHANGED <<pendingSteps, age, interrupted, arrivedLate, executed>>

\* executor.run() returns.
Reply(r) == Goto("answered") /\ reply' = r

-----------------------------------------------------------------------------
(* AgentRoutingAnswerBackend::query()                                      *)

\* The user says something, and the router asks whether an action is pending.
Ask(i) ==
    /\ q = "idle" /\ canceller = "idle" /\ req < MaxRequests
    /\ Goto("route")
    /\ req' = req + 1 /\ input' = i
    /\ sawPending' = (pending # NoAction)
    /\ reply' = "none" /\ interrupted' = FALSE
    /\ arrivedLate' = (pending # NoAction /\ Expired)
    /\ UNCHANGED <<routed, steps, action, taken, pendingVars, planCancelled, canceller,
                   executed, dropped>>

\* Plausible bugs, here and below, for the properties to detect.

\* The emergency is routed without clearing anything.
RouteNot ==
    /\ q = "route"
    /\ Goto("select")
    /\ UNCHANGED <<req, input, sawPending, routed, workVars, pendingVars, planCancelled,
                   canceller, history>>

\* An emergency first clears what was pending.
Route ==
    /\ q = "route"
    /\ IF input = "emergency" /\ sawPending
       THEN Goto("select") /\ Drop
       ELSE Goto("select") /\ UNCHANGED <<pendingVars, history>>
    /\ UNCHANGED <<req, input, sawPending, routed, workVars, planCancelled, canceller>>

\* setActive(), and the agent or the fallback is called.
Select ==
    /\ q = "select"
    /\ LET agent == input # "emergency" /\ (sawPending \/ input = "command")
       IN  /\ routed' = IF agent THEN "agent" ELSE "fallback"
           /\ Goto(IF agent THEN "run" ELSE "fallback")
    /\ UNCHANGED <<req, input, sawPending, workVars, pendingVars, planCancelled, canceller,
                   history>>

FallbackAnswers ==
    /\ q = "fallback"
    /\ \E r \in {"completed", "failed"} : Reply(r)
    /\ UNCHANGED <<req, input, sawPending, routed, steps, action, taken, pendingVars,
                   planCancelled, canceller, history>>

\* query() returns and is no longer active; the answer is spoken.
Return ==
    /\ q = "answered"
    /\ Goto("speaking")
    /\ routed' = "none"
    /\ UNCHANGED <<req, input, sawPending, workVars, pendingVars, planCancelled, canceller,
                   history>>

\* processText() returns.
Spoken ==
    /\ q = "speaking"
    /\ Goto("idle")
    /\ UNCHANGED <<req, input, sawPending, routed, workVars, pendingVars, planCancelled,
                   canceller, history>>

-----------------------------------------------------------------------------
(* AgentExecutor::run() and handlePendingAction()                          *)

Run ==
    /\ q = "run"
    /\ Goto(IF pending = NoAction THEN "plan" ELSE "check")
    /\ steps' = 0
    /\ UNCHANGED <<req, input, sawPending, routed, action, taken, reply, pendingVars,
                   planCancelled, canceller, history>>

\* The timeout is not looked at.
CheckPendingForever ==
    /\ q = "check"
    /\ \/ pending = NoAction /\ Reply("failed")
       \/ pending # NoAction /\ input \in {"confirm", "refuse"} /\ Goto("take") /\ UNCHANGED reply
       \/ pending # NoAction /\ input \notin {"confirm", "refuse"} /\ Reply("waiting")
    /\ UNCHANGED <<req, input, sawPending, routed, steps, action, taken, pendingVars,
                   planCancelled, canceller, history>>

\* The lookup under pending_mutex_: a missing action fails the request, an
\* expired one is erased; then the answer of the user counts.
CheckPending ==
    /\ q = "check"
    /\ \/ pending = NoAction /\ Reply("failed") /\ UNCHANGED <<pendingVars, history>>
       \/ pending # NoAction /\ Expired /\ Reply("completed") /\ Drop
       \/ /\ pending # NoAction /\ ~Expired
          /\ \/ input \in {"confirm", "refuse"} /\ Goto("take") /\ UNCHANGED reply
             \/ input \notin {"confirm", "refuse"} /\ Reply("waiting")
          /\ UNCHANGED <<pendingVars, history>>
    /\ UNCHANGED <<req, input, sawPending, routed, steps, action, taken, planCancelled,
                   canceller>>

\* The action is copied where it was found first, and erased now.
TakePendingCopied ==
    /\ q = "take"
    /\ \/ input = "refuse" /\ Reply("completed") /\ Drop /\ UNCHANGED <<steps, taken>>
       \/ /\ input = "confirm"
          /\ Goto("execute") /\ UNCHANGED <<reply, history, age>>
          /\ taken' = IF pending # NoAction THEN pending ELSE req - 1
          /\ steps' = pendingSteps
          /\ pending' = NoAction
          /\ UNCHANGED pendingSteps
    /\ UNCHANGED <<req, input, sawPending, routed, action, planCancelled, canceller>>

\* A second critical section: clearSession() for a refusal, and for a
\* confirmation the action is moved out, if it is still there.
TakePending ==
    /\ q = "take"
    /\ \/ input = "refuse" /\ Reply("completed") /\ Drop /\ UNCHANGED <<steps, taken>>
       \/ /\ input = "confirm" /\ pending = NoAction
          /\ Reply("failed") /\ UNCHANGED <<pendingVars, history, steps, taken>>
       \/ /\ input = "confirm" /\ pending # NoAction
          /\ Goto("execute") /\ UNCHANGED reply
          /\ taken' = pending /\ steps' = pendingSteps
          /\ pending' = NoAction
          /\ UNCHANGED <<pendingSteps, age, history>>
    /\ UNCHANGED <<req, input, sawPending, routed, action, planCancelled, canceller>>

\* The confirmed tool is executed, and its observation continues the plan.
Execute ==
    /\ q = "execute"
    /\ Goto("plan")
    /\ steps' = steps + 1
    /\ executed' = executed \cup {taken}
    /\ UNCHANGED <<req, input, sawPending, routed, action, taken, reply, pendingVars,
                   planCancelled, canceller, interrupted, arrivedLate, dropped>>

-----------------------------------------------------------------------------
(* AgentExecutor::continueExecution()                                      *)

\* The condition of the loop; the planner builds its prompt.
Plan ==
    /\ q = "plan"
    /\ \/ steps >= MaxSteps /\ Reply("failed") /\ UNCHANGED planCancelled
       \/ steps < MaxSteps /\ Goto("running") /\ planCancelled' = FALSE /\ UNCHANGED reply
    /\ UNCHANGED <<req, input, sawPending, routed, steps, action, taken, pendingVars,
                   canceller, history>>

\* The language model runs and returns; a cancelled run is an error.
PlannerReturns ==
    /\ q = "running"
    /\ Goto("planned")
    /\ action' \in IF planCancelled THEN {"error"} ELSE {"final", "error", "read", "write"}
    /\ UNCHANGED <<req, input, sawPending, routed, steps, taken, reply, pendingVars,
                   planCancelled, canceller, history>>

\* The user is asked to confirm, and nothing is kept to be confirmed.
ActForgets ==
    /\ q = "planned"
    /\ \/ action = "final" /\ Reply("completed") /\ UNCHANGED steps
       \/ action = "error" /\ Reply("failed") /\ UNCHANGED steps
       \/ action = "read" /\ Goto("plan") /\ steps' = steps + 1 /\ UNCHANGED reply
       \/ action = "write" /\ Reply("waiting") /\ UNCHANGED steps
    /\ UNCHANGED <<req, input, sawPending, routed, action, taken, pendingVars, planCancelled,
                   canceller, history>>

\* What is planned is done: only a tool that needs no confirmation is executed.
\* The action is kept before its prompt is made, and making the prompt may throw.
Act ==
    /\ q = "planned"
    /\ \/ action = "final" /\ Reply("completed") /\ UNCHANGED <<steps, pendingVars>>
       \/ action = "error" /\ Reply("failed") /\ UNCHANGED <<steps, pendingVars>>
       \/ /\ action = "read" /\ Goto("plan") /\ steps' = steps + 1
          /\ UNCHANGED <<reply, pendingVars>>
       \/ /\ action = "write"
          /\ \E r \in {"waiting", "failed"} : Reply(r)
          /\ pending' = req /\ pendingSteps' = steps /\ age' = 0
          /\ UNCHANGED steps
    /\ UNCHANGED <<req, input, sawPending, routed, action, taken, planCancelled, canceller,
                   history>>

\* The clock of the confirmation timeout.
Tick ==
    /\ pending # NoAction /\ ~Expired
    /\ age' = age + 1
    /\ UNCHANGED <<reqVars, workVars, pending, pendingSteps, planCancelled, canceller, history>>

-----------------------------------------------------------------------------
(* cancel() of the router, the backend and the executor                    *)

\* The user barges in while the request is active in the voice assistant,
\* which has marked it as failed before it cancels.
Interrupt ==
    /\ q # "idle" /\ canceller = "idle"
    /\ canceller' = "router"
    /\ interrupted' = TRUE
    /\ UNCHANGED <<reqVars, workVars, pendingVars, planCancelled, arrivedLate, executed, dropped>>

\* With the fallback active it is the fallback that is cancelled.
CancelRoute ==
    /\ canceller = "router"
    /\ canceller' = IF routed = "fallback" THEN "idle" ELSE "pending"
    /\ UNCHANGED <<reqVars, workVars, pendingVars, planCancelled, history>>

CancelPending ==
    /\ canceller = "pending"
    /\ canceller' = "planner"
    /\ Drop
    /\ UNCHANGED <<reqVars, workVars, planCancelled>>

\* planner_.cancel() reaches a language model only while it runs; the model may
\* refuse, and the rule planner has nothing to cancel.
CancelPlanner ==
    /\ canceller = "planner"
    /\ canceller' = "idle"
    /\ planCancelled' \in {planCancelled, planCancelled \/ q = "running"}
    /\ UNCHANGED <<reqVars, workVars, pendingVars, history>>

-----------------------------------------------------------------------------
Query == \/ Route \/ Select \/ FallbackAnswers \/ Return \/ Spoken \/ Run \/ CheckPending
         \/ TakePending \/ Execute \/ Plan \/ PlannerReturns \/ Act

Cancel == CancelRoute \/ CancelPending \/ CancelPlanner

Next == (\E i \in Inputs : Ask(i)) \/ Query \/ Tick \/ Interrupt \/ Cancel

Spec == Init /\ [][Next]_vars

-----------------------------------------------------------------------------
(* Properties.                                                             *)

\* A device write is executed only in a request that says yes, to an action
\* that an earlier request left, and that had not expired when the user said
\* yes: the "safety boundary" of the agent, across two requests, a clock and
\* a cancelling thread.
WritesAreConfirmed ==
    q = "execute" => /\ input = "confirm" /\ ~arrivedLate
                     /\ taken \in 1 .. req - 1
                     /\ taken \notin executed

\* What was refused, expired or cancelled is never executed, and what was
\* executed is not cancelled afterwards.
DroppedIsNeverExecuted ==
    /\ executed \cap dropped = {}
    /\ q = "execute" => taken \notin dropped

\* When the fallback answers an emergency, no action waits that a later "yes"
\* could execute.
EmergencyClears ==
    q \in {"fallback", "answered", "speaking", "idle"} /\ input = "emergency"
        => pending = NoAction

\* A user who hears an uninterrupted request to confirm can confirm: the
\* action is pending until he answers.
PromptHasAction ==
    q \in {"answered", "speaking", "idle"} /\ reply = "waiting" /\ ~interrupted
        => pending # NoAction

\* "A voice interruption can cancel a pending task" (README.md): once a request
\* has been interrupted and is over, no action is pending that its prompt, which
\* nobody has heard, was to announce.
InterruptCancels ==
    q = "idle" /\ canceller = "idle" /\ interrupted => pending = NoAction

=============================================================================
