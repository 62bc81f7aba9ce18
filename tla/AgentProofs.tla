----------------------------- MODULE AgentProofs -----------------------------
(***************************************************************************)
(* The safety boundary of VehicleAgent for every number of steps, every    *)
(* timeout and any number of requests.  The invariant follows one pending  *)
(* action: it is as old as the request that made it says (Fresh), it is in *)
(* one place only, pending or taken (Unique), and what the router and the  *)
(* lookup saw of it stays true until they act on it (Seen).                *)
(*                                                                         *)
(* The agent with its planners, tools and device (AgentTask) implements    *)
(* VehicleAgent, whose theorems it inherits; and what the rule planner     *)
(* tells of the air conditioner is true, whatever the user may say.        *)
(***************************************************************************)
EXTENDS AgentTask, Integers, TLAPS

\* The request has been answered.
Over == {"answered", "speaking", "idle"}

\* The bound on steps, at each place of the loop.
Bounded ==
    /\ q \in {"running", "planned", "execute"} => steps < MaxSteps

\* No action is younger than the request it belongs to.
Fresh ==
    /\ pending <= req
    /\ q \notin Over => pending < req
    /\ executed \cup dropped \subseteq 1 .. req
    /\ q \notin Over => executed \cup dropped \subseteq 1 .. req - 1

\* An action is pending, taken, executed or dropped, and only one of these.
Unique ==
    /\ executed \cap dropped = {}
    /\ pending \notin executed \cup dropped
    /\ q = "execute" => /\ taken \in 1 .. req - 1
                        /\ taken \notin executed \cup dropped
                        /\ taken # pending

\* What the router and the lookup have seen.
Seen ==
    /\ q \in {"route", "select"} /\ ~sawPending => pending = NoAction
    /\ q \in {"route", "select", "run", "check"} /\ arrivedLate =>
         pending = NoAction \/ Expired
    /\ q \in {"take", "execute"} => ~arrivedLate
    /\ q = "execute" => input = "confirm"
    /\ input = "emergency" => /\ q \in {"route", "select", "fallback"} \cup Over
                              /\ q # "route" => pending = NoAction

\* Only an interrupted request loses the action it announced.
Announced ==
    /\ canceller # "idle" => interrupted
    /\ q \in Over /\ reply = "waiting" /\ ~interrupted => pending # NoAction

IInv == TypeOK /\ Bounded /\ Fresh /\ Unique /\ Seen /\ Announced

\* Nothing is pending at first.
LEMMA IInvInit == Init => IInv
<1> SUFFICES ASSUME Init PROVE IInv
  OBVIOUS
<1> USE ConstantsAssumption DEF Init
<1>1. QueryTypeOK
  <2>1. req \in 0 .. MaxRequests  OBVIOUS
  <2> QED  BY <2>1 DEF QueryTypeOK, Inputs
<1>2. WorkTypeOK  BY DEF WorkTypeOK, NoAction
<1>3. PendingTypeOK  BY DEF PendingTypeOK, NoAction
<1>4. CancelTypeOK /\ HistoryTypeOK  BY DEF CancelTypeOK, HistoryTypeOK
<1>5. Bounded /\ Fresh /\ Unique  BY DEF Bounded, Fresh, Unique, Over, NoAction
<1>6. Seen /\ Announced  BY DEF Seen, Announced, Over
<1> QED  BY <1>1, <1>2, <1>3, <1>4, <1>5, <1>6 DEF IInv, TypeOK

\* Erasing the pending action keeps its types.
LEMMA DropType ==
    ASSUME PendingTypeOK, HistoryTypeOK, Drop
    PROVE  PendingTypeOK' /\ HistoryTypeOK'
<1>1. pending # NoAction => pending \in 1 .. MaxRequests
  BY ConstantsAssumption DEF PendingTypeOK, NoAction
<1>2. PendingTypeOK'
  BY ConstantsAssumption DEF PendingTypeOK, Drop, NoAction
<1>3. dropped' \subseteq 1 .. MaxRequests
  BY <1>1 DEF HistoryTypeOK, Drop
<1> QED  BY <1>2, <1>3 DEF HistoryTypeOK, Drop

\* Every step keeps the types: one part of the state after the other.
LEMMA TypeNext == ASSUME IInv, [Next]_vars PROVE TypeOK'
<1> USE ConstantsAssumption DEF IInv, TypeOK, Goto, Reply
<1>1. ASSUME NEW i \in Inputs, Ask(i) PROVE TypeOK'
  <2>1. QueryTypeOK' BY <1>1 DEF Ask, QueryTypeOK
  <2>2. WorkTypeOK' BY <1>1 DEF Ask, WorkTypeOK
  <2>3. PendingTypeOK' BY <1>1 DEF Ask, PendingTypeOK, pendingVars
  <2>4. CancelTypeOK' BY <1>1 DEF Ask, CancelTypeOK
  <2>5. HistoryTypeOK' BY <1>1 DEF Ask, HistoryTypeOK
  <2> QED BY <2>1, <2>2, <2>3, <2>4, <2>5
<1>2. ASSUME Query PROVE QueryTypeOK'
  <2>1. CASE Route BY <2>1 DEF Route, QueryTypeOK
  <2>2. CASE Select BY <2>2 DEF Select, QueryTypeOK
  <2>3. CASE FallbackAnswers \/ Return \/ Spoken
    BY <2>3 DEF FallbackAnswers, Return, Spoken, QueryTypeOK
  <2>4. CASE Run \/ CheckPending BY <2>4 DEF Run, CheckPending, QueryTypeOK
  <2>5. CASE TakePending \/ Execute BY <2>5 DEF TakePending, Execute, QueryTypeOK
  <2>6. CASE Plan \/ PlannerReturns \/ Act BY <2>6 DEF Plan, PlannerReturns, Act, QueryTypeOK
  <2> QED BY <1>2, <2>1, <2>2, <2>3, <2>4, <2>5, <2>6 DEF Query
<1>3. ASSUME Query PROVE WorkTypeOK'
  <2>1. CASE Route \/ Select \/ FallbackAnswers \/ Return \/ Spoken
    BY <2>1 DEF Route, Select, FallbackAnswers, Return, Spoken, workVars, WorkTypeOK
  <2>2. CASE Run \/ CheckPending BY <2>2 DEF Run, CheckPending, WorkTypeOK
  <2>3. CASE TakePending BY <2>3 DEF TakePending, WorkTypeOK, PendingTypeOK
  <2>4. CASE Execute BY <2>4 DEF Execute, WorkTypeOK, Bounded
  <2>5. CASE Plan \/ PlannerReturns BY <2>5 DEF Plan, PlannerReturns, WorkTypeOK
  <2>6. CASE Act BY <2>6 DEF Act, WorkTypeOK, Bounded
  <2> QED BY <1>3, <2>1, <2>2, <2>3, <2>4, <2>5, <2>6 DEF Query
<1>4. ASSUME Query PROVE PendingTypeOK' /\ HistoryTypeOK'
  <2>1. CASE UNCHANGED <<pendingVars, history>>
    BY <2>1 DEF pendingVars, history, PendingTypeOK, HistoryTypeOK
  <2>2. CASE Drop BY <2>2, DropType
  <2>3. CASE Execute
    <3>1. taken \in 1 .. MaxRequests BY <2>3 DEF Execute, Unique, QueryTypeOK
    <3> QED BY <2>3, <3>1 DEF Execute, pendingVars, PendingTypeOK, HistoryTypeOK
  <2>4. CASE TakePending /\ pending' = NoAction /\ UNCHANGED <<pendingSteps, age, history>>
    BY <2>4 DEF history, PendingTypeOK, HistoryTypeOK, NoAction
  <2>5. CASE Act
    BY <2>5 DEF Act, pendingVars, history, PendingTypeOK, HistoryTypeOK, QueryTypeOK,
                WorkTypeOK, Bounded
  <2> QED BY <1>4, <2>1, <2>2, <2>3, <2>4, <2>5 DEF Query, Route, Select, FallbackAnswers,
              Return, Spoken, Run, CheckPending, TakePending, Plan, PlannerReturns
<1>5. ASSUME Query PROVE CancelTypeOK'
  BY <1>5 DEF Query, Route, Select, FallbackAnswers, Return, Spoken, Run, CheckPending,
              TakePending, Execute, Plan, PlannerReturns, Act, CancelTypeOK
<1>6. CASE Tick
  BY <1>6 DEF Tick, reqVars, workVars, history, QueryTypeOK, WorkTypeOK, PendingTypeOK,
              CancelTypeOK, HistoryTypeOK, Expired
<1>7. CASE Interrupt \/ CancelRoute \/ CancelPlanner
  <2>1. QueryTypeOK' /\ WorkTypeOK' /\ PendingTypeOK'
    BY <1>7 DEF Interrupt, CancelRoute, CancelPlanner, reqVars, workVars, pendingVars,
                QueryTypeOK, WorkTypeOK, PendingTypeOK
  <2>2. CancelTypeOK'
    BY <1>7 DEF Interrupt, CancelRoute, CancelPlanner, CancelTypeOK
  <2>3. HistoryTypeOK'
    BY <1>7 DEF Interrupt, CancelRoute, CancelPlanner, history, HistoryTypeOK
  <2> QED BY <2>1, <2>2, <2>3
<1>8. CASE CancelPending
  BY <1>8, DropType DEF CancelPending, reqVars, workVars, QueryTypeOK, WorkTypeOK, CancelTypeOK
<1>9. CASE UNCHANGED vars
  BY <1>9 DEF vars, reqVars, workVars, pendingVars, history,
              QueryTypeOK, WorkTypeOK, PendingTypeOK, CancelTypeOK, HistoryTypeOK
<1> QED BY <1>1, <1>2, <1>3, <1>4, <1>5, <1>6, <1>7, <1>8, <1>9 DEF Next, Cancel

\* The planner runs only below the bound.
LEMMA BoundedNext == ASSUME IInv, [Next]_vars PROVE Bounded'
<1> USE ConstantsAssumption DEF IInv, TypeOK, Goto, Reply, Bounded, WorkTypeOK, PendingTypeOK, Seen
<1>1. ASSUME NEW i \in Inputs, Ask(i) PROVE Bounded'
  BY <1>1 DEF Ask, pendingVars
<1>2. CASE Route BY <1>2 DEF Route, reqVars, workVars, pendingVars, history
<1>3. CASE Select BY <1>3 DEF Select, reqVars, workVars, pendingVars, history
<1>4. CASE FallbackAnswers BY <1>4 DEF FallbackAnswers, reqVars, workVars, pendingVars, history
<1>5. CASE Return BY <1>5 DEF Return, reqVars, workVars, pendingVars, history
<1>6. CASE Spoken BY <1>6 DEF Spoken, reqVars, workVars, pendingVars, history
<1>7. CASE Run BY <1>7 DEF Run, reqVars, workVars, pendingVars, history
<1>8. CASE CheckPending BY <1>8 DEF CheckPending, reqVars, workVars, pendingVars, history
<1>9. CASE TakePending BY <1>9 DEF TakePending, reqVars, workVars, pendingVars, history
<1>10. CASE Execute BY <1>10 DEF Execute, reqVars, workVars, pendingVars, history
<1>11. CASE Plan BY <1>11 DEF Plan, reqVars, workVars, pendingVars, history
<1>12. CASE PlannerReturns BY <1>12 DEF PlannerReturns, reqVars, workVars, pendingVars, history
<1>13. CASE Act BY <1>13 DEF Act, reqVars, workVars, pendingVars, history
<1>14. CASE Tick BY <1>14 DEF Tick, reqVars, workVars, pendingVars, history
<1>15. CASE Interrupt BY <1>15 DEF Interrupt, reqVars, workVars, pendingVars, history
<1>16. CASE CancelRoute BY <1>16 DEF CancelRoute, reqVars, workVars, pendingVars, history
<1>17. CASE CancelPending BY <1>17 DEF CancelPending, reqVars, workVars, pendingVars, history
<1>18. CASE CancelPlanner BY <1>18 DEF CancelPlanner, reqVars, workVars, pendingVars, history
<1>19. CASE UNCHANGED vars
  BY <1>19 DEF vars, reqVars, workVars, pendingVars, history
<1> QED
  BY <1>1, <1>2, <1>3, <1>4, <1>5, <1>6, <1>7, <1>8, <1>9, <1>10, <1>11,
     <1>12, <1>13, <1>14, <1>15, <1>16, <1>17, <1>18, <1>19
     DEF Next, Query, Cancel

\* Erasing the pending action adds nothing younger than it to dropped.
LEMMA DropFresh ==
    ASSUME NEW n \in Int, PendingTypeOK, Drop, pending <= n,
           executed \cup dropped \subseteq 1 .. n
    PROVE  pending' = NoAction /\ executed' \cup dropped' \subseteq 1 .. n
<1>1. pending # NoAction => pending \in 1 .. n
  BY ConstantsAssumption DEF PendingTypeOK, NoAction
<1>2. CASE pending = NoAction
  BY <1>2 DEF Drop
<1>3. CASE pending # NoAction
  <2>1. dropped' = dropped \cup {pending} /\ executed' = executed
    BY <1>3 DEF Drop
  <2> QED  BY <1>1, <1>3, <2>1 DEF Drop
<1> QED  BY <1>2, <1>3

\* Actions are made by the request under way and by no later one.
LEMMA FreshNext == ASSUME IInv, [Next]_vars PROVE Fresh'
<1> USE ConstantsAssumption DEF IInv, TypeOK, Goto, Reply, Fresh, Over, QueryTypeOK,
        PendingTypeOK, WorkTypeOK, HistoryTypeOK, NoAction, Unique
<1>1. ASSUME NEW i \in Inputs, Ask(i) PROVE Fresh'
  BY <1>1 DEF Ask, pendingVars
<1>2. CASE Route
  <2>1. CASE Drop
    <3>1. req' = req /\ q \notin Over /\ req - 1 \in Int
      BY <1>2 DEF Route
    <3>2. pending' = NoAction /\ executed' \cup dropped' \subseteq 1 .. req - 1
      BY <2>1, <3>1, DropFresh
    <3>3. executed' \cup dropped' \subseteq 1 .. req
      BY <3>1, <3>2
    <3> QED BY <3>1, <3>2, <3>3
  <2>2. CASE pending' \in {pending, NoAction} /\ UNCHANGED history
    BY <1>2, <2>2 DEF Route, history
  <2> QED BY <1>2, <2>1, <2>2 DEF Route, pendingVars
<1>3. CASE Select BY <1>3 DEF Select, reqVars, workVars, pendingVars, history
<1>4. CASE FallbackAnswers BY <1>4 DEF FallbackAnswers, reqVars, workVars, pendingVars, history
<1>5. CASE Return BY <1>5 DEF Return, reqVars, workVars, pendingVars, history
<1>6. CASE Spoken BY <1>6 DEF Spoken, reqVars, workVars, pendingVars, history
<1>7. CASE Run BY <1>7 DEF Run, reqVars, workVars, pendingVars, history
<1>8. CASE CheckPending
  <2>1. CASE Drop
    <3>1. req' = req /\ q \notin Over /\ req - 1 \in Int
      BY <1>8 DEF CheckPending
    <3>2. pending' = NoAction /\ executed' \cup dropped' \subseteq 1 .. req - 1
      BY <2>1, <3>1, DropFresh
    <3>3. executed' \cup dropped' \subseteq 1 .. req
      BY <3>1, <3>2
    <3> QED BY <3>1, <3>2, <3>3
  <2>2. CASE pending' \in {pending, NoAction} /\ UNCHANGED history
    BY <1>8, <2>2 DEF CheckPending, history
  <2> QED BY <1>8, <2>1, <2>2 DEF CheckPending, pendingVars
<1>9. CASE TakePending
  <2>1. CASE Drop
    <3>1. req' = req /\ q \notin Over /\ req - 1 \in Int
      BY <1>9 DEF TakePending
    <3>2. pending' = NoAction /\ executed' \cup dropped' \subseteq 1 .. req - 1
      BY <2>1, <3>1, DropFresh
    <3>3. executed' \cup dropped' \subseteq 1 .. req
      BY <3>1, <3>2
    <3> QED BY <3>1, <3>2, <3>3
  <2>2. CASE pending' \in {pending, NoAction} /\ UNCHANGED history
    BY <1>9, <2>2 DEF TakePending, history
  <2> QED BY <1>9, <2>1, <2>2 DEF TakePending, pendingVars
<1>10. CASE Execute BY <1>10 DEF Execute, reqVars, workVars, pendingVars, history
<1>11. CASE Plan BY <1>11 DEF Plan, reqVars, workVars, pendingVars, history
<1>12. CASE PlannerReturns BY <1>12 DEF PlannerReturns, reqVars, workVars, pendingVars, history
<1>13. CASE Act BY <1>13 DEF Act, reqVars, workVars, pendingVars, history
<1>14. CASE Tick BY <1>14 DEF Tick, reqVars, workVars, pendingVars, history
<1>15. CASE Interrupt BY <1>15 DEF Interrupt, reqVars, workVars, pendingVars, history
<1>16. CASE CancelRoute BY <1>16 DEF CancelRoute, reqVars, workVars, pendingVars, history
<1>17. CASE CancelPending BY <1>17 DEF CancelPending, Drop, reqVars, workVars, pendingVars, history
<1>18. CASE CancelPlanner BY <1>18 DEF CancelPlanner, reqVars, workVars, pendingVars, history
<1>19. CASE UNCHANGED vars
  BY <1>19 DEF vars, reqVars, workVars, pendingVars, history
<1> QED
  BY <1>1, <1>2, <1>3, <1>4, <1>5, <1>6, <1>7, <1>8, <1>9, <1>10, <1>11,
     <1>12, <1>13, <1>14, <1>15, <1>16, <1>17, <1>18, <1>19
     DEF Next, Query, Cancel

\* Erasing the pending action keeps the three places apart.
LEMMA DropUnique ==
    ASSUME PendingTypeOK, HistoryTypeOK, Unique, Drop
    PROVE  /\ executed' \cap dropped' = {}
           /\ pending' \notin executed' \cup dropped'
           /\ executed' = executed
<1>1. NoAction \notin executed \cup dropped
  BY DEF HistoryTypeOK, NoAction
<1>2. CASE pending = NoAction
  BY <1>1, <1>2 DEF Unique, Drop
<1>3. CASE pending # NoAction
  BY <1>1, <1>3 DEF Unique, Drop
<1> QED  BY <1>2, <1>3

\* An action that moves leaves the place where it was.
LEMMA UniqueNext == ASSUME IInv, [Next]_vars PROVE Unique'
<1> USE ConstantsAssumption DEF IInv, TypeOK, Goto, Reply, Unique, Fresh, Over, Seen,
        QueryTypeOK, PendingTypeOK, NoAction, HistoryTypeOK
<1>1. ASSUME NEW i \in Inputs, Ask(i) PROVE Unique'
  BY <1>1 DEF Ask, pendingVars
<1>2. CASE Route
  <2>1. CASE Drop BY <1>2, <2>1, DropUnique DEF Route
  <2>2. CASE UNCHANGED <<pendingVars, history>>
    BY <1>2, <2>2 DEF Route, pendingVars, history
  <2> QED BY <1>2, <2>1, <2>2 DEF Route
<1>3. CASE Select BY <1>3 DEF Select, reqVars, workVars, pendingVars, history
<1>4. CASE FallbackAnswers BY <1>4 DEF FallbackAnswers, reqVars, workVars, pendingVars, history
<1>5. CASE Return BY <1>5 DEF Return, reqVars, workVars, pendingVars, history
<1>6. CASE Spoken BY <1>6 DEF Spoken, reqVars, workVars, pendingVars, history
<1>7. CASE Run BY <1>7 DEF Run, reqVars, workVars, pendingVars, history
<1>8. CASE CheckPending
  <2>1. CASE Drop BY <1>8, <2>1, DropUnique DEF CheckPending
  <2>2. CASE UNCHANGED <<pendingVars, history>>
    BY <1>8, <2>2 DEF CheckPending, pendingVars, history
  <2> QED BY <1>8, <2>1, <2>2 DEF CheckPending
<1>9. CASE TakePending
  <2>1. CASE input = "refuse" /\ q' = "answered" /\ Drop
    BY <1>9, <2>1, DropUnique DEF TakePending
  <2>2. CASE UNCHANGED <<pendingVars, history>>
    BY <1>9, <2>2 DEF TakePending, pendingVars, history
  <2>3. CASE q' = "execute" /\ taken' = pending /\ pending # NoAction /\ pending' = NoAction
             /\ UNCHANGED history
    <3>1. pending \in 1 .. req - 1
      BY <1>9, <2>3 DEF TakePending
    <3>2. NoAction \notin executed \cup dropped
      BY DEF HistoryTypeOK, NoAction
    <3>3. req' = req
      BY <1>9 DEF TakePending
    <3> QED BY <2>3, <3>1, <3>2, <3>3 DEF history
  <2> QED BY <1>9, <2>1, <2>2, <2>3 DEF TakePending
<1>10. CASE Execute BY <1>10 DEF Execute, reqVars, workVars, pendingVars, history
<1>11. CASE Plan BY <1>11 DEF Plan, reqVars, workVars, pendingVars, history
<1>12. CASE PlannerReturns BY <1>12 DEF PlannerReturns, reqVars, workVars, pendingVars, history
<1>13. CASE Act BY <1>13 DEF Act, reqVars, workVars, pendingVars, history
<1>14. CASE Tick BY <1>14 DEF Tick, reqVars, workVars, pendingVars, history
<1>15. CASE Interrupt BY <1>15 DEF Interrupt, reqVars, workVars, pendingVars, history
<1>16. CASE CancelRoute BY <1>16 DEF CancelRoute, reqVars, workVars, pendingVars, history
<1>17. CASE CancelPending BY <1>17, DropUnique DEF CancelPending, reqVars, workVars, Drop
<1>18. CASE CancelPlanner BY <1>18 DEF CancelPlanner, reqVars, workVars, pendingVars, history
<1>19. CASE UNCHANGED vars
  BY <1>19 DEF vars, reqVars, workVars, pendingVars, history
<1> QED
  BY <1>1, <1>2, <1>3, <1>4, <1>5, <1>6, <1>7, <1>8, <1>9, <1>10, <1>11,
     <1>12, <1>13, <1>14, <1>15, <1>16, <1>17, <1>18, <1>19
     DEF Next, Query, Cancel

\* Nothing that happens between looking and acting makes the look wrong.
LEMMA SeenNext == ASSUME IInv, [Next]_vars PROVE Seen'
<1> USE ConstantsAssumption DEF IInv, TypeOK, Goto, Reply, Seen, Fresh, Over, Expired,
        QueryTypeOK, PendingTypeOK, NoAction
<1>1. ASSUME NEW i \in Inputs, Ask(i) PROVE Seen'
  BY <1>1 DEF Ask, pendingVars
<1>2. CASE Route
  <2>1. CASE Drop BY <1>2, <2>1 DEF Route, Drop
  <2>2. CASE ~(input = "emergency" /\ sawPending) /\ UNCHANGED <<pendingVars, history>>
    BY <1>2, <2>2 DEF Route, pendingVars, history
  <2> QED BY <1>2, <2>1, <2>2 DEF Route
<1>3. CASE Select BY <1>3 DEF Select, reqVars, workVars, pendingVars, history
<1>4. CASE FallbackAnswers BY <1>4 DEF FallbackAnswers, reqVars, workVars, pendingVars, history
<1>5. CASE Return BY <1>5 DEF Return, reqVars, workVars, pendingVars, history
<1>6. CASE Spoken BY <1>6 DEF Spoken, reqVars, workVars, pendingVars, history
<1>7. CASE Run BY <1>7 DEF Run, reqVars, workVars, pendingVars, history
<1>8. CASE CheckPending
  <2>1. CASE q' = "answered"
    BY <1>8, <2>1 DEF CheckPending
  <2>2. CASE q' = "take" /\ ~arrivedLate /\ UNCHANGED <<pendingVars, history>>
    BY <1>8, <2>2 DEF CheckPending, pendingVars, history
  <2> QED BY <1>8, <2>1, <2>2 DEF CheckPending
<1>9. CASE TakePending
  <2>1. CASE q' = "answered"
    BY <1>9, <2>1 DEF TakePending
  <2>2. CASE q' = "execute" /\ input = "confirm" /\ UNCHANGED history
    BY <1>9, <2>2 DEF TakePending, history
  <2> QED BY <1>9, <2>1, <2>2 DEF TakePending
<1>10. CASE Execute BY <1>10 DEF Execute, reqVars, workVars, pendingVars, history
<1>11. CASE Plan BY <1>11 DEF Plan, reqVars, workVars, pendingVars, history
<1>12. CASE PlannerReturns BY <1>12 DEF PlannerReturns, reqVars, workVars, pendingVars, history
<1>13. CASE Act BY <1>13 DEF Act, reqVars, workVars, pendingVars, history
<1>14. CASE Tick BY <1>14 DEF Tick, reqVars, workVars, pendingVars, history
<1>15. CASE Interrupt BY <1>15 DEF Interrupt, reqVars, workVars, pendingVars, history
<1>16. CASE CancelRoute BY <1>16 DEF CancelRoute, reqVars, workVars, pendingVars, history
<1>17. CASE CancelPending BY <1>17 DEF CancelPending, Drop, reqVars, workVars, pendingVars, history
<1>18. CASE CancelPlanner BY <1>18 DEF CancelPlanner, reqVars, workVars, pendingVars, history
<1>19. CASE UNCHANGED vars
  BY <1>19 DEF vars, reqVars, workVars, pendingVars, history
<1> QED
  BY <1>1, <1>2, <1>3, <1>4, <1>5, <1>6, <1>7, <1>8, <1>9, <1>10, <1>11,
     <1>12, <1>13, <1>14, <1>15, <1>16, <1>17, <1>18, <1>19
     DEF Next, Query, Cancel

\* Only the canceller, and only of an interrupted request, takes back a prompt.
LEMMA AnnouncedNext == ASSUME IInv, [Next]_vars PROVE Announced'
<1> USE ConstantsAssumption DEF IInv, TypeOK, Goto, Reply, Announced, Fresh, Over,
        QueryTypeOK, PendingTypeOK, NoAction
<1>1. ASSUME NEW i \in Inputs, Ask(i) PROVE Announced'
  BY <1>1 DEF Ask, pendingVars
<1>2. CASE Route BY <1>2 DEF Route, Drop, reqVars, workVars, pendingVars, history
<1>3. CASE Select BY <1>3 DEF Select, reqVars, workVars, pendingVars, history
<1>4. CASE FallbackAnswers BY <1>4 DEF FallbackAnswers, reqVars, workVars, pendingVars, history
<1>5. CASE Return BY <1>5 DEF Return, reqVars, workVars, pendingVars, history
<1>6. CASE Spoken BY <1>6 DEF Spoken, reqVars, workVars, pendingVars, history
<1>7. CASE Run BY <1>7 DEF Run, reqVars, workVars, pendingVars, history
<1>8. CASE CheckPending BY <1>8 DEF CheckPending, Drop, reqVars, workVars, pendingVars, history
<1>9. CASE TakePending BY <1>9 DEF TakePending, Drop, reqVars, workVars, pendingVars, history
<1>10. CASE Execute BY <1>10 DEF Execute, reqVars, workVars, pendingVars, history
<1>11. CASE Plan BY <1>11 DEF Plan, reqVars, workVars, pendingVars, history
<1>12. CASE PlannerReturns BY <1>12 DEF PlannerReturns, reqVars, workVars, pendingVars, history
<1>13. CASE Act BY <1>13 DEF Act, reqVars, workVars, pendingVars, history
<1>14. CASE Tick BY <1>14 DEF Tick, reqVars, workVars, pendingVars, history
<1>15. CASE Interrupt BY <1>15 DEF Interrupt, reqVars, workVars, pendingVars, history
<1>16. CASE CancelRoute BY <1>16 DEF CancelRoute, reqVars, workVars, pendingVars, history
<1>17. CASE CancelPending BY <1>17 DEF CancelPending, Drop, reqVars, workVars, pendingVars, history
<1>18. CASE CancelPlanner BY <1>18 DEF CancelPlanner, reqVars, workVars, pendingVars, history
<1>19. CASE UNCHANGED vars
  BY <1>19 DEF vars, reqVars, workVars, pendingVars, history
<1> QED
  BY <1>1, <1>2, <1>3, <1>4, <1>5, <1>6, <1>7, <1>8, <1>9, <1>10, <1>11,
     <1>12, <1>13, <1>14, <1>15, <1>16, <1>17, <1>18, <1>19
     DEF Next, Query, Cancel

\* The conjunction is inductive.
THEOREM Inductive == Spec => []IInv
<1>1. IInv /\ [Next]_vars => IInv'
  BY TypeNext, BoundedNext, FreshNext, UniqueNext, SeenNext, AnnouncedNext DEF IInv
<1> QED  BY IInvInit, <1>1, PTL DEF Spec

\* The workflow keeps its types; in particular no workflow, confirmed or not,
\* makes more than MaxSteps observations.
THEOREM TypeCorrect == Spec => []TypeOK
  BY Inductive, PTL DEF IInv

\* No device write without a timely confirmation in a later request.
THEOREM Confirmed == Spec => []WritesAreConfirmed
<1>1. IInv => WritesAreConfirmed
  BY DEF IInv, Unique, Seen, WritesAreConfirmed
<1> QED  BY Inductive, <1>1, PTL

\* A refused, expired or cancelled action is never executed.
THEOREM NeverExecuted == Spec => []DroppedIsNeverExecuted
<1>1. IInv => DroppedIsNeverExecuted
  BY DEF IInv, Unique, DroppedIsNeverExecuted
<1> QED  BY Inductive, <1>1, PTL

\* No pending action survives an emergency.
THEOREM Cleared == Spec => []EmergencyClears
<1>1. IInv => EmergencyClears
  BY DEF IInv, Seen, EmergencyClears
<1> QED  BY Inductive, <1>1, PTL

\* A prompt the user has heard announces an action he can confirm.
THEOREM Announces == Spec => []PromptHasAction
<1>1. IInv => PromptHasAction
  BY DEF IInv, Announced, Over, PromptHasAction
<1> QED  BY Inductive, <1>1, PTL
-----------------------------------------------------------------------------
Mapped == <<vars, taskVars>>

LEMMA StepsAreSteps == [TaskNext]_Mapped => [Next]_vars
<1> SUFFICES ASSUME [TaskNext]_Mapped PROVE [Next]_vars
  OBVIOUS
<1> USE DEF Next, Query, Cancel
<1>1. ASSUME NEW w \in Phrases, AskTask(w) PROVE Next
  <2>1. InputOf(w) \in Inputs
    BY DEF InputOf, Inputs
  <2> QED BY <1>1, <2>1 DEF AskTask
<1>2. CASE RunTask BY <1>2 DEF RunTask
<1>3. CASE PlannerReturnsTask BY <1>3 DEF PlannerReturnsTask
<1>4. CASE ActTask BY <1>4 DEF ActTask
<1>5. CASE ExecuteTask BY <1>5 DEF ExecuteTask
<1>6. CASE CancelPlannerTask BY <1>6 DEF CancelPlannerTask
<1>7. CASE Unchanged BY <1>7 DEF Unchanged
<1>8. CASE UNCHANGED Mapped BY <1>8 DEF Mapped
<1> QED BY <1>1, <1>2, <1>3, <1>4, <1>5, <1>6, <1>7, <1>8 DEF TaskNext

\* Every behaviour of the agent with its planners and tools is one of VehicleAgent, so
\* that confirmations, cancellations and emergencies are safe whatever is planned.
THEOREM Implements == TaskSpec => Spec
<1>1. TaskInit => Init
  BY DEF TaskInit
<1> QED BY <1>1, StepsAreSteps, PTL DEF TaskSpec, Spec, Mapped
-----------------------------------------------------------------------------
\* The last observation of the air conditioner is what the device has: every change of
\* the device is observed.
Observant == observation.ok /\ observation.tool # "get_cabin_environment"
                => observation.enabled = on
\* Nothing is told while an action of an earlier request may still change the device,
\* nor by a plan that goes on.
Silent == /\ q \in {"route", "select", "run", "check", "take", "execute"} => said = "nothing"
          /\ action \in {"read", "write"} /\ q = "planned" => said = "nothing"
Reading == action = "read" => call.tool # "set_air_conditioner"
Truthful == said \in {"on", "off"} => on = (said = "on")
TInv == on \in BOOLEAN /\ Observant /\ Silent /\ Reading /\ Truthful

LEMMA ToolsObserve ==
  ASSUME NEW c, Observant, on \in BOOLEAN, ExecuteTool(c)
  PROVE  /\ Observant' /\ on' \in BOOLEAN
         /\ c.tool # "set_air_conditioner" => on' = on
<1> USE DEF Observant, Refused, Observed
<1>1. CASE c.tool = "get_cabin_environment" /\ ReadEnvironment(c) /\ UNCHANGED on
  <2>1. /\ observation' \in {Observed(c, TRUE, FALSE), Observed(c, FALSE, FALSE)}
        /\ on' = on /\ c.tool = "get_cabin_environment"
    BY <1>1 DEF ReadEnvironment
  <2> QED BY <2>1
<1>2. CASE c.tool = "get_air_conditioner_state" /\ ReadState(c) /\ UNCHANGED on
  BY <1>2 DEF ReadState
<1>3. CASE c.tool = "set_air_conditioner" /\ SetAirConditioner(c)
  <2>1. CASE Refused(c)
    BY <1>3, <2>1
  <2>2. CASE on' = (c.arguments = "on") /\ observation' = Observed(c, TRUE, on')
    <3>1. observation'.enabled = on' /\ on' \in BOOLEAN
      BY <2>2
    <3> QED BY <1>3, <3>1
  <2> QED BY <1>3, <2>1, <2>2 DEF SetAirConditioner
<1> QED BY <1>1, <1>2, <1>3 DEF ExecuteTool

LEMMA PlansAreTrue ==
  ASSUME Observant, on \in BOOLEAN,
         NEW plan \in IF planner = "rule" THEN {RulePlan} ELSE LlmPlans
  PROVE  /\ plan.says \in {"on", "off"} => plan.type = "final" /\ on = (plan.says = "on")
         /\ plan.type = "read" => plan.call.tool # "set_air_conditioner"
<1> USE DEF Error, FinalAnswer, ToolCall
<1>1. CASE plan = RulePlan /\ observation = NoObservation
  BY <1>1 DEF RulePlan, PlanInitialAction
<1>2. CASE plan = RulePlan /\ observation # NoObservation
  BY <1>2 DEF RulePlan, HandleObservation, Observant
<1>3. CASE plan \in LlmPlans
  BY <1>3 DEF LlmPlans
<1> QED BY <1>1, <1>2, <1>3

LEMMA TaskInvariance == TInv /\ [TaskNext]_Mapped => TInv'
<1> SUFFICES ASSUME TInv, [TaskNext]_Mapped PROVE TInv'
  OBVIOUS
<1> USE DEF TInv, Goto, Reply, Drop, reqVars, workVars, setupVars
<1>1. ASSUME NEW w \in Phrases, AskTask(w) PROVE TInv'
  BY <1>1 DEF AskTask, Ask, Observant, Silent, Reading, Truthful
<1>2. CASE RunTask
  BY <1>2 DEF RunTask, Run, NoObservation, Observant, Silent, Reading, Truthful
<1>3. CASE PlannerReturnsTask
  <2>1. PICK plan \in IF planner = "rule" THEN {RulePlan} ELSE LlmPlans :
            action' = plan.type /\ call' = plan.call /\ said' = plan.says
    BY <1>3 DEF PlannerReturnsTask
  <2>2. plan.says \in {"nothing", "environment", "on", "off"}
         /\ (plan.type \in {"read", "write"} => plan.says = "nothing")
    BY <2>1 DEF RulePlan, PlanInitialAction, HandleObservation, LlmPlans, Error, FinalAnswer,
                ToolCall
  <2> QED
    BY <1>3, <2>1, <2>2, PlansAreTrue
    DEF PlannerReturnsTask, PlannerReturns, Observant, Silent, Reading, Truthful
<1>4. CASE ActTask
  <2>1. CASE action = "read"
    <3>1. on' = on /\ Observant'
      BY <1>4, <2>1, ToolsObserve DEF ActTask, Reading
    <3> QED BY <1>4, <2>1, <3>1 DEF ActTask, Act, Silent, Reading, Truthful
  <2>2. CASE action # "read"
    BY <1>4, <2>2 DEF ActTask, Act, Observant, Silent, Reading, Truthful
  <2> QED BY <2>1, <2>2
<1>5. CASE ExecuteTask
  <2>1. Observant' /\ on' \in BOOLEAN
    BY <1>5, ToolsObserve DEF ExecuteTask
  <2> QED BY <1>5, <2>1 DEF ExecuteTask, Execute, Silent, Reading, Truthful
<1>6. CASE CancelPlannerTask
  BY <1>6 DEF CancelPlannerTask, CancelPlanner, taskVars, Observant, Silent, Reading, Truthful
<1>7. CASE Unchanged /\ UNCHANGED taskVars
  <2>1. Observant' /\ Truthful' /\ on' \in BOOLEAN
    BY <1>7 DEF taskVars, Observant, Truthful
  <2>2. Silent' /\ Reading'
    BY <1>7 DEF taskVars, Unchanged, Route, Select, FallbackAnswers, Return, Spoken,
                CheckPending, TakePending, Plan, Tick, Interrupt, CancelRoute, CancelPending,
                Silent, Reading
  <2> QED BY <2>1, <2>2
<1>8. CASE UNCHANGED Mapped
  BY <1>8 DEF Mapped, vars, taskVars, Observant, Silent, Reading, Truthful
<1> QED BY <1>1, <1>2, <1>3, <1>4, <1>5, <1>6, <1>7, <1>8 DEF TaskNext

\* What the rule planner tells of the air conditioner is what the device has, for any
\* phrases, any step limit and any timeout.
THEOREM TellsTheTruth == TaskSpec => []AnswerIsTrue
<1>1. TaskInit => TInv
  <2> SUFFICES ASSUME TaskInit PROVE TInv
    OBVIOUS
  <2>1. q = "idle" /\ action = "none" /\ on = FALSE /\ said = "nothing" /\ ~observation.ok
    BY DEF TaskInit, Init, NoObservation
  <2> QED BY <2>1 DEF TInv, Observant, Silent, Reading, Truthful
<1>2. TInv => AnswerIsTrue
  BY DEF TInv, Truthful, AnswerIsTrue
<1> QED BY <1>1, <1>2, TaskInvariance, PTL DEF TaskSpec, Mapped
==============================================================================
