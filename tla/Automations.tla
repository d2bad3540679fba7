---------------------------- MODULE Automations ----------------------------
(***************************************************************************)
(* The executions of one workflow for one affiliate (AutomationEngine-     *)
(* Service, AutomationStepRunnerService).  An event, a partner that joins  *)
(* or a new tracking link, first ends the executions whose goal is reached *)
(* and then starts one if none is active.  An execution runs from node to  *)
(* node and waits in its actions and, as a scheduled step, in its delays.  *)
(*                                                                         *)
(* The goal is evaluated in two ways, from lists before an event and from  *)
(* the affiliate's summary before a node, which need not agree.            *)
(* AutomationSchedulerService.processScheduledSteps, which would resume an *)
(* execution behind a delay, is called by nothing under src/.              *)
(***************************************************************************)
EXTENDS Naturals, FiniteSets

CONSTANTS
    Events,         \* events that may be handled at the same time
    MaxExecutions   \* bound: executions started

ASSUME AutomationsAssumption == MaxExecutions \in Nat

VARIABLES
    execution,      \* status of an execution
    step,           \* status of its scheduled step
    handling,       \* where the handler of an event stands, and with which execution
    overrun         \* history: executions that ran on after their goal was reached

automationVars == <<execution, step, handling, overrun>>

Executions == 1..MaxExecutions
NoEvent == [at |-> "idle", on |-> 0]

AutomationsInit ==
    /\ execution = [e \in Executions |-> "NONE"]
    /\ step = [e \in Executions |-> "NONE"]
    /\ handling = [v \in Events |-> NoEvent]
    /\ overrun = {}

Active == {e \in Executions : execution[e] \in {"RUNNING", "WAITING"}}
Fresh == {e \in Executions : execution[e] = "NONE"}

Leave(v) == handling' = [handling EXCEPT ![v] = NoEvent]
Stand(v, place, e) == handling' = [handling EXCEPT ![v] = [at |-> place, on |-> e]]

-----------------------------------------------------------------------------
(* An operator whose name has an underscore is the operator before the        *)
(* underscore with a slip in it.                                              *)

CancelPendingSteps(ended) ==
    step' = [e \in Executions |-> IF e \in ended /\ step[e] = "PENDING" THEN "CANCELLED" ELSE step[e]]

\* handleEvent up to the writes of checkRunningExecutionGoals.
HandleEvent(v) ==
    /\ handling[v].at = "idle"
    /\ \E ended \in {{}, Active} :
          /\ execution' = [e \in Executions |-> IF e \in ended THEN "GOAL_REACHED" ELSE execution[e]]
          /\ CancelPendingSteps(ended)
    /\ Stand(v, "checked", 0)
    /\ UNCHANGED overrun

\* existingRunning, or the workflow does not match the event.
MayStart_NotRunning == \A e \in Executions : execution[e] # "RUNNING"
MayStart == Active = {}

StartNothing(v) ==
    /\ handling[v].at = "checked"
    /\ Leave(v)
    /\ UNCHANGED <<execution, step, overrun>>

StartExecution(v) ==
    /\ handling[v].at = "checked"
    /\ MayStart
    /\ \E e \in Fresh :
          /\ \A f \in Fresh : e <= f
          /\ execution' = [execution EXCEPT ![e] = "RUNNING"]
          /\ Stand(v, "starting", e)
    /\ UNCHANGED <<step, overrun>>

\* runStep up to its next wait; it does not look at the status it overwrites.
Over(e) == overrun' = IF execution[e] = "RUNNING" THEN overrun ELSE overrun \cup {e}

RunStep(v) ==
    LET e == handling[v].on
    IN  \/ \* an action
           /\ Stand(v, "acting", e)
           /\ UNCHANGED <<execution, step, overrun>>
        \/ \* a delay
           /\ execution' = [execution EXCEPT ![e] = "WAITING"]
           /\ step' = [step EXCEPT ![e] = "PENDING"]
           /\ Over(e)
           /\ Leave(v)
        \/ \* the goal
           /\ execution' = [execution EXCEPT ![e] = "GOAL_REACHED"]
           /\ CancelPendingSteps({e})
           /\ Over(e)
           /\ Leave(v)
        \/ \* the end
           /\ execution' = [execution EXCEPT ![e] = "COMPLETED"]
           /\ Over(e)
           /\ Leave(v)
           /\ UNCHANGED step

Resume(v) ==
    /\ handling[v].at \in {"starting", "acting"}
    /\ RunStep(v)

\* An action throws: the execution keeps its status.
ActionThrows(v) ==
    /\ handling[v].at = "acting"
    /\ Leave(v)
    /\ UNCHANGED <<execution, step, overrun>>

AutomationsNext ==
    \E v \in Events :
        \/ HandleEvent(v) \/ StartNothing(v) \/ StartExecution(v) \/ Resume(v) \/ ActionThrows(v)

AutomationsSafety == AutomationsInit /\ [][AutomationsNext]_automationVars

-----------------------------------------------------------------------------
(* Properties *)

\* What the variables hold.
AutomationsTypeOK ==
    /\ execution \in [Executions -> {"NONE", "RUNNING", "WAITING", "COMPLETED", "GOAL_REACHED"}]
    /\ step \in [Executions -> {"NONE", "PENDING", "CANCELLED"}]
    /\ handling \in [Events -> [at : {"checked"}, on : {0}]
                               \cup [at : {"starting", "acting"}, on : Executions] \cup {NoEvent}]
    /\ overrun \in SUBSET Executions

\* However many events are handled at the same time, one execution is active, and the one
\* that waits has a step that could resume it; unless it ran on after its goal
\* was reached (handleEvent, runStep).
OneActive ==
    /\ \A e, f \in Active \ overrun : e = f
    /\ \A e \in Executions : execution[e] = "WAITING" <=> step[e] = "PENDING"
=============================================================================
