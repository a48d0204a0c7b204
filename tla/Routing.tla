------------------------------- MODULE Routing -------------------------------
(***************************************************************************)
(* The routing side in one specification: the health rows the payment      *)
(* service's coroutines keep, the engine that plans with them, the         *)
(* publications of the admin's service and the visual builder they come    *)
(* from.  What they share is read whole at one step of the reader (the     *)
(* availability the engine is told, the configuration it reads), so that   *)
(* each keeps its own variables; a behaviour here follows the steps of     *)
(* one part, whichever it is, while the others stand still.                *)
(***************************************************************************)
EXTENDS ProviderHealth, RoutingEngine, RoutingWorkflow, WorkflowEditor

VARIABLE
    part      \* the part whose steps are followed

vars == <<part, healthVars, engineVars, workflowVars, editorVars>>

TypeOK == HealthTypeOK /\ EngineTypeOK /\ WorkflowTypeOK

\* The parts that stand still begin with nothing to do.
Init ==
    /\ part \in {"health", "engine", "workflow", "editor"}
    /\ HealthInit
    /\ EngineInit /\ (part # "engine" => requested = None /\ available = <<>>)
    /\ WorkflowInit
    /\ EditorInit /\ (part # "editor" => stored.graph = CHOOSE g \in InitialGraph : TRUE)

Next ==
    /\ UNCHANGED part
    /\ \/ /\ part = "health" /\ HealthNext
          /\ UNCHANGED <<engineVars, workflowVars, editorVars>>
       \/ /\ part = "engine" /\ EngineNext
          /\ UNCHANGED <<healthVars, workflowVars, editorVars>>
       \/ /\ part = "workflow" /\ WorkflowNext
          /\ UNCHANGED <<healthVars, engineVars, editorVars>>
       \/ /\ part = "editor" /\ EditorNext
          /\ UNCHANGED <<healthVars, engineVars, workflowVars>>

Spec == Init /\ [][Next]_vars
=============================================================================
