---------------------------- MODULE MCFlowEngine ----------------------------
(***************************************************************************)
(* The flow engine over every definition of NumSteps steps.                *)
(***************************************************************************)
EXTENDS FlowEngine

=============================================================================
