-------------------------- MODULE MCWorkflowCache --------------------------
(* The instance of WorkflowCache TLC checks.  Its bounds are in the cfg.    *)
EXTENDS WorkflowCache
=============================================================================
