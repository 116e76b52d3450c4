---------------------------- MODULE MCAuditChain ----------------------------
(* Instances of AuditChain for TLC.                                         *)
EXTENDS AuditChain

CONSTANTS t1, t2, api, cli

InOneProcess == [t \in {t1, t2} |-> api]
InTwoProcesses == [t \in {t1, t2} |-> IF t = t1 THEN api ELSE cli]
=============================================================================
