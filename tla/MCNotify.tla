------------------------------ MODULE MCNotify ------------------------------
(* The events notify is checked with: one of each decision.                *)
EXTENDS Notify

MCRiskEvents == [decision: {"WARN", "BLOCK"}]

MCDecisionSets == {{"BLOCK"}, {"WARN", "BLOCK"}}
BothDecisions == {{"WARN", "BLOCK"}}

=============================================================================
