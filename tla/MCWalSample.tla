---------------------------- MODULE MCWalSample ----------------------------
(* The sessions and thresholds WalSample is checked with.                  *)
EXTENDS WalSample

CONSTANTS s1, s2

(* The sessions agree, or one has its thresholds in the wrong order.       *)
MCLimits ==
    LET usual == [elevated |-> 1, high |-> 2]
    IN  {[s \in Samplers |-> usual],
         [s \in Samplers |-> IF s = s1 THEN usual ELSE [elevated |-> 2, high |-> 1]]}

=============================================================================
