---------------------------- MODULE MCEventRing ----------------------------
(* Values for the constants of EventRing.                                  *)
EXTENDS EventRing, TLC

CONSTANTS w1, w2, r1, r2

AllowedAlter == [operation |-> "alter_table", decision |-> "ALLOW"]
WarnedAlter == [operation |-> "alter_table", decision |-> "WARN"]
BlockedTruncate == [operation |-> "truncate", decision |-> "BLOCK"]

MCRiskEvents == {AllowedAlter, WarnedAlter, BlockedTruncate}

=============================================================================
