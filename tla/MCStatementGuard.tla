-------------------------- MODULE MCStatementGuard --------------------------
(* Statements and settings StatementGuard is checked with.                 *)
EXTENDS StatementGuard

CONSTANTS s1, s2

Rebuild == [kind |-> "cluster", lock_class |-> HighLock, mb |-> 0, concurrent |-> FALSE]
Truncation == [kind |-> "truncate", lock_class |-> HighLock, mb |-> 0, concurrent |-> FALSE]

Conf(mode, fail_closed, fault) ==
    [enabled |-> TRUE, mode |-> mode, fail_closed |-> fail_closed,
     warn_at |-> 50, block_at |-> 80, fault |-> fault]

(* A statement no rule is about, and one for each verdict of enforce.      *)
SharedStatements == {OtherInfo, Rebuild, Truncation}

SharedConfs ==
    {Conf("enforce", FALSE, ""), Conf("enforce", TRUE, "runtime"),
     [Conf("warn", TRUE, "event_full") EXCEPT !.warn_at = 80],
     [Conf("enforce", FALSE, "") EXCEPT !.enabled = FALSE]}

=============================================================================
