---------------------------- MODULE MCHookLocks ----------------------------
(* Sessions of HookLocks: two that only watch next to one with the guard   *)
(* off or one that enforces, and two that enforce.                         *)
EXTENDS HookLocks

CONSTANTS p1, p2, p3

SomeGuards ==
    {[b \in Backends |-> CASE b = p1 -> g[1] [] b = p2 -> g[2] [] OTHER -> g[3]] :
        g \in {<<"off", "observe", "observe">>, <<"enforce", "observe", "observe">>,
               <<"enforce", "enforce", "off">>}}

=============================================================================
