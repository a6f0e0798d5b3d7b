--------------------------- MODULE MCTenantSwitch ---------------------------
(* Two connections, two keys.  Key k1 belongs to a1 and may switch to a2;   *)
(* key k2 belongs to a2 and may switch to a1, so a stale home or a stale    *)
(* JWT of one is a plausible answer for the other.                          *)
EXTENDS TenantSwitch

CONSTANTS t1, t2, k1, k2, a1, a2

MCMemberOf == [k \in Keys |-> {a1, a2}]
MCHomeOf == [k \in Keys |-> IF k = k1 THEN a1 ELSE a2]

-----------------------------------------------------------------------------
(* SwitchesAreAnswered: a switch that was answered ok is the account every *)
(* request is served in, and a transition that waits for one completes     *)
(* (account.go SwitchAccount, main.go authReset).                          *)
SwitchesAreAnswered == SwitchIsServed /\ TransitionCompletes
=============================================================================
