------------------------------ MODULE Session ------------------------------
(***************************************************************************)
(* The server's parts that outlive a request, side by side: the portal     *)
(* session (TenantSwitch), the cache of answers (Cache), the throttle on   *)
(* unlocking (UnlockThrottle) and the query session (McpSession).          *)
(***************************************************************************)
EXTENDS TenantSwitch, Cache, UnlockThrottle, McpSession

\* Each part moves as it does alone, whatever the others do meanwhile.
ServerSpec == Spec /\ CacheSpec /\ ThrottleSpec /\ McpSpec

(* What the tables of cache and throttle hold is what was put in, within    *)
(* their caps (cache.go 190-215, 244-280, unlock_throttle.go 294-360), and  *)
(* a lock is held by nobody but the one in its section (mcp.go 591-645).    *)
TablesAreKept ==
    /\ TypeOK /\ CacheTypeOK /\ ThrottleTypeOK /\ McpTypeOK
    /\ OrderIsTheEntries /\ FailuresAreKept
=============================================================================
