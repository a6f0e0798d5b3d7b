----------------------------- MODULE MCSession -----------------------------
(***************************************************************************)
(* The server's parts that outlive a request: the portal session a change   *)
(* of tenant must leave nothing of, the response cache that the same reset  *)
(* clears, the query session that belongs to an identity, and the throttle  *)
(* before the vault.  They share no state that is modelled, so a behaviour   *)
(* follows one of them while the others rest.                               *)
(***************************************************************************)
EXTENDS MCTenantSwitch, Session

CONSTANTS b1, b2, b3, b4, u1, u2, c3

\* Three attempts of one client, and one of another that the table of one
\* entry has no room for.
MCClientOf == [a \in Attempts |-> IF a = b4 THEN u2 ELSE u1]

\* Bound: of three callers, one asks for one of the two keys only.
OnlyTheFirstKey(c) == caller'[c].key = Idle.key

VARIABLE scene   \* the part a behaviour follows

allSessionVars == <<scene, vars, cacheVars, mcpVars, throttleVars>>

OneAuth == CHOOSE a \in Auths : TRUE

SessionInit ==
    /\ scene \in {"switch", "cache", "query", "unlock"}
    /\ CacheInit /\ ThrottleInit
    /\ Init /\ (scene # "switch" => file = NoFile)
    /\ McpInit /\ (scene # "query" => auth = OneAuth)

\* Where the bounds of the throttle end a behaviour, and nothing else does.
UnlockIsOver == scene = "unlock" /\ now = MaxNow /\ \A a \in Attempts : try[a] = "answered"

SessionNext ==
    \/ scene = "switch" /\ Next
       /\ UNCHANGED <<scene, cacheVars, mcpVars, throttleVars>>
    \/ scene = "cache" /\ CacheNext /\ OnlyTheFirstKey(c3)
       /\ UNCHANGED <<scene, vars, mcpVars, throttleVars>>
    \/ scene = "query" /\ McpNext
       /\ UNCHANGED <<scene, vars, cacheVars, throttleVars>>
    \/ scene = "unlock" /\ ThrottleNext
       /\ UNCHANGED <<scene, vars, cacheVars, mcpVars>>
    \/ UnlockIsOver /\ UNCHANGED allSessionVars

SessionSpec ==
    /\ SessionInit /\ [][SessionNext]_allSessionVars
    /\ Fairness /\ CacheFairness /\ McpFairness /\ ThrottleFairness

-----------------------------------------------------------------------------
(* Whoever waits is let go.  A switch that was answered ok is the account   *)
(* every request is served in, and a transition that waits for one          *)
(* completes (account.go SwitchAccount, main.go authReset); a waiter of a    *)
(* cache key gets its answer (cache.go 171-215); an attempt to unlock is     *)
(* answered and gives the slot back (unlock_throttle.go 205-243); a query    *)
(* that waits for another's handshake ends (mcp.go 224-226, 586-645).       *)
EveryoneIsAnswered ==
    /\ SwitchesAreAnswered /\ WaitersAreReleased
    /\ AttemptsAreAnswered /\ QueriesEnd
=============================================================================
