---------------------------- MODULE TenantReads ----------------------------
(***************************************************************************)
(* Tenant reads through the cache while the tenant changes: the pin of     *)
(* server/tenant.go, the VaultGate, and a dashboard fetcher of the shape   *)
(* they all share (Cache.Get, Cache.Gen, pinned fetch, Cache.SetGen), over *)
(* TenantSwitch.  One cache key is enough: keys do not name a tenant, so   *)
(* every tenant's rows meet in the same entry.  Single flight, eviction    *)
(* and expiry order are module Cache's.                                    *)
(***************************************************************************)
EXTENDS TenantSwitch

CONSTANTS Readers, NoRows

ASSUME NoRowsAssumption ==
    NoRows \notin [cred : Credentials, prompt : BOOLEAN]

VARIABLES
    rows,   \* the cached entry: whose rows, and (history) whether their request
            \* pinned and fenced in one generation
    reader  \* the read requests in flight

rvars == <<vars, rows, reader>>

ReadSteps == {"idle", "key", "gate", "get", "gen", "fetch", "set"}
Reads == [pc : ReadSteps, cred : Credentials, pinGen : Nat, fence : Nat,
          got : Credentials]
NoRead == [pc |-> "idle", cred |-> NoCred, pinGen |-> 0, fence |-> 0, got |-> NoCred]

RInit ==
    /\ Init
    /\ rows = NoRows
    /\ reader = [r \in Readers |-> NoRead]

-----------------------------------------------------------------------------
Done(r) == reader' = [reader EXCEPT ![r] = NoRead]

\* Auth.Value: the override under a.mu, then the active key under v.mu.
PinReadOverride(r) ==
    /\ reader[r].pc = "idle"
    /\ reader' = [reader EXCEPT ![r].pc = IF override # NoCred THEN "gate" ELSE "key",
                                ![r].cred = override, ![r].pinGen = gen]
    /\ UNCHANGED rows

PinReadKey(r) ==
    /\ reader[r].pc = "key"
    /\ reader' = [reader EXCEPT ![r].pc = "gate",
                                ![r].cred = Plain(IF ActiveKey # NoKey THEN ActiveKey
                                                  ELSE Fallback)]
    /\ UNCHANGED rows

\* VaultGate: with no env key, 503 unless some credential is live now.
ReadPassesGate(r) ==
    /\ reader[r].pc = "gate"
    /\ IF Fallback = NoKey /\ Value = NoCred
         THEN Done(r)
         ELSE reader' = [reader EXCEPT ![r].pc = "get"]
    /\ UNCHANGED rows

\* Cache.Get: a hit answers the request.
Lookup(r) ==
    /\ reader[r].pc = "get"
    /\ IF rows # NoRows THEN Done(r) ELSE reader' = [reader EXCEPT ![r].pc = "gen"]
    /\ UNCHANGED rows

CaptureGen(r) ==
    /\ reader[r].pc = "gen"
    /\ reader' = [reader EXCEPT ![r].pc = "fetch", ![r].fence = gen]
    /\ UNCHANGED rows

\* The upstream calls carry the pin; an empty pin resolves the slot live, in
\* which case the rows are of whoever that is, from the fence's generation on.
\* A fetch that fails is answered without a cache write.
Fetch(r) ==
    /\ reader[r].pc = "fetch"
    /\ \/ Done(r)
       \/ reader' = [reader EXCEPT
                       ![r].pc = "set",
                       ![r].got = IF reader[r].cred = NoCred THEN Value ELSE reader[r].cred,
                       ![r].pinGen = IF reader[r].cred = NoCred THEN reader[r].fence ELSE @]
    /\ UNCHANGED rows

\* Mutant: Set in place of SetGen, no generation compared.
SetUnfenced(r) ==
    /\ reader[r].pc = "set"
    /\ rows' = [cred |-> reader[r].got, prompt |-> reader[r].pinGen = reader[r].fence]
    /\ Done(r)

SetGen(r) ==
    /\ reader[r].pc = "set"
    /\ rows' = IF reader[r].fence = gen
                 THEN [cred |-> reader[r].got,
                       prompt |-> reader[r].pinGen = reader[r].fence]
                 ELSE rows
    /\ Done(r)

ReadStep(r) ==
    /\ \/ PinReadOverride(r) \/ PinReadKey(r) \/ ReadPassesGate(r) \/ Lookup(r)
       \/ CaptureGen(r) \/ Fetch(r) \/ SetGen(r)
    /\ UNCHANGED vars

\* The entry's TTL runs out, or somebody posts /api/cache-bust.
DropRows ==
    /\ rows' = NoRows
    /\ UNCHANGED <<vars, reader>>

\* Rotate empties the cache in the critical section that moves gen.
ServerStep ==
    /\ Next
    /\ rows' = IF gen' # gen THEN NoRows ELSE rows
    /\ UNCHANGED reader

RNext ==
    \/ ServerStep
    \/ \E r \in Readers : ReadStep(r)
    \/ DropRows

RSpec == RInit /\ [][RNext]_rvars

-----------------------------------------------------------------------------
(* No transition or account operation is under way.                        *)
Settled == rot = "idle" /\ op.pc = "idle"

(* PromptRowsAreLive: once things have settled, cached rows whose fetcher  *)
(* pinned and fenced in one generation were read with the very credential  *)
(* the server now uses: every change of credential, at whichever of its    *)
(* steps the fetch fell, is followed by a Rotate before it is settled, and *)
(* no answer from before the Rotate is stored after it (account.go's       *)
(* Rotate before unlocking m.mu, main.go's two Rotates, cache.SetGen).     *)
(* It is about an active connection: without one a wipe that failed has    *)
(* left the env key in use and owes no Rotate (vault/manage.go ResetR).    *)
PromptRowsAreLive ==
    Settled /\ ActiveKey # NoKey /\ rows # NoRows /\ rows.prompt
        => rows.cred = Value

(* CachedRowsAreLive: what dashboard.go and cache.go say, that a switch    *)
(* leaves nothing old-tenant in the cache: settled, every cached row was   *)
(* read with the credential the server now uses.  False of a read that     *)
(* pinned before the switch and captured the fence after it.               *)
CachedRowsAreLive ==
    Settled /\ ActiveKey # NoKey /\ rows # NoRows => rows.cred = Value
=============================================================================
