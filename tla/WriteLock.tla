----------------------------- MODULE WriteLock -----------------------------
(***************************************************************************)
(* The per-tenant write lock over a server whose tenant can change at any  *)
(* moment: the vault's write permissions (vault/writelock.go) and the path *)
(* of one tenant-changing request through the middleware                   *)
(* (server/tenant.go, server/writelock.go), composed with TenantSwitch.    *)
(*                                                                         *)
(* A request pins a credential first and resolves the identity the lock    *)
(* judges afterwards, in up to three separately locked reads; a teardown   *)
(* then resolves that identity once more for its export.                   *)
(***************************************************************************)
EXTENDS TenantSwitch

CONSTANTS
    Requests,
    GrantInputs     \* identities an operator marks writable or read-only

VARIABLES
    writable,   \* vault.Vault.writeAllowed
    kept,       \* write_allowed as vault.json holds it
    grantKey,   \* history: the key behind each identity when it was granted
    req         \* the requests in flight

wvars == <<vars, writable, kept, grantKey, req>>
lockVars == <<writable, kept, grantKey>>

(* vault.WriteID: a connection, or EnvTenant when none is active, and the  *)
(* account switched into, or NoSwitch.                                     *)
EnvTenant == NoTenant
WriteIDs == [tenant : Tenants \cup {EnvTenant}, acct : Accounts \cup {NoSwitch}]
KeyOf(t) == IF t \in DOMAIN tenants THEN tenants[t] ELSE Fallback

ASSUME GrantInputsAssumption == GrantInputs \subseteq WriteIDs

Phases == {"lock", "export"}
ReqSteps == {"idle", "key", "tenant", "switch", "account", "named", "gate", "write"}
Req == [pc : ReqSteps, phase : Phases, cred : Credentials, id : WriteIDs,
        passed : WriteIDs, calm : BOOLEAN]

NoID == [tenant |-> EnvTenant, acct |-> NoSwitch]
NoReq == [pc |-> "idle", phase |-> "lock", cred |-> NoCred, id |-> NoID,
          passed |-> NoID, calm |-> TRUE]

(* WriteLockTypeOK: the types; and a locked vault grants nothing.          *)
WriteLockTypeOK ==
    /\ TypeOK
    /\ ~unlocked => writable = {}
    /\ writable \subseteq WriteIDs
    /\ kept \subseteq WriteIDs
    /\ grantKey \in [WriteIDs -> Keys \cup {NoKey}]
    /\ req \in [Requests -> Req]

WInit ==
    /\ Init
    /\ \/ kept = {}
       \/ /\ file # NoFile
          /\ kept \in SUBSET {w \in GrantInputs : w.tenant \in DOMAIN file.tenants}
    /\ writable = IF unlocked THEN kept ELSE {}
    /\ grantKey = [w \in WriteIDs |->
                     IF w \in kept THEN file.tenants[w.tenant] ELSE NoKey]
    /\ req = [r \in Requests |-> NoReq]

-----------------------------------------------------------------------------
(* What each vault operation does to the permissions.  Every one that      *)
(* saves writes write_allowed with everything else.                        *)
Forget(t) == {w \in writable : w.tenant # t}

SavePermissions(ws) == writable' = ws /\ kept' = ws

\* Connection ids are random: a new one is named by no earlier permission.
NewTenant(t, k) ==
    /\ AddTenant(t, k)
    /\ \A w \in writable : w.tenant # t
    /\ SavePermissions(writable)

DropTenant(t) == RemoveTenant(t) /\ SavePermissions(Forget(t))

\* Mutant: a new key inherits what the old one was allowed.
ReplaceKeyKeepsGrants(t, k) == UpdateTenant(t, k) /\ SavePermissions(writable)

ReplaceKey(t, k) == UpdateTenant(t, k) /\ SavePermissions(Forget(t))

Activate(t) == SetActive(t) /\ SavePermissions(writable)

OpenVault == UnlockVault /\ writable' = kept /\ UNCHANGED kept

CreateVault == InitVault /\ SavePermissions(writable)

CloseVault == (LockVault \/ ResetVaultFails) /\ writable' = {} /\ UNCHANGED kept

WipeVault == ResetVault /\ SavePermissions({})

VaultStep ==
    /\ \/ OpenVault \/ CreateVault \/ CloseVault \/ WipeVault
       \/ \E t \in Tenants, k \in Keys : NewTenant(t, k) \/ ReplaceKey(t, k)
       \/ \E t \in Tenants : DropTenant(t) \/ Activate(t)
    /\ grantKey' = [w \in WriteIDs |->
                      IF w \in writable' \cup kept' THEN grantKey[w] ELSE NoKey]

\* vault.SetWritable; a save that fails restores and changes nothing.
SetWritable(w, on) ==
    /\ unlocked
    /\ (w \in writable) # on
    /\ SavePermissions(IF on THEN writable \cup {w} ELSE writable \ {w})
    /\ grantKey' = [grantKey EXCEPT ![w] = IF on THEN KeyOf(w.tenant) ELSE NoKey]
    /\ UNCHANGED vars

-----------------------------------------------------------------------------
(* A tenant-changing request.                                              *)
Answer(r) == req' = [req EXCEPT ![r] = NoReq]
Go(r, pc) == req' = [req EXCEPT ![r].pc = pc]

\* withPinnedTenant -> Auth.Value: the override is read under a.mu, which is
\* released before the active key is asked for under v.mu.
PinOverride(r) ==
    /\ req[r].pc = "idle"
    /\ req' = [req EXCEPT ![r].pc = IF override # NoCred THEN "tenant" ELSE "key",
                          ![r].cred = override]

PinKey(r) ==
    /\ req[r].pc = "key"
    /\ req' = [req EXCEPT ![r].pc = "tenant",
                          ![r].cred = Plain(IF ActiveKey # NoKey THEN ActiveKey
                                            ELSE Fallback)]

\* writeIdentity: ActiveTenantID, OverrideActive, Account.Active.
ReadTenant(r) ==
    /\ req[r].pc = "tenant"
    /\ req' = [req EXCEPT ![r].pc = "switch", ![r].id.tenant = active]

ReadSwitch(r) ==
    /\ req[r].pc = "switch"
    /\ req' = [req EXCEPT ![r].pc = IF override # NoCred THEN "account" ELSE "named",
                          ![r].id.acct = NoSwitch]

\* Account.Active waits for m.mu.  No account under a live override is an
\* unknown target: the lock refuses it, and an export is stamped unknown.
ReadAccount(r) ==
    /\ req[r].pc = "account"
    /\ op.pc = "idle"
    /\ IF mgr.active = NoAccount /\ req[r].phase = "lock"
         THEN Answer(r)
         ELSE req' = [req EXCEPT ![r].pc = "named", ![r].id.acct = mgr.active]

\* Mutant: a grant for a connection covers every account reached through it.
CheckConnectionOnly(r) ==
    /\ req[r].pc = "named"
    /\ req[r].phase = "lock"
    /\ LET grant == [req[r].id EXCEPT !.acct = NoSwitch]
       IN IF grant \in writable
            THEN req' = [req EXCEPT ![r].pc = "gate", ![r].passed = grant]
            ELSE Answer(r)

\* withWriteLock: pass only when exactly this identity is writable; the grant
\* that let the request through is remembered (history).
CheckWritable(r) ==
    /\ req[r].pc = "named"
    /\ req[r].phase = "lock"
    /\ IF req[r].id \in writable
         THEN req' = [req EXCEPT ![r].pc = "gate", ![r].passed = req[r].id]
         ELSE Answer(r)

\* VaultGate: with no env key, 503 unless some credential is live now.  A
\* teardown goes on to prov(r), whose exportWriter resolves the identity anew.
PassGate(r) ==
    /\ req[r].pc = "gate"
    /\ IF Fallback = NoKey /\ Value = NoCred
         THEN Answer(r)
         ELSE \/ Go(r, "write")
              \/ req' = [req EXCEPT ![r].pc = "tenant", ![r].phase = "export"]

StampExport(r) ==
    /\ req[r].pc = "named"
    /\ req[r].phase = "export"
    /\ Go(r, "write")

\* The handler's outbound writes are all signed with the pinned value, unless
\* the pin is empty: an empty pin resolves the slot live at every call.
Sends(r) == IF req[r].cred = NoCred THEN Value ELSE req[r].cred

Write(r) ==
    /\ req[r].pc = "write"
    /\ Answer(r)

RequestStep(r) ==
    /\ \/ PinOverride(r) \/ PinKey(r) \/ ReadTenant(r) \/ ReadSwitch(r)
       \/ ReadAccount(r) \/ CheckWritable(r) \/ PassGate(r) \/ StampExport(r)
       \/ Write(r)
    /\ UNCHANGED <<vars, lockVars>>

-----------------------------------------------------------------------------
(* calm[r]: nothing a request's target depends on has changed since it     *)
(* read the override; maintained on every step of the rest of the server.  *)
Overlap ==
    req' = [r \in Requests |->
              IF req[r].pc # "idle" /\ <<Value, active, tenants>>' # <<Value, active, tenants>>
                THEN [req[r] EXCEPT !.calm = FALSE]
                ELSE req[r]]

WNext ==
    \/ VaultStep /\ Overlap
    \/ AuthReset /\ UNCHANGED lockVars /\ Overlap
    \/ (\E a \in Accounts \cup {NoAccount} : BeginAccountOp(a)) /\ UNCHANGED lockVars /\ Overlap
    \/ AccountStep /\ UNCHANGED lockVars /\ Overlap
    \/ (\E w \in GrantInputs, on \in BOOLEAN : SetWritable(w, on)) /\ Overlap
    \/ \E r \in Requests : RequestStep(r)

WSpec == WInit /\ [][WNext]_wvars

-----------------------------------------------------------------------------
(* The identity id names the place a credential c acts in.                 *)
Lands(c, id) ==
    IF id.acct = NoSwitch THEN c = Plain(KeyOf(id.tenant)) ELSE c.acct = id.acct

(* CalmWriteLandsWhereAllowed: when no switch overlapped the request, the  *)
(* credential it writes with acts in the very identity the lock passed.    *)
CalmWriteLandsWhereAllowed ==
    \A r \in Requests :
        req[r].pc = "write" /\ req[r].calm => Lands(Sends(r), req[r].passed)

(* CalmExportNamesTarget: likewise for the identity stamped on an export.  *)
CalmExportNamesTarget ==
    \A r \in Requests :
        req[r].pc = "write" /\ req[r].phase = "export" /\ req[r].calm
            => req[r].id = req[r].passed

(* CalmRequestsHitTheirTarget: undisturbed, a tenant-changing request      *)
(* writes where it was allowed to and its export names that tenant         *)
(* (server/writelock.go, server/tenant.go).                                *)
CalmRequestsHitTheirTarget ==
    WriteLockTypeOK /\ CalmWriteLandsWhereAllowed /\ CalmExportNamesTarget

(* GrantMatchesKey: a write permission never applies to a key other than   *)
(* the one behind the connection when it was granted, in memory or, for    *)
(* the next unlock, on disk (vault/writelock.go, forgetTenantWrites).      *)
GrantMatchesKey ==
    /\ \A w \in writable :
         w.tenant \in DOMAIN tenants => grantKey[w] = tenants[w.tenant]
    /\ file # NoFile => \A w \in kept :
         w.tenant \in DOMAIN file.tenants => grantKey[w] = file.tenants[w.tenant]

(* PassedLockMatchesPin: what the comment on writeIdentity says, that "a   *)
(* request that passes the lock is pinned to the tenant it passed for".    *)
PassedLockMatchesPin ==
    [][\A r \in Requests :
         req[r].pc = "named" /\ req'[r].pc = "gate" => Lands(Sends(r), req[r].id)]_wvars
=============================================================================
