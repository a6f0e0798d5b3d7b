------------------------------- MODULE MCVault -------------------------------
(***************************************************************************)
(* What stands on the vault: a tenant-changing request and its write lock,  *)
(* a tenant read and its cached rows, each beside the tenant switches of     *)
(* TenantSwitch, and the vault's own file.  A behaviour follows one of them  *)
(* while the others rest.  One read at a time is enough: a second adds only  *)
(* a warm entry, which DropRows and the first read already produce.         *)
(***************************************************************************)
EXTENDS WriteLock, TenantReads, VaultFile

CONSTANTS t1, t2, k1, k2, a1, a2

MCMemberOf == [k \in Keys |-> IF k = k1 THEN {a1, a2} ELSE {a2}]
MCHomeOf == [k \in Keys |-> IF k = k1 THEN a1 ELSE a2]
\* The permissions that tell the interesting targets apart.
MCGrantInputs == {[tenant |-> t1, acct |-> NoSwitch], [tenant |-> t1, acct |-> a2]}

\* What each connection holds when the server starts.
KeysAtStart ==
    file # NoFile => \A t \in DOMAIN file.tenants : file.tenants[t] = IF t = t1 THEN k1 ELSE k2

\* Bound: one permission at a time.
OneGrant == \A v, w \in writable' \cup kept' : v = w

VARIABLE scene   \* the part a behaviour follows

ReadsRest == rows = NoRows /\ reader = [r \in Readers |-> NoRead]
WritesRest ==
    /\ kept = {} /\ writable = {} /\ grantKey = [w \in WriteIDs |-> NoKey]
    /\ req = [r \in Requests |-> NoReq]
FileRest == VaultFileInit /\ vault = Absent

MCInit ==
    \/ scene = "write" /\ WInit /\ KeysAtStart /\ ReadsRest /\ FileRest
    \/ scene = "read" /\ RInit /\ KeysAtStart /\ WritesRest /\ FileRest
    \/ scene = "file" /\ Init /\ file = NoFile /\ ReadsRest /\ WritesRest /\ VaultFileInit

MCNext ==
    \/ scene = "write" /\ WNext /\ OneGrant
       /\ UNCHANGED <<scene, rows, reader, vaultFileVars>>
    \/ scene = "read" /\ RNext /\ UNCHANGED <<scene, lockVars, req, vaultFileVars>>
    \/ scene = "file" /\ VaultFileNext /\ UNCHANGED <<scene, wvars, rows, reader>>

MCSpec == MCInit /\ [][MCNext]_<<scene, wvars, rows, reader, vaultFileVars>>
=============================================================================
