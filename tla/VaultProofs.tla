----------------------------- MODULE VaultProofs -----------------------------
(***************************************************************************)
(* What the vault promises beside the portal session, for any connections, *)
(* keys, accounts, requests, passphrases and numbers of changes: a write   *)
(* permission stays with its key and an undisturbed write lands where it   *)
(* was allowed (WriteLock), settled rows are the live tenant's             *)
(* (TenantReads), and the file on disk is what the open vault would write  *)
(* (VaultFile).                                                            *)
(***************************************************************************)
EXTENDS WriteLock, TenantReads, VaultFile, TenantSwitchProofs

-----------------------------------------------------------------------------
(* Requests beside a change of tenant.  A permission stays with its key    *)
(* because the vault and its file hold one answer while the vault is open. *)
(* The rest follows what a request has pinned: as long as nothing moved    *)
(* since, it is Value; and for a read, until a Rotate that is still owed.  *)

LEMMA StepIInv ==
    ASSUME IInv, Next
    PROVE  IInv'
  BY VaultOpIInv, AuthResetIInv, AccountOpIInv DEF Next

LEMMA StutterIInv ==
    ASSUME IInv, UNCHANGED vars
    PROVE  IInv'
  BY DEF vars, IInv, TypeOK, ActiveIsStored, PendingIsLive, ManagerFollows,
     OverrideIsLive, HomeIsOfIdentity, Identity, ActiveKey

(* What requests are signed with, told by the account it acts in.          *)
LEMMA ValueOf ==
    ASSUME IInv
    PROVE  /\ Value \in Credentials /\ NoCred \in Credentials
           /\ Plain(NoKey) = NoCred /\ NoCred.acct = NoSwitch
           /\ override # NoCred <=> Value.acct # NoSwitch
           /\ override # NoCred => Value = override
           /\ override = NoCred => Value = Plain(KeyOf(active))
           /\ override = NoCred => Value = Plain(IF ActiveKey # NoKey THEN ActiveKey ELSE Fallback)
           /\ \A t : KeyOf(t) \in Keys \cup {NoKey}
  <1> USE DEF IInv, TypeOK, NoSwitch
  <1>1. \A t \in DOMAIN tenants : tenants[t] \in Keys /\ tenants[t] # NoKey
    BY StoreDomain, TenantSwitchAssumption
  <1>2. \A k \in Keys \cup {NoKey} : Plain(k) \in Credentials /\ Plain(k).acct = NoSwitch
    BY DEF Plain, Credentials
  <1>3. NoCred \in Credentials /\ Plain(NoKey) = NoCred /\ NoCred.acct = NoSwitch
    BY DEF NoCred, Plain, Credentials
  <1>4. \A t : KeyOf(t) \in Keys \cup {NoKey}
    BY <1>1, TenantSwitchAssumption DEF KeyOf
  <1>5. KeyOf(active) = IF ActiveKey # NoKey THEN ActiveKey ELSE Fallback
    BY <1>1 DEF KeyOf, ActiveKey
  <1>6. override = NoCred => Value = Plain(KeyOf(active))
    BY <1>5 DEF Value
  <1>7. override # NoCred => Value = override /\ Value.acct # NoSwitch
    BY DEF Value, ManagerFollows
  <1> QED
    BY <1>2, <1>3, <1>4, <1>5, <1>6, <1>7

-----------------------------------------------------------------------------
(* While the vault is open it holds what its file does.                    *)
VaultIsSaved == unlocked => tenants = file.tenants /\ writable = kept

(* What an undisturbed request has read is what it would read now.         *)
Pinned(q, v, a) ==
    /\ q.pc = "key" => q.cred = NoCred /\ v.acct = NoSwitch
    /\ q.pc # "key" => q.cred = v
    /\ q.pc \in {"switch", "account", "named", "gate", "write"} => q.id.tenant = a
    /\ q.pc = "account" => v.acct # NoSwitch
    /\ q.pc \in {"named", "gate", "write"} => q.id.acct = v.acct
    /\ q.pc \in {"gate", "write"} \/ q.phase = "export"
           => q.passed = [tenant |-> a, acct |-> v.acct]

CalmIsPinned ==
    \A r \in Requests :
        /\ req[r].pc = "idle" => req[r] = NoReq
        /\ req[r].pc # "idle" /\ req[r].calm => Pinned(req[r], Value, active)

WInv ==
    /\ IInv
    /\ WriteLockTypeOK
    /\ VaultIsSaved
    /\ GrantMatchesKey
    /\ CalmIsPinned

LEMMA IDsOf ==
    ASSUME NEW q \in Req
    PROVE  q.id = [tenant |-> q.id.tenant, acct |-> q.id.acct]
  BY DEF Req, WriteIDs

LEMMA CalmIsOnTarget == WInv => CalmRequestsHitTheirTarget
  <1> SUFFICES ASSUME WInv, NEW r \in Requests, req[r].pc = "write", req[r].calm
               PROVE  Lands(Sends(r), req[r].passed) /\ req[r].id = req[r].passed
    BY DEF CalmRequestsHitTheirTarget, CalmWriteLandsWhereAllowed, CalmExportNamesTarget, WInv
  <1>1. Pinned(req[r], Value, active) /\ req[r] \in Req
    BY DEF WInv, CalmIsPinned, WriteLockTypeOK
  <1>2. /\ req[r].cred = Value /\ req[r].id.tenant = active /\ req[r].id.acct = Value.acct
        /\ req[r].passed = [tenant |-> active, acct |-> Value.acct]
    BY <1>1 DEF Pinned
  <1>3. Sends(r) = Value
    BY <1>2 DEF Sends
  <1>4. Lands(Value, req[r].passed)
    BY <1>2, ValueOf DEF Lands, WInv
  <1> QED
    BY <1>1, <1>2, <1>3, <1>4, IDsOf

LEMMA InitWInv == WInit => WInv
  <1> SUFFICES ASSUME WInit PROVE WInv
    OBVIOUS
  <1> USE DEF WInit
  <1>1. IInv
    BY InitIInv
  <1>2. Init /\ TypeOK /\ (unlocked => file # NoFile)
    BY <1>1 DEF IInv, Init
  <1>3. kept \subseteq WriteIDs /\ (file = NoFile => kept = {})
        /\ \A w \in kept : w.tenant \in DOMAIN file.tenants
    BY GrantInputsAssumption
  <1>4. grantKey \in [WriteIDs -> Keys \cup {NoKey}]
        /\ \A w \in kept : grantKey[w] = file.tenants[w.tenant]
    <2>1. ASSUME NEW w \in WriteIDs
          PROVE  (IF w \in kept THEN file.tenants[w.tenant] ELSE NoKey) \in Keys \cup {NoKey}
      <3>1. CASE w \in kept
        <4>1. file \in Contents /\ w.tenant \in DOMAIN file.tenants
          BY <1>2, <1>3, <3>1 DEF TypeOK
        <4>2. file.tenants \in Stores
          BY <4>1 DEF Contents
        <4> QED
          BY <3>1, <4>1, <4>2, StoreDomain
      <3> QED
        BY <3>1
    <2> QED
      BY <1>3, <2>1
  <1>5. NoReq \in Req
    BY DEF NoReq, Req, ReqSteps, Phases, NoCred, Credentials, NoSwitch, NoID, WriteIDs, EnvTenant
  <1>6. WriteLockTypeOK
    BY <1>2, <1>3, <1>4, <1>5 DEF WriteLockTypeOK
  <1>7. VaultIsSaved
    BY <1>2 DEF VaultIsSaved, Init
  <1>8. GrantMatchesKey
    BY <1>2, <1>3, <1>4, <1>7 DEF GrantMatchesKey, VaultIsSaved
  <1>9. CalmIsPinned
    BY DEF CalmIsPinned, NoReq
  <1> QED
    BY <1>1, <1>6, <1>7, <1>8, <1>9 DEF WInv

-----------------------------------------------------------------------------
(* The permissions.  Where a store is saved, they follow its keys.         *)
GrantKeysKept == grantKey' = [w \in WriteIDs |-> IF w \in writable' \cup kept' THEN grantKey[w] ELSE NoKey]

LEMMA GrantsFollow ==
    ASSUME WInv, GrantKeysKept, kept' = writable', writable' \subseteq writable,
           file'.tenants = tenants',
           \A w \in writable' : w.tenant \in DOMAIN tenants' =>
               w.tenant \in DOMAIN tenants /\ tenants'[w.tenant] = tenants[w.tenant]
    PROVE  VaultIsSaved' /\ GrantMatchesKey'
  <1>1. \A w \in writable' : w \in WriteIDs /\ w \in writable
    BY DEF WInv, WriteLockTypeOK
  <1>2. \A w \in writable' : grantKey'[w] = grantKey[w]
    BY <1>1 DEF GrantKeysKept
  <1>3. \A w \in writable' : w.tenant \in DOMAIN tenants' => grantKey'[w] = tenants'[w.tenant]
    BY <1>1, <1>2 DEF WInv, GrantMatchesKey
  <1> QED
    BY <1>3 DEF VaultIsSaved, GrantMatchesKey

LEMMA VaultStepGrants ==
    ASSUME WInv, VaultStep
    PROVE  VaultIsSaved' /\ GrantMatchesKey' /\ VaultOp
           /\ (~unlocked' => writable' = {})
           /\ writable' \subseteq WriteIDs /\ kept' \subseteq WriteIDs
  <1> USE DEF SavePermissions
  <1>0. GrantKeysKept
    BY DEF VaultStep, GrantKeysKept
  <1>t. writable \subseteq WriteIDs /\ kept \subseteq WriteIDs /\ (~unlocked => writable = {})
    BY DEF WInv, WriteLockTypeOK
  <1> DEFINE Goal == /\ VaultIsSaved' /\ GrantMatchesKey' /\ VaultOp
                     /\ (~unlocked' => writable' = {})
                     /\ writable' \subseteq WriteIDs /\ kept' \subseteq WriteIDs
  <1>1. ASSUME NEW t \in Tenants, NEW k \in Keys, NewTenant(t, k) PROVE Goal
    <2>1. AddTenant(t, k) /\ writable' = writable /\ kept' = writable
          /\ \A w \in writable : w.tenant # t
      BY <1>1 DEF NewTenant
    <2>2. /\ unlocked' = unlocked /\ unlocked
          /\ tenants' = [u \in DOMAIN tenants \cup {t} |-> IF u = t THEN k ELSE tenants[u]]
          /\ file'.tenants = tenants'
      BY <2>1 DEF AddTenant, Store
    <2>3. VaultIsSaved' /\ GrantMatchesKey'
      BY <1>0, <2>1, <2>2, GrantsFollow
    <2> QED
      BY <1>t, <2>1, <2>2, <2>3 DEF VaultOp
  <1>2. ASSUME NEW t \in Tenants, NEW k \in Keys, ReplaceKey(t, k) PROVE Goal
    <2>1. UpdateTenant(t, k) /\ writable' = Forget(t) /\ kept' = Forget(t)
      BY <1>2 DEF ReplaceKey
    <2>2. /\ unlocked' = unlocked /\ unlocked
          /\ tenants' = [tenants EXCEPT ![t] = k] /\ file'.tenants = tenants'
      BY <2>1 DEF UpdateTenant, Store
    <2>3. \A w \in writable' : w.tenant \in DOMAIN tenants' =>
               w.tenant \in DOMAIN tenants /\ tenants'[w.tenant] = tenants[w.tenant]
      BY <2>1, <2>2 DEF Forget
    <2>4. VaultIsSaved' /\ GrantMatchesKey'
      BY <1>0, <2>1, <2>2, <2>3, GrantsFollow DEF Forget
    <2> QED
      BY <1>t, <2>1, <2>2, <2>4 DEF VaultOp, Forget
  <1>3. ASSUME NEW t \in Tenants, DropTenant(t) PROVE Goal
    <2>1. RemoveTenant(t) /\ writable' = Forget(t) /\ kept' = Forget(t)
      BY <1>3 DEF DropTenant
    <2>2. /\ unlocked' = unlocked /\ unlocked
          /\ tenants' = Without(t) /\ file'.tenants = tenants'
      BY <2>1 DEF RemoveTenant, Store
    <2>3. \A w \in writable' : w.tenant \in DOMAIN tenants' =>
               w.tenant \in DOMAIN tenants /\ tenants'[w.tenant] = tenants[w.tenant]
      BY <2>1, <2>2 DEF Without
    <2>4. VaultIsSaved' /\ GrantMatchesKey'
      BY <1>0, <2>1, <2>2, <2>3, GrantsFollow DEF Forget
    <2> QED
      BY <1>t, <2>1, <2>2, <2>4 DEF VaultOp, Forget
  <1>4. ASSUME NEW t \in Tenants, Activate(t) PROVE Goal
    <2>1. SetActive(t) /\ writable' = writable /\ kept' = writable
      BY <1>4 DEF Activate
    <2>2. unlocked' = unlocked /\ unlocked /\ tenants' = tenants /\ file'.tenants = tenants'
      BY <2>1 DEF SetActive, Store
    <2>3. VaultIsSaved' /\ GrantMatchesKey'
      BY <1>0, <2>1, <2>2, GrantsFollow
    <2> QED
      BY <1>t, <2>1, <2>2, <2>3 DEF VaultOp
  <1>5. ASSUME OpenVault PROVE Goal
    <2>1. /\ UnlockVault /\ writable' = kept /\ kept' = kept /\ unlocked'
          /\ file # NoFile /\ tenants' = file.tenants /\ file' = file
      BY <1>5 DEF OpenVault, UnlockVault
    <2>2. \A w \in kept : grantKey'[w] = grantKey[w]
      BY <1>0, <1>t, <2>1 DEF GrantKeysKept
    <2>3. GrantMatchesKey'
      BY <2>1, <2>2 DEF GrantMatchesKey, WInv
    <2> QED
      BY <1>t, <2>1, <2>3 DEF VaultOp, VaultIsSaved
  <1>6. ASSUME CreateVault PROVE Goal
    <2>1. /\ InitVault /\ writable' = writable /\ kept' = writable /\ unlocked'
          /\ tenants' = EmptyStore /\ file'.tenants = tenants' /\ DOMAIN tenants' = {}
      BY <1>6 DEF CreateVault, InitVault, Store, EmptyStore
    <2>2. VaultIsSaved' /\ GrantMatchesKey'
      BY <1>0, <2>1, GrantsFollow
    <2> QED
      BY <1>t, <2>1, <2>2 DEF VaultOp
  <1>7. ASSUME CloseVault PROVE Goal
    <2>1. /\ VaultOp /\ writable' = {} /\ kept' = kept /\ ~unlocked' /\ file' = file
      BY <1>7 DEF CloseVault, LockVault, ResetVaultFails, ForgetSecrets, VaultOp
    <2>2. \A w \in kept : grantKey'[w] = grantKey[w]
      BY <1>0, <1>t, <2>1 DEF GrantKeysKept
    <2>3. GrantMatchesKey'
      BY <2>1, <2>2 DEF GrantMatchesKey, WInv
    <2> QED
      BY <1>t, <2>1, <2>3 DEF VaultIsSaved
  <1>8. ASSUME WipeVault PROVE Goal
    <2>1. VaultOp /\ writable' = {} /\ kept' = {} /\ ~unlocked' /\ file' = NoFile
      BY <1>8 DEF WipeVault, ResetVault, ForgetSecrets, VaultOp
    <2> QED
      BY <2>1 DEF VaultIsSaved, GrantMatchesKey
  <1> HIDE DEF Goal
  <1>9. Goal
    BY <1>1, <1>2, <1>3, <1>4, <1>5, <1>6, <1>7, <1>8 DEF VaultStep
  <1> QED
    BY <1>9 DEF Goal

-----------------------------------------------------------------------------
(* The requests, while the rest of the server moves, and when one of them  *)
(* moves itself.                                                           *)
LEMMA OverlapTells ==
    ASSUME WInv, Overlap
    PROVE  CalmIsPinned' /\ req' \in [Requests -> Req]
  <1>1. req \in [Requests -> Req]
    BY DEF WInv, WriteLockTypeOK
  <1> DEFINE moved == <<Value, active, tenants>>' # <<Value, active, tenants>>
  <1>2. \A r \in Requests : req'[r] = IF req[r].pc # "idle" /\ moved
                                        THEN [req[r] EXCEPT !.calm = FALSE] ELSE req[r]
    BY DEF Overlap
  <1>3. \A q \in Req : LET s == [q EXCEPT !.calm = FALSE] IN
            s \in Req /\ s.pc = q.pc /\ s.calm = FALSE
    BY DEF Req
  <1>4. req' \in [Requests -> Req]
    BY <1>1, <1>3 DEF Overlap
  <1>5. ASSUME NEW r \in Requests
        PROVE  /\ req'[r].pc = "idle" => req'[r] = NoReq
               /\ req'[r].pc # "idle" /\ req'[r].calm => Pinned(req'[r], Value', active')
    <2>1. CASE req[r].pc # "idle" /\ moved
      BY <1>1, <1>2, <1>3, <2>1
    <2>2. CASE req[r].pc = "idle"
      BY <1>2, <2>2 DEF WInv, CalmIsPinned
    <2>3. CASE ~moved
      <3>1. Value' = Value /\ active' = active /\ req'[r] = req[r]
        BY <1>2, <2>3
      <3> QED
        BY <3>1 DEF WInv, CalmIsPinned
    <2> QED
      BY <2>1, <2>2, <2>3
  <1> QED
    BY <1>4, <1>5 DEF CalmIsPinned

LEMMA RequestMoves ==
    ASSUME WInv, UNCHANGED <<vars, lockVars>>, NEW r \in Requests, NEW q \in Req,
           req' = [req EXCEPT ![r] = q],
           q.pc = "idle" => q = NoReq,
           q.pc # "idle" /\ q.calm => Pinned(q, Value, active)
    PROVE  WInv'
  <1>1. UNCHANGED <<unlocked, tenants, active, file, rot, override, epoch, mgr, op, gen>>
        /\ UNCHANGED <<writable, kept, grantKey>>
    BY DEF vars, lockVars
  <1>2. Value' = Value /\ active' = active
    BY <1>1 DEF Value, ActiveKey
  <1>3. req \in [Requests -> Req] /\ req' \in [Requests -> Req]
        /\ \A s \in Requests : req'[s] = IF s = r THEN q ELSE req[s]
    BY DEF WInv, WriteLockTypeOK
  <1>4. CalmIsPinned'
    BY <1>2, <1>3 DEF WInv, CalmIsPinned
  <1>5. IInv'
    BY StutterIInv DEF WInv
  <1>6. WriteLockTypeOK'
    BY <1>1, <1>3, <1>5 DEF WInv, WriteLockTypeOK, IInv
  <1>7. VaultIsSaved' /\ GrantMatchesKey'
    BY <1>1 DEF WInv, VaultIsSaved, GrantMatchesKey
  <1> QED
    BY <1>4, <1>5, <1>6, <1>7 DEF WInv

LEMMA RequestStepWInv ==
    ASSUME WInv, NEW r \in Requests, RequestStep(r)
    PROVE  WInv'
  <1> DEFINE q == req[r]
  <1>1. UNCHANGED <<vars, lockVars>>
    BY DEF RequestStep
  <1>2. /\ req \in [Requests -> Req] /\ q \in Req
        /\ q.pc # "idle" /\ q.calm => Pinned(q, Value, active)
        /\ q.pc = "idle" => q = NoReq
    BY DEF WInv, WriteLockTypeOK, CalmIsPinned
  <1>3. NoReq \in Req /\ NoReq.pc = "idle"
    BY DEF NoReq, Req, ReqSteps, Phases, NoCred, Credentials, NoSwitch, NoID, WriteIDs, EnvTenant
  <1>4. /\ Value \in Credentials /\ NoCred \in Credentials /\ NoCred.acct = NoSwitch
        /\ override # NoCred <=> Value.acct # NoSwitch
        /\ override # NoCred => Value = override
        /\ override = NoCred => Value = Plain(IF ActiveKey # NoKey THEN ActiveKey ELSE Fallback)
    BY ValueOf DEF WInv
  <1>5. /\ override \in Credentials /\ active \in Tenants \cup {EnvTenant}
        /\ mgr.active \in Accounts \cup {NoSwitch}
        /\ override # NoCred /\ op.pc = "idle" => mgr.active = Value.acct
    BY <1>4 DEF WInv, IInv, TypeOK, EnvTenant, NoSwitch, Managers, ManagerFollows
  <1>a. ASSUME Answer(r) PROVE WInv'
    BY <1>1, <1>3, <1>a, RequestMoves DEF Answer
  <1> HIDE DEF q
  <1>b. ASSUME NEW s \in Req, req' = [req EXCEPT ![r] = s], s.pc # "idle",
               s.calm => Pinned(s, Value, active)
        PROVE  WInv'
    BY <1>1, <1>b, RequestMoves
  <1>q. q \in Req
    BY <1>2
  <1>6. CASE PinOverride(r)
    <2> DEFINE p == IF override # NoCred THEN "tenant" ELSE "key"
               s == [q EXCEPT !.pc = p, !.cred = override]
    <2>1. q.pc = "idle" /\ req' = [req EXCEPT ![r] = s]
      BY <1>6, <1>2 DEF PinOverride, q
    <2>2. q = NoReq /\ q.phase = "lock" /\ p \in ReqSteps /\ p \in {"key", "tenant"}
      BY <1>2, <2>1 DEF NoReq, ReqSteps
    <2>3. s \in Req /\ s.pc = p /\ s.cred = override /\ s.phase = "lock"
      BY <1>q, <1>5, <2>2 DEF Req, ReqSteps
    <2>4. Pinned(s, Value, active)
      BY <1>4, <2>2, <2>3 DEF Pinned
    <2> QED
      BY <1>b, <2>1, <2>2, <2>3, <2>4
  <1>7. CASE PinKey(r)
    <2> DEFINE c == Plain(IF ActiveKey # NoKey THEN ActiveKey ELSE Fallback)
               s == [q EXCEPT !.pc = "tenant", !.cred = c]
    <2>1. q.pc = "key" /\ req' = [req EXCEPT ![r] = s]
      BY <1>7, <1>2 DEF PinKey, q
    <2>2. c \in Credentials
      <3>1. ActiveKey \in Keys \cup {NoKey}
        BY StoreDomain DEF WInv, IInv, TypeOK, ActiveKey
      <3> QED
        BY <3>1, TenantSwitchAssumption DEF Plain, Credentials, NoSwitch
    <2> HIDE DEF c
    <2>3. /\ s \in Req /\ s.pc = "tenant" /\ s.cred = c
          /\ s.phase = q.phase /\ s.passed = q.passed /\ s.calm = q.calm
      BY <1>q, <2>2 DEF Req, ReqSteps
    <2>4. s.calm => Pinned(s, Value, active)
      <3>1. q.calm => Value.acct = NoSwitch /\ override = NoCred
        BY <1>2, <1>4, <2>1 DEF Pinned
      <3>2. q.calm => Value = c
        BY <1>4, <3>1 DEF c
      <3> QED
        BY <1>2, <2>1, <2>3, <3>2 DEF Pinned
    <2> QED
      BY <1>b, <2>1, <2>3, <2>4
  <1>8. CASE ReadTenant(r)
    <2> DEFINE s == [q EXCEPT !.pc = "switch", !.id.tenant = active]
    <2>1. q.pc = "tenant" /\ req' = [req EXCEPT ![r] = s]
      BY <1>8, <1>2 DEF ReadTenant, q
    <2>2. /\ s \in Req /\ s.pc = "switch" /\ s.cred = q.cred /\ s.id.tenant = active
          /\ s.phase = q.phase /\ s.passed = q.passed /\ s.calm = q.calm
      BY <1>q, <1>5 DEF Req, WriteIDs, ReqSteps
    <2> QED
      BY <1>2, <1>b, <2>1, <2>2 DEF Pinned
  <1>9. CASE ReadSwitch(r)
    <2> DEFINE p == IF override # NoCred THEN "account" ELSE "named"
               s == [q EXCEPT !.pc = p, !.id.acct = NoSwitch]
    <2>1. q.pc = "switch" /\ req' = [req EXCEPT ![r] = s]
      BY <1>9, <1>2 DEF ReadSwitch, q
    <2>2. p \in ReqSteps /\ p \in {"account", "named"}
      BY DEF ReqSteps
    <2>3. /\ s \in Req /\ s.pc = p /\ s.cred = q.cred /\ s.id.tenant = q.id.tenant
          /\ s.id.acct = NoSwitch
          /\ s.phase = q.phase /\ s.passed = q.passed /\ s.calm = q.calm
      BY <1>q, <2>2 DEF Req, WriteIDs, ReqSteps
    <2>4. s.calm => Pinned(s, Value, active)
      BY <1>2, <1>4, <2>1, <2>2, <2>3 DEF Pinned
    <2> QED
      BY <1>b, <2>1, <2>2, <2>3, <2>4
  <1>10. CASE ReadAccount(r)
    <2> DEFINE s == [q EXCEPT !.pc = "named", !.id.acct = mgr.active]
    <2>1. /\ q.pc = "account" /\ op.pc = "idle"
          /\ Answer(r) \/ req' = [req EXCEPT ![r] = s]
      BY <1>10, <1>2 DEF ReadAccount, q
    <2>2. /\ s \in Req /\ s.pc = "named" /\ s.cred = q.cred /\ s.id.tenant = q.id.tenant
          /\ s.id.acct = mgr.active
          /\ s.phase = q.phase /\ s.passed = q.passed /\ s.calm = q.calm
      BY <1>q, <1>5 DEF Req, WriteIDs, ReqSteps
    <2>3. s.calm => Pinned(s, Value, active)
      BY <1>2, <1>4, <1>5, <2>1, <2>2 DEF Pinned
    <2> QED
      BY <1>a, <1>b, <2>1, <2>2, <2>3
  <1>11. CASE CheckWritable(r)
    <2> DEFINE s == [q EXCEPT !.pc = "gate", !.passed = q.id]
    <2>1. /\ q.pc = "named" /\ q.phase = "lock"
          /\ Answer(r) \/ req' = [req EXCEPT ![r] = s]
      BY <1>11, <1>2 DEF CheckWritable, q
    <2>2. q.id \in WriteIDs /\ q.id = [tenant |-> q.id.tenant, acct |-> q.id.acct]
      BY <1>2, IDsOf DEF Req
    <2>3. /\ s \in Req /\ s.pc = "gate" /\ s.cred = q.cred /\ s.id = q.id
          /\ s.phase = q.phase /\ s.passed = q.id /\ s.calm = q.calm
      BY <1>q, <2>2 DEF Req, ReqSteps
    <2>4. s.calm => Pinned(s, Value, active)
      BY <1>2, <2>1, <2>2, <2>3 DEF Pinned
    <2> QED
      BY <1>a, <1>b, <2>1, <2>3, <2>4
  <1>12. CASE PassGate(r)
    <2> DEFINE s == [q EXCEPT !.pc = "write"]
               e == [q EXCEPT !.pc = "tenant", !.phase = "export"]
    <2>1. /\ q.pc = "gate"
          /\ Answer(r) \/ req' = [req EXCEPT ![r] = s] \/ req' = [req EXCEPT ![r] = e]
      BY <1>12, <1>2 DEF PassGate, Go, q
    <2>2. /\ s \in Req /\ s.pc = "write" /\ s.cred = q.cred /\ s.id = q.id
          /\ s.phase = q.phase /\ s.passed = q.passed /\ s.calm = q.calm
      BY <1>q DEF Req, ReqSteps
    <2>3. /\ e \in Req /\ e.pc = "tenant" /\ e.cred = q.cred /\ e.id = q.id
          /\ e.phase = "export" /\ e.passed = q.passed /\ e.calm = q.calm
      BY <1>q DEF Req, Phases, ReqSteps
    <2>4. s.calm => Pinned(s, Value, active)
      BY <1>2, <2>1, <2>2 DEF Pinned
    <2>5. e.calm => Pinned(e, Value, active)
      BY <1>2, <2>1, <2>3 DEF Pinned
    <2> QED
      BY <1>a, <1>b, <2>1, <2>2, <2>3, <2>4, <2>5
  <1>13. CASE StampExport(r)
    <2> DEFINE s == [q EXCEPT !.pc = "write"]
    <2>1. q.pc = "named" /\ q.phase = "export" /\ req' = [req EXCEPT ![r] = s]
      BY <1>13, <1>2 DEF StampExport, Go, q
    <2>2. /\ s \in Req /\ s.pc = "write" /\ s.cred = q.cred /\ s.id = q.id
          /\ s.phase = q.phase /\ s.passed = q.passed /\ s.calm = q.calm
      BY <1>q DEF Req, ReqSteps
    <2>3. s.calm => Pinned(s, Value, active)
      BY <1>2, <2>1, <2>2 DEF Pinned
    <2> QED
      BY <1>b, <2>1, <2>2, <2>3
  <1>14. CASE Write(r)
    BY <1>a, <1>14 DEF Write
  <1> QED
    BY <1>6, <1>7, <1>8, <1>9, <1>10, <1>11, <1>12, <1>13, <1>14 DEF RequestStep

-----------------------------------------------------------------------------
LEMMA WStepWInv ==
    ASSUME WInv, WNext
    PROVE  WInv'
  <1>1. ASSUME Next, Overlap, VaultIsSaved', GrantMatchesKey',
               ~unlocked' => writable' = {}, writable' \subseteq WriteIDs,
               kept' \subseteq WriteIDs, grantKey' \in [WriteIDs -> Keys \cup {NoKey}]
        PROVE  WInv'
    <2>1. IInv'
      BY <1>1, StepIInv DEF WInv
    <2>2. CalmIsPinned' /\ req' \in [Requests -> Req]
      BY <1>1, OverlapTells
    <2>3. WriteLockTypeOK'
      BY <1>1, <2>1, <2>2 DEF WriteLockTypeOK, IInv
    <2> QED
      BY <1>1, <2>1, <2>2, <2>3 DEF WInv
  <1>t. /\ grantKey \in [WriteIDs -> Keys \cup {NoKey}] /\ writable \subseteq WriteIDs
        /\ kept \subseteq WriteIDs /\ (~unlocked => writable = {})
        /\ VaultIsSaved /\ GrantMatchesKey
    BY DEF WInv, WriteLockTypeOK
  <1>2. CASE VaultStep /\ Overlap
    <2>1. /\ VaultIsSaved' /\ GrantMatchesKey' /\ VaultOp
          /\ (~unlocked' => writable' = {})
          /\ writable' \subseteq WriteIDs /\ kept' \subseteq WriteIDs
      BY <1>2, VaultStepGrants
    <2>2. grantKey' \in [WriteIDs -> Keys \cup {NoKey}]
      BY <1>2, <1>t DEF VaultStep
    <2> QED
      BY <1>1, <1>2, <2>1, <2>2 DEF Next
  <1>3. ASSUME Next, Overlap, UNCHANGED vaultVars, UNCHANGED lockVars
        PROVE  WInv'
    <2>1. /\ unlocked' = unlocked /\ tenants' = tenants /\ file' = file
          /\ writable' = writable /\ kept' = kept /\ grantKey' = grantKey
      BY <1>3 DEF vaultVars, lockVars
    <2>2. VaultIsSaved' /\ GrantMatchesKey'
      BY <1>t, <2>1 DEF VaultIsSaved, GrantMatchesKey
    <2> QED
      BY <1>1, <1>3, <1>t, <2>1, <2>2
  <1>4. CASE AuthReset /\ UNCHANGED lockVars /\ Overlap
    <2>1. UNCHANGED vaultVars
      BY <1>4 DEF AuthReset, InvalidateOverride, FirstRotate, ResetActive, SecondRotate
    <2> QED
      BY <1>3, <1>4, <2>1 DEF Next
  <1>5. CASE (\E a \in Accounts \cup {NoAccount} : BeginAccountOp(a))
             /\ UNCHANGED lockVars /\ Overlap
    <2>1. UNCHANGED vaultVars
      BY <1>5 DEF BeginAccountOp
    <2> QED
      BY <1>3, <1>5, <2>1 DEF Next
  <1>6. CASE AccountStep /\ UNCHANGED lockVars /\ Overlap
    <2>1. UNCHANGED vaultVars
      BY <1>6 DEF AccountStep, AccountsListed, PortalFails, ResolveHome, NothingToSwitch,
         SwitchHome, ReadEpoch, JwtMinted, SetOverrideAt, FinishSwitch
    <2> QED
      BY <1>3, <1>6, <2>1 DEF Next
  <1>7. ASSUME NEW w \in GrantInputs, NEW on \in BOOLEAN, SetWritable(w, on), Overlap
        PROVE  WInv'
    <2>1. w \in WriteIDs
      BY GrantInputsAssumption
    <2>2. /\ unlocked /\ UNCHANGED vars
          /\ writable' = (IF on THEN writable \cup {w} ELSE writable \ {w})
          /\ kept' = writable'
          /\ grantKey' = [grantKey EXCEPT ![w] = IF on THEN KeyOf(w.tenant) ELSE NoKey]
      BY <1>7 DEF SetWritable, SavePermissions
    <2>3. /\ unlocked' = unlocked /\ tenants' = tenants /\ file' = file /\ active' = active
          /\ tenants = file.tenants
      BY <1>t, <2>2 DEF vars, VaultIsSaved
    <2>4. KeyOf(w.tenant) \in Keys \cup {NoKey}
      BY ValueOf DEF WInv
    <2>5. grantKey' \in [WriteIDs -> Keys \cup {NoKey}]
      BY <1>t, <2>1, <2>2, <2>4
    <2>6. ASSUME NEW x \in writable', x.tenant \in DOMAIN tenants
          PROVE  grantKey'[x] = tenants[x.tenant]
      <3>1. CASE x = w
        BY <1>t, <2>1, <2>2, <2>6, <3>1 DEF KeyOf
      <3>2. CASE x # w
        <4>1. x \in writable /\ x \in WriteIDs
          BY <1>t, <2>2, <3>2
        <4>2. grantKey'[x] = grantKey[x]
          BY <1>t, <2>1, <2>2, <3>2, <4>1
        <4> QED
          BY <1>t, <2>6, <4>1, <4>2 DEF GrantMatchesKey
      <3> QED
        BY <3>1, <3>2
    <2>7. VaultIsSaved' /\ GrantMatchesKey'
      BY <2>2, <2>3, <2>6 DEF VaultIsSaved, GrantMatchesKey
    <2>8. IInv'
      BY <2>2, StutterIInv DEF WInv
    <2>9. CalmIsPinned' /\ req' \in [Requests -> Req]
      BY <1>7, OverlapTells
    <2>10. writable' \subseteq WriteIDs /\ kept' \subseteq WriteIDs
      BY <1>t, <2>1, <2>2
    <2> QED
      BY <2>2, <2>3, <2>5, <2>7, <2>8, <2>9, <2>10 DEF WInv, WriteLockTypeOK, IInv
  <1>8. CASE \E r \in Requests : RequestStep(r)
    BY <1>8, RequestStepWInv
  <1> QED
    BY <1>2, <1>4, <1>5, <1>6, <1>7, <1>8 DEF WNext

LEMMA WStutter ==
    ASSUME WInv, UNCHANGED wvars
    PROVE  WInv'
  <1>1. /\ UNCHANGED <<unlocked, tenants, active, file, rot, override, epoch, mgr, op, gen>>
        /\ UNCHANGED <<writable, kept, grantKey, req>>
    BY DEF wvars, vars
  <1>2. Value' = Value /\ ActiveKey' = ActiveKey /\ Identity' = Identity
    BY <1>1 DEF Value, ActiveKey, Identity
  <1>3. IInv'
    BY StutterIInv DEF WInv, wvars
  <1>4. WriteLockTypeOK'
    BY <1>1, <1>3 DEF WInv, WriteLockTypeOK, IInv
  <1> QED
    BY <1>1, <1>2, <1>3, <1>4 DEF WInv, VaultIsSaved, GrantMatchesKey, CalmIsPinned

(* WriteLockInductive: everything the two theorems below rest on, for any  *)
(* number of requests beside any history of the vault and the account.     *)
THEOREM WriteLockInductive == WSpec => []WInv
  <1>1. WInv /\ [WNext]_wvars => WInv'
    BY WStepWInv, WStutter
  <1> QED
    BY InitWInv, <1>1, PTL DEF WSpec

(* GrantsMatchTheirKeys: a permission in memory or on disk never applies   *)
(* to another key than the one behind its connection when it was granted.  *)
THEOREM GrantsMatchTheirKeys == WSpec => []GrantMatchesKey
  <1>1. WInv => GrantMatchesKey
    BY DEF WInv
  <1> QED
    BY WriteLockInductive, <1>1, PTL

(* CalmRequestsAlwaysHit: a tenant-changing request that no change of      *)
(* credential overlapped writes with a credential that acts in exactly the *)
(* identity the lock passed, and names that identity in its export.        *)
THEOREM CalmRequestsAlwaysHit == WSpec => []CalmRequestsHitTheirTarget
  BY WriteLockInductive, CalmIsOnTarget, PTL

-----------------------------------------------------------------------------
(* The reads.  Fresh(c): c is the credential the server uses, or a Rotate  *)
(* is owed before things settle, or no connection is active.               *)
Fresh(c) == rot # "idle" \/ op.pc = "finish" \/ ActiveKey = NoKey \/ c = Value

(* The same, of a read between its two looks at the slot.                  *)
Unswitched == rot # "idle" \/ op.pc = "finish" \/ ActiveKey = NoKey \/ override = NoCred

ReadsTypeOK ==
    /\ rows \in {NoRows} \cup [cred : Credentials, prompt : BOOLEAN]
    /\ reader \in [Readers -> Reads]

(* A read that pinned in this generation has pinned what is still Fresh.   *)
ReadIsFresh(q) ==
    /\ q.pinGen <= gen /\ q.fence <= gen
    /\ q.pc = "key" => q.cred = NoCred
    /\ q.pinGen = gen =>
         /\ q.pc = "key" => Unswitched
         /\ q.pc \in {"gate", "get", "gen", "fetch"} => Fresh(q.cred)
         /\ q.pc = "set" => Fresh(q.got)

RowsAreFresh == rows # NoRows /\ rows.prompt => Fresh(rows.cred)

RInv ==
    /\ IInv
    /\ ReadsTypeOK
    /\ RowsAreFresh
    /\ \A r \in Readers : ReadIsFresh(reader[r])

LEMMA VaultOpKeepsKey ==
    ASSUME TypeOK, VaultOp
    PROVE  \/ rot' = "invalidate"
           \/ rot' = rot /\ (ActiveKey' = ActiveKey \/ ActiveKey' = NoKey)
  <1> USE DEF Owes, BeginTransition, ActiveKey
  <1>a. ActiveIsStored
    BY DEF TypeOK
  <1>1. CASE UnlockVault \/ LockVault \/ ResetVault \/ (\E t \in Tenants : SetActive(t))
    BY <1>1 DEF UnlockVault, LockVault, ResetVault, SetActive
  <1>2. CASE InitVault
    BY <1>2 DEF InitVault, Store, EmptyStore
  <1>3. CASE ResetVaultFails
    BY <1>3 DEF ResetVaultFails, ForgetSecrets, EmptyStore
  <1>4. CASE \E t \in Tenants, k \in Keys : AddTenant(t, k)
    BY <1>4, <1>a DEF AddTenant, Store, ActiveIsStored
  <1>5. CASE \E t \in Tenants, k \in Keys : UpdateTenant(t, k)
    BY <1>5 DEF UpdateTenant, Store
  <1>6. CASE \E t \in Tenants : RemoveTenant(t)
    <2>1. PICK t \in Tenants : RemoveTenant(t)
      BY <1>6
    <2>2. CASE active = t
      BY <2>1, <2>2 DEF RemoveTenant
    <2>3. CASE active # t
      BY <2>1, <2>3 DEF RemoveTenant, Store, Without
    <2> QED
      BY <2>2, <2>3
  <1> QED
    BY <1>1, <1>2, <1>3, <1>4, <1>5, <1>6 DEF VaultOp

(* StepsStayFresh: as long as the generation stands, what was fresh is.    *)
LEMMA StepsStayFresh ==
    ASSUME IInv, Next
    PROVE  /\ gen' = gen \/ gen' = gen + 1
           /\ gen' = gen => /\ \A c : Fresh(c) => Fresh(c)'
                            /\ Unswitched => Unswitched'
  <1> DEFINE Goal == /\ gen' = gen \/ gen' = gen + 1
                     /\ gen' = gen => /\ \A c : Fresh(c) => Fresh(c)'
                                      /\ Unswitched => Unswitched'
  <1>1. CASE VaultOp
    <2>1. UNCHANGED <<override, op, gen>>
      BY <1>1, VaultOpRotates DEF IInv, authVars
    <2>2. \/ rot' = "invalidate"
          \/ rot' = rot /\ (ActiveKey' = ActiveKey \/ ActiveKey' = NoKey)
      BY <1>1, VaultOpKeepsKey DEF IInv
    <2> QED
      BY <2>1, <2>2 DEF Fresh, Unswitched, Value
  <1>2. CASE AuthReset
    <2>1. gen \in Nat
      BY DEF IInv, TypeOK
    <2> QED
      BY <1>2, <2>1 DEF AuthReset, InvalidateOverride, FirstRotate, ResetActive, SecondRotate,
         Fresh, Unswitched
  <1>3. ASSUME UNCHANGED <<vaultVars, override, rot, gen>>, op.pc # "finish"
        PROVE  Goal
    <2>1. Value' = Value /\ ActiveKey' = ActiveKey
      BY <1>3 DEF vaultVars, Value, ActiveKey
    <2> QED
      BY <1>3, <2>1 DEF Fresh, Unswitched
  <1>4. CASE \E a \in Accounts \cup {NoAccount} : BeginAccountOp(a)
    <2>1. UNCHANGED <<vaultVars, override, rot, gen>> /\ op.pc # "finish"
      BY <1>4 DEF BeginAccountOp, authVars
    <2> QED
      BY <1>3, <2>1
  <1>5. CASE AccountsListed \/ PortalFails \/ ResolveHome \/ NothingToSwitch \/ ReadEpoch \/ JwtMinted
    <2>1. UNCHANGED <<vaultVars, override, rot, gen>> /\ op.pc # "finish"
      BY <1>5 DEF AccountsListed, PortalFails, ResolveHome, NothingToSwitch, ReadEpoch, JwtMinted,
         authVars
    <2> QED
      BY <1>3, <2>1
  <1>6. CASE SwitchHome \/ SetOverrideAt
    <2>1. op \in OpStates
      BY DEF IInv, TypeOK
    <2>2. /\ UNCHANGED <<vaultVars, rot, gen>> /\ op.pc # "finish"
          /\ op'.pc = "finish" \/ override' = override
      BY <1>6, <2>1 DEF SwitchHome, SetOverrideAt, authVars, OpStates
    <2>3. ActiveKey' = ActiveKey /\ (override' = override => Value' = Value)
      BY <2>2 DEF vaultVars, Value, ActiveKey
    <2> QED
      BY <2>2, <2>3 DEF Fresh, Unswitched
  <1>7. CASE FinishSwitch
    <2>1. gen \in Nat /\ gen' = gen + 1
      BY <1>7 DEF IInv, TypeOK, FinishSwitch
    <2> QED
      BY <2>1
  <1> QED
    BY <1>1, <1>2, <1>4, <1>5, <1>6, <1>7 DEF Next, AccountStep

LEMMA InitRInv == RInit => RInv
  <1> SUFFICES ASSUME RInit PROVE RInv
    OBVIOUS
  <1>1. IInv /\ gen = 0
    BY InitIInv DEF RInit, Init
  <1>2. NoRead \in Reads /\ NoRead.pc = "idle" /\ NoRead.pinGen = 0 /\ NoRead.fence = 0
    BY DEF NoRead, Reads, ReadSteps, NoCred, Credentials, NoSwitch
  <1> QED
    BY <1>1, <1>2 DEF RInit, RInv, ReadsTypeOK, RowsAreFresh, ReadIsFresh

LEMMA ServerStepRInv ==
    ASSUME RInv, ServerStep
    PROVE  RInv'
  <1>1. IInv /\ Next /\ reader' = reader /\ rows' = IF gen' # gen THEN NoRows ELSE rows
    BY DEF RInv, ServerStep
  <1>2. IInv' /\ gen \in Nat
    BY <1>1, StepIInv DEF IInv, TypeOK
  <1>3. /\ gen' = gen \/ gen' = gen + 1
        /\ gen' = gen => /\ \A c : Fresh(c) => Fresh(c)'
                         /\ Unswitched => Unswitched'
    BY <1>1, StepsStayFresh
  <1>4. RowsAreFresh'
    BY <1>1, <1>3 DEF RInv, RowsAreFresh
  <1>5. ASSUME NEW r \in Readers PROVE ReadIsFresh(reader[r])'
    <2>1. reader[r] \in Reads /\ ReadIsFresh(reader[r])
      BY DEF RInv, ReadsTypeOK
    <2>2. reader[r].pinGen \in Nat /\ reader[r].fence \in Nat
      BY <2>1 DEF Reads
    <2>3. reader'[r] = reader[r]
      BY <1>1
    <2>4. CASE gen' = gen
      BY <1>3, <2>1, <2>3, <2>4 DEF ReadIsFresh
    <2>5. CASE gen' = gen + 1
      <3>1. reader[r].pinGen <= gen /\ reader[r].fence <= gen
            /\ (reader[r].pc = "key" => reader[r].cred = NoCred)
        BY <2>1 DEF ReadIsFresh
      <3>2. reader[r].pinGen # gen' /\ reader[r].pinGen <= gen' /\ reader[r].fence <= gen'
        BY <1>2, <2>2, <2>5, <3>1
      <3> QED
        BY <2>3, <3>1, <3>2 DEF ReadIsFresh
    <2> QED
      BY <1>3, <2>4, <2>5
  <1>6. ReadsTypeOK'
    BY <1>1 DEF RInv, ReadsTypeOK
  <1> QED
    BY <1>2, <1>4, <1>5, <1>6 DEF RInv

(* ReadMoves: a step of a read that leaves the server and the rows alone   *)
(* keeps the invariant when what it leaves of the read is fresh.           *)
LEMMA ReadMoves ==
    ASSUME RInv, UNCHANGED vars, NEW r \in Readers, NEW q \in Reads,
           reader' = [reader EXCEPT ![r] = q], ReadIsFresh(q),
           ReadsTypeOK => rows' \in {NoRows} \cup [cred : Credentials, prompt : BOOLEAN],
           rows' # NoRows /\ rows'.prompt => Fresh(rows'.cred)
    PROVE  RInv'
  <1>1. UNCHANGED <<unlocked, tenants, active, file, rot, override, epoch, mgr, op, gen>>
    BY DEF vars
  <1>2. Value' = Value /\ ActiveKey' = ActiveKey
    BY <1>1 DEF Value, ActiveKey
  <1>3. /\ \A c : Fresh(c)' <=> Fresh(c)
        /\ Unswitched' <=> Unswitched
    BY <1>1, <1>2 DEF Fresh, Unswitched
  <1>4. reader \in [Readers -> Reads] /\ reader' \in [Readers -> Reads]
        /\ \A s \in Readers : reader'[s] = IF s = r THEN q ELSE reader[s]
    BY DEF RInv, ReadsTypeOK
  <1>5. ASSUME NEW s \in Readers PROVE ReadIsFresh(reader[s])'
    <2>1. ReadIsFresh(reader'[s])
      BY <1>4 DEF RInv
    <2> QED
      BY <1>1, <1>3, <2>1 DEF ReadIsFresh
  <1>6. RowsAreFresh'
    BY <1>3 DEF RowsAreFresh
  <1>7. ReadsTypeOK'
    BY <1>4 DEF RInv, ReadsTypeOK
  <1>8. IInv'
    BY StutterIInv DEF RInv
  <1> QED
    BY <1>5, <1>6, <1>7, <1>8 DEF RInv

LEMMA ReadStepRInv ==
    ASSUME RInv, NEW r \in Readers, ReadStep(r)
    PROVE  RInv'
  <1> DEFINE q == reader[r]
  <1>1. UNCHANGED vars
    BY DEF ReadStep
  <1>2. /\ reader \in [Readers -> Reads] /\ q \in Reads /\ ReadIsFresh(q)
        /\ rows \in {NoRows} \cup [cred : Credentials, prompt : BOOLEAN]
        /\ RowsAreFresh /\ gen \in Nat /\ override \in Credentials
    BY DEF RInv, ReadsTypeOK, IInv, TypeOK
  <1>3. /\ NoRead \in Reads /\ NoRead.pc = "idle" /\ ReadIsFresh(NoRead)
    BY <1>2 DEF NoRead, Reads, ReadSteps, NoCred, Credentials, NoSwitch, ReadIsFresh
  <1>4. /\ Value \in Credentials /\ NoCred \in Credentials
        /\ override # NoCred => Value = override
        /\ override = NoCred => Value = Plain(IF ActiveKey # NoKey THEN ActiveKey ELSE Fallback)
    BY ValueOf DEF RInv
  <1>5. rows # NoRows /\ rows.prompt => Fresh(rows.cred)
    BY <1>2 DEF RowsAreFresh
  <1>a. ASSUME Done(r), UNCHANGED rows PROVE RInv'
    BY <1>1, <1>3, <1>5, <1>a, ReadMoves DEF Done, RInv, ReadsTypeOK
  <1> HIDE DEF q
  <1>b. ASSUME NEW s \in Reads, reader' = [reader EXCEPT ![r] = s], ReadIsFresh(s), UNCHANGED rows
        PROVE  RInv'
    BY <1>1, <1>2, <1>5, <1>b, ReadMoves
  <1>q. q \in Reads
    BY <1>2
  <1>6. CASE PinReadOverride(r)
    <2> DEFINE p == IF override # NoCred THEN "gate" ELSE "key"
               s == [[[q EXCEPT !.pc = p] EXCEPT !.cred = override] EXCEPT !.pinGen = gen]
    <2>1. UNCHANGED rows /\ p \in ReadSteps
          /\ reader' = [reader EXCEPT ![r] = [q EXCEPT !.pc = p, !.cred = override, !.pinGen = gen]]
      BY <1>6, <1>2 DEF PinReadOverride, ReadSteps, q
    <2> HIDE DEF p
    <2>2. p \in ReadSteps /\ override \in Credentials /\ gen \in Nat
      BY <1>2, <2>1
    <2>3. /\ s \in Reads /\ s.pc = p /\ s.cred = override /\ s.pinGen = gen
          /\ s.fence = q.fence
      BY <1>q, <2>2 DEF Reads, ReadSteps
    <2>4. s = [q EXCEPT !.pc = p, !.cred = override, !.pinGen = gen]
      OBVIOUS
    <2>5. ReadIsFresh(s)
      BY <1>2, <1>4, <2>3 DEF ReadIsFresh, Fresh, Unswitched, p
    <2>6. reader' = [reader EXCEPT ![r] = s]
      BY <2>1, <2>4
    <2> HIDE DEF s
    <2> QED
      BY <1>b, <2>1, <2>3, <2>5, <2>6
  <1>7. CASE PinReadKey(r)
    <2> DEFINE c == Plain(IF ActiveKey # NoKey THEN ActiveKey ELSE Fallback)
               s == [q EXCEPT !.pc = "gate", !.cred = c]
    <2>1. q.pc = "key" /\ UNCHANGED rows /\ reader' = [reader EXCEPT ![r] = s]
      BY <1>7, <1>2 DEF PinReadKey, q
    <2>2. c \in Credentials
      <3>1. ActiveKey \in Keys \cup {NoKey}
        BY StoreDomain DEF RInv, IInv, TypeOK, ActiveKey
      <3> QED
        BY <3>1, TenantSwitchAssumption DEF Plain, Credentials, NoSwitch
    <2> HIDE DEF c
    <2>3. /\ s \in Reads /\ s.pc = "gate" /\ s.cred = c /\ s.pinGen = q.pinGen
          /\ s.fence = q.fence
      BY <1>q, <2>2 DEF Reads, ReadSteps
    <2>4. q.pinGen = gen => Fresh(c)
      <3>1. q.pinGen = gen => Unswitched
        BY <1>2, <2>1 DEF ReadIsFresh
      <3> QED
        BY <1>4, <3>1 DEF Fresh, Unswitched, c
    <2>5. ReadIsFresh(s)
      BY <1>2, <2>3, <2>4 DEF ReadIsFresh
    <2> QED
      BY <1>b, <2>1, <2>3, <2>5
  <1>8. ASSUME NEW p \in {"get", "gen"}, q.pc \in {"gate", "get"},
               Done(r) \/ reader' = [reader EXCEPT ![r].pc = p], UNCHANGED rows
        PROVE  RInv'
    <2> DEFINE s == [q EXCEPT !.pc = p]
    <2>1. Done(r) \/ reader' = [reader EXCEPT ![r] = s]
      BY <1>8, <1>2 DEF q
    <2>2. /\ s \in Reads /\ s.pc = p /\ s.cred = q.cred /\ s.pinGen = q.pinGen
          /\ s.fence = q.fence
      BY <1>q DEF Reads, ReadSteps
    <2>3. ReadIsFresh(s)
      BY <1>2, <1>8, <2>2 DEF ReadIsFresh
    <2> QED
      BY <1>8, <1>a, <1>b, <2>1, <2>2, <2>3
  <1>9. CASE ReadPassesGate(r) \/ Lookup(r)
    <2>1. \E p \in {"get", "gen"} : /\ q.pc \in {"gate", "get"}
                                    /\ Done(r) \/ reader' = [reader EXCEPT ![r].pc = p]
                                    /\ UNCHANGED rows
      BY <1>9 DEF ReadPassesGate, Lookup, q
    <2> QED
      BY <1>8, <2>1
  <1>10. CASE CaptureGen(r)
    <2> DEFINE s == [q EXCEPT !.pc = "fetch", !.fence = gen]
    <2>1. q.pc = "gen" /\ UNCHANGED rows /\ reader' = [reader EXCEPT ![r] = s]
      BY <1>10, <1>2 DEF CaptureGen, q
    <2>0. gen \in Nat
      BY <1>2
    <2>2. /\ s \in Reads /\ s.pc = "fetch" /\ s.cred = q.cred /\ s.pinGen = q.pinGen
          /\ s.fence = gen
      BY <1>q, <2>0 DEF Reads, ReadSteps
    <2>3. ReadIsFresh(s)
      BY <1>2, <2>1, <2>2 DEF ReadIsFresh
    <2> QED
      BY <1>b, <2>1, <2>2, <2>3
  <1>11. CASE Fetch(r)
    <2> DEFINE c == IF q.cred = NoCred THEN Value ELSE q.cred
               g == IF q.cred = NoCred THEN q.fence ELSE q.pinGen
               s == [[[q EXCEPT !.pc = "set"] EXCEPT !.got = c] EXCEPT !.pinGen = g]
    <2>1. /\ q.pc = "fetch" /\ UNCHANGED rows
          /\ \/ Done(r)
             \/ reader' = [reader EXCEPT ![r] = [q EXCEPT !.pc = "set", !.got = c, !.pinGen = g]]
      BY <1>11, <1>2 DEF Fetch, q
    <2>2. c \in Credentials /\ g \in Nat
      BY <1>2, <1>4 DEF Reads
    <2>3. q.pinGen <= gen /\ q.fence <= gen /\ (q.pinGen = gen => Fresh(q.cred))
      BY <1>2, <2>1 DEF ReadIsFresh
    <2>4. g <= gen /\ (g = gen => Fresh(c))
      BY <2>3 DEF Fresh
    <2> HIDE DEF c, g
    <2>5. /\ s \in Reads /\ s.pc = "set" /\ s.got = c /\ s.pinGen = g
          /\ s.fence = q.fence
          /\ s = [q EXCEPT !.pc = "set", !.got = c, !.pinGen = g]
      BY <1>q, <2>2 DEF Reads, ReadSteps
    <2>6. ReadIsFresh(s)
      BY <2>3, <2>4, <2>5 DEF ReadIsFresh
    <2> QED
      BY <1>a, <1>b, <2>1, <2>5, <2>6
  <1>12. CASE SetGen(r)
    <2> DEFINE new == [cred |-> q.got, prompt |-> q.pinGen = q.fence]
    <2>1. /\ q.pc = "set" /\ Done(r)
          /\ rows' = IF q.fence = gen THEN new ELSE rows
      BY <1>12 DEF SetGen, q
    <2>2. new \in [cred : Credentials, prompt : BOOLEAN]
      BY <1>2 DEF Reads
    <2>3. q.fence = gen /\ new.prompt => Fresh(new.cred)
      BY <1>2, <2>1 DEF ReadIsFresh
    <2> HIDE DEF new
    <2>4. /\ rows' \in {NoRows} \cup [cred : Credentials, prompt : BOOLEAN]
          /\ rows' # NoRows /\ rows'.prompt => Fresh(rows'.cred)
      BY <1>2, <1>5, <2>1, <2>2, <2>3
    <2> QED
      BY <1>1, <1>3, <2>1, <2>4, ReadMoves DEF Done
  <1> QED
    BY <1>6, <1>7, <1>9, <1>10, <1>11, <1>12 DEF ReadStep

LEMMA RStepRInv ==
    ASSUME RInv, [RNext]_rvars
    PROVE  RInv'
  <1>1. ASSUME UNCHANGED <<vars, reader>>, rows' = rows \/ rows' = NoRows
        PROVE  RInv'
    <2>1. UNCHANGED <<unlocked, tenants, active, file, rot, override, epoch, mgr, op, gen>>
      BY <1>1 DEF vars
    <2>2. Value' = Value /\ ActiveKey' = ActiveKey
      BY <2>1 DEF Value, ActiveKey
    <2>3. /\ \A c : Fresh(c)' <=> Fresh(c)
          /\ Unswitched' <=> Unswitched
      BY <2>1, <2>2 DEF Fresh, Unswitched
    <2>4. IInv' /\ ReadsTypeOK'
      BY <1>1, StutterIInv DEF RInv, ReadsTypeOK
    <2>5. RowsAreFresh'
      BY <1>1, <2>3 DEF RInv, RowsAreFresh
    <2>6. \A r \in Readers : ReadIsFresh(reader[r])'
      BY <1>1, <2>1, <2>3 DEF RInv, ReadIsFresh
    <2> QED
      BY <2>4, <2>5, <2>6 DEF RInv
  <1>2. CASE ServerStep
    BY <1>2, ServerStepRInv
  <1>3. CASE \E r \in Readers : ReadStep(r)
    BY <1>3, ReadStepRInv
  <1>4. CASE DropRows \/ UNCHANGED rvars
    BY <1>1, <1>4 DEF DropRows, rvars
  <1> QED
    BY <1>2, <1>3, <1>4 DEF RNext

(* PromptRowsAlwaysLive: however a read and a change of tenant interleave, *)
(* settled rows whose read pinned and fenced in one generation are those   *)
(* of the credential the server uses: every change of credential owes a    *)
(* Rotate, and nothing read before a Rotate is stored after it.            *)
THEOREM PromptRowsAlwaysLive == RSpec => []PromptRowsAreLive
  <1>1. RInv => PromptRowsAreLive
    BY DEF RInv, RowsAreFresh, Fresh, PromptRowsAreLive, Settled
  <1> QED
    BY InitRInv, RStepRInv, <1>1, PTL DEF RSpec

-----------------------------------------------------------------------------
(* The file.  It is what the open vault would write, no flushed payload is *)
(* lost, and a rotation tells the truth.                                   *)

\* x is a file or a memory whose key comes from a passphrase and its own fields.
Sound(x) == x.key.pass \in Passes /\ x.key = deriveKey(x.key.pass, x.salt, x.ver)

Rotating == cli.pc \in {"backed", "rotated", "restore", "refill"}
BackupHolds == \E pass \in Passes : Opens(backup, pass) /\ backup.data >= acked
Kept(f) == f # Absent /\ IF IsEnvelope(f) THEN f.data >= acked ELSE BackupHolds
Target == IF cli.result = "ok" THEN cli.new ELSE cli.cur

\* One process at a time is at work, and each save is the doing of one of them.
OneProcess ==
    /\ cli.pc # "idle" => ~up /\ mem.open /\ {cli.cur, cli.new} \subseteq Passes
    /\ job.pc # "idle" =>
         /\ mem.open
         /\ \/ job.kind \in {"change", "init"} /\ up
            \/ job.kind = "migrate" /\ (up \/ cli.pc = "opened")
            \/ job.kind = "rotate" /\ cli.pc = "backed"

\* Whatever can be read was sealed under a passphrase.
AllSound ==
    /\ \A f \in {vault, durable} : IsEnvelope(f) => Sound(f)
    /\ mem.open => Sound(mem)

\* A save in progress: what is on disk, what will be, what a failure puts back.
SaveInHand ==
    job.pc # "idle" =>
        /\ job.pc = "syncdir" => vault = Sealed(mem)
        /\ job.pc # "syncdir" =>
             IF job.kind = "init" THEN vault = Absent /\ job.undo = Locked
             ELSE vault = Sealed(job.undo) /\ job.undo.open
        /\ job.pc = "rename" => tmp = Sealed(mem)
        /\ job.kind \in {"change", "migrate"} => mem.key.pass = job.undo.key.pass
        /\ job.kind \in {"change", "migrate", "rotate"} => mem.data >= job.undo.data
        /\ job.kind = "rotate" => job.undo.data = mem.data /\ job.undo.key.pass = cli.cur

\* The rotate command: whose key is in memory, and what its backup holds.
RotationHolds ==
    /\ cli.pc = "opened" => mem.key.pass = cli.cur
    /\ Rotating => /\ cli.cur # cli.new /\ backup = cli.orig
                   /\ Opens(cli.orig, cli.cur) /\ cli.orig.data = mem.data
    /\ cli.pc = "backed" =>
         mem.key.pass = IF job.pc = "idle" THEN cli.cur ELSE cli.new
    /\ cli.pc \in {"rotated", "restore"} => mem.key.pass = cli.new
    /\ cli.result # "none" =>
         /\ cli.pc = "idle" /\ {cli.cur, cli.new} \subseteq Passes /\ cli.cur # cli.new
         /\ Opens(vault, Target)

\* What was acknowledged is in the file, and in what a power cut makes of it,
\* unless that is torn and the backup has it.
AckedIsKept ==
    acked # Absent =>
        /\ Kept(vault) /\ Kept(durable)
        /\ mem.open => mem.data >= acked

FileInv ==
    /\ VaultFileTypeOK /\ OneProcess /\ AllSound /\ SaveInHand /\ MemoryMatchesFile
    /\ RotationHolds /\ AckedIsKept

-----------------------------------------------------------------------------
(* The operators on keys, memories and files.                              *)
LEMMA KeyDerived ==
    ASSUME NEW pass \in Passes \cup {NoPass}, NEW salt \in Nat, NEW ver \in Versions
    PROVE  /\ deriveKey(pass, salt, ver) \in DerivedKeys
           /\ deriveKey(pass, salt, ver).pass = pass
           /\ deriveKey(pass, salt, ver).salt = salt
           /\ deriveKey(pass, salt, ver).ver = ver
  BY DEF deriveKey, DerivedKeys

LEMMA SealOf ==
    ASSUME NEW m \in Memories
    PROVE  /\ Sealed(m) \in Files /\ IsEnvelope(Sealed(m))
           /\ Sealed(m).ver = m.ver /\ Sealed(m).salt = m.salt
           /\ Sealed(m).key = m.key /\ Sealed(m).data = m.data
           /\ Sound(m) <=> Sound(Sealed(m))
  <1>1. Sealed(m) \in Envelopes
    BY DEF Sealed, Memories, Envelopes
  <1>2. IsEnvelope(Sealed(m)) /\ Sealed(m) \in Files
    BY <1>1, VaultFileAssumption DEF IsEnvelope, Files
  <1> QED
    BY <1>2 DEF Sealed, Sound

LEMMA FileOf ==
    ASSUME NEW f \in Files
    PROVE  /\ IsEnvelope(f) => /\ f.ver \in Versions /\ f.salt \in Nat
                               /\ f.key \in DerivedKeys /\ f.data \in Nat
                               /\ f = [ver |-> f.ver, salt |-> f.salt, key |-> f.key,
                                       data |-> f.data]
           /\ \A pass \in Passes : Opens(f, pass) <=>
                 IsEnvelope(f) /\ Sound(f) /\ f.key.pass = pass
  <1>1. ASSUME IsEnvelope(f)
        PROVE  /\ f.ver \in Versions /\ f.salt \in Nat
               /\ f.key \in DerivedKeys /\ f.data \in Nat
               /\ f = [ver |-> f.ver, salt |-> f.salt, key |-> f.key, data |-> f.data]
    BY <1>1 DEF IsEnvelope, Files, Envelopes
  <1>2. ASSUME NEW pass \in Passes, IsEnvelope(f)
        PROVE  f.key = deriveKey(pass, f.salt, f.ver) <=> Sound(f) /\ f.key.pass = pass
    <2>1. deriveKey(pass, f.salt, f.ver).pass = pass
      BY DEF deriveKey
    <2> QED
      BY <2>1 DEF Sound
  <1> QED
    BY <1>1, <1>2 DEF Opens

LEMMA LockedOf == Locked \in Memories /\ ~Locked.open /\ Locked.data = 0
                  /\ Locked.key = deriveKey(Locked.key.pass, Locked.salt, Locked.ver)
  BY DEF Locked, Memories, DerivedKeys, deriveKey, Versions, CurrentVersion

-----------------------------------------------------------------------------
LEMMA InitFileInv == VaultFileInit => FileInv
  <1> SUFFICES ASSUME VaultFileInit PROVE FileInv
    OBVIOUS
  <1> USE VaultFileAssumption DEF VaultFileInit
  <1>1. /\ vault \in Files /\ durable = vault /\ mem = Locked /\ job = NoJob /\ cli = NoCli
        /\ salts = 1 /\ tmp = Absent /\ backup = Absent /\ up = FALSE
    BY DEF Files, Envelopes, Versions, deriveKey, DerivedKeys
  <1>2. IsEnvelope(vault) => Sound(vault) /\ vault.data = 0
    BY DEF IsEnvelope, Sound, deriveKey
  <1>3. NoJob \in [pc : JobSteps, kind : JobKinds, undo : Memories]
    BY LockedOf DEF NoJob, JobSteps, JobKinds
  <1>4. NoCli \in [pc : CliSteps, cur : Passes \cup {NoPass}, new : Passes \cup {NoPass},
                   orig : Files, result : Results, runs : Nat]
    BY DEF NoCli, CliSteps, Results, Files
  <1>5. vault # Absent => IsEnvelope(vault)
    BY DEF Envelopes, IsEnvelope, Versions, deriveKey, DerivedKeys
  <1>6. acked = IF vault = Absent THEN Absent ELSE 0
    OBVIOUS
  <1>7. NoJob.pc = "idle" /\ NoCli.pc = "idle" /\ NoCli.result = "none"
    BY DEF NoJob, NoCli
  <1> HIDE DEF VaultFileInit
  <1>8. VaultFileTypeOK
    BY <1>1, <1>3, <1>4, <1>6, LockedOf DEF VaultFileTypeOK, Files
  <1>9. OneProcess /\ AllSound /\ SaveInHand /\ MemoryMatchesFile /\ RotationHolds
    BY <1>1, <1>2, <1>7, LockedOf
    DEF OneProcess, AllSound, SaveInHand, MemoryMatchesFile, RotationHolds, Rotating
  <1>10. AckedIsKept
    BY <1>1, <1>2, <1>5, <1>6, LockedOf DEF AckedIsKept, Kept
  <1> QED
    BY <1>8, <1>9, <1>10 DEF FileInv

-----------------------------------------------------------------------------
(* The types of what an action reads, in the form the steps below use.     *)
LEMMA Basics ==
    ASSUME FileInv
    PROVE  /\ vault \in Files /\ tmp \in Files /\ backup \in Files /\ durable \in Files
           /\ mem \in Memories /\ mem.key = deriveKey(mem.key.pass, mem.salt, mem.ver)
           /\ job.pc \in JobSteps /\ job.kind \in JobKinds /\ job.undo \in Memories
           /\ cli.pc \in CliSteps /\ cli.cur \in Passes \cup {NoPass}
           /\ cli.new \in Passes \cup {NoPass} /\ cli.orig \in Files
           /\ cli.result \in Results /\ cli.runs \in Nat
           /\ up \in BOOLEAN /\ salts \in Nat /\ acked \in Nat \cup {Absent}
           /\ mem.data \in Nat /\ mem.salt \in Nat /\ mem.ver \in Versions
           /\ mem.open \in BOOLEAN /\ mem.key \in DerivedKeys
           /\ Absent \notin Nat
           /\ job \in [pc : JobSteps, kind : JobKinds, undo : Memories]
           /\ cli \in [pc : CliSteps, cur : Passes \cup {NoPass}, new : Passes \cup {NoPass},
                       orig : Files, result : Results, runs : Nat]
  BY VaultFileAssumption DEF FileInv, VaultFileTypeOK, Memories

LEMMA CreateTmpKeeps == FileInv /\ CreateTmp => FileInv'
  <1> SUFFICES ASSUME FileInv, CreateTmp PROVE FileInv'
    OBVIOUS
  <1>1. /\ job.pc = "create" /\ job' = [job EXCEPT !.pc = "write"] /\ tmp' = Empty
        /\ UNCHANGED <<vault, backup, durable, mem, up, cli, salts, acked>>
    BY DEF CreateTmp, SaveStep
  <1>2. /\ job' \in [pc : JobSteps, kind : JobKinds, undo : Memories]
        /\ job'.pc = "write" /\ job'.kind = job.kind /\ job'.undo = job.undo
    BY <1>1, Basics DEF JobSteps
  <1>3. VaultFileTypeOK'
    BY <1>1, <1>2, Basics DEF VaultFileTypeOK, Files
  <1>4. OneProcess' /\ AllSound' /\ MemoryMatchesFile' /\ AckedIsKept'
    BY <1>1, <1>2 DEF FileInv, OneProcess, AllSound, MemoryMatchesFile, AckedIsKept, Kept,
                      BackupHolds, Opens
  <1>5. SaveInHand' /\ RotationHolds'
    BY <1>1, <1>2 DEF FileInv, SaveInHand, RotationHolds, Rotating, Target, Opens, Sealed
  <1> QED
    BY <1>3, <1>4, <1>5 DEF FileInv

LEMMA WriteTmpKeeps == FileInv /\ WriteTmp => FileInv'
  <1> SUFFICES ASSUME FileInv, WriteTmp PROVE FileInv'
    OBVIOUS
  <1>1. /\ job.pc = "write" /\ job' = [job EXCEPT !.pc = "rename"] /\ tmp' = Sealed(mem)
        /\ UNCHANGED <<vault, backup, durable, mem, up, cli, salts, acked>>
    BY DEF WriteTmp, SaveStep
  <1>2. /\ job' \in [pc : JobSteps, kind : JobKinds, undo : Memories]
        /\ job'.pc = "rename" /\ job'.kind = job.kind /\ job'.undo = job.undo
    BY <1>1, Basics DEF JobSteps
  <1>3. VaultFileTypeOK'
    BY <1>1, <1>2, Basics, SealOf DEF VaultFileTypeOK
  <1>4. OneProcess' /\ AllSound' /\ MemoryMatchesFile' /\ AckedIsKept'
    BY <1>1, <1>2 DEF FileInv, OneProcess, AllSound, MemoryMatchesFile, AckedIsKept, Kept,
                      BackupHolds, Opens
  <1>5. SaveInHand' /\ RotationHolds'
    BY <1>1, <1>2 DEF FileInv, SaveInHand, RotationHolds, Rotating, Target, Opens, Sealed
  <1> QED
    BY <1>3, <1>4, <1>5 DEF FileInv

LEMMA RenameTmpKeeps == FileInv /\ RenameTmp => FileInv'
  <1> SUFFICES ASSUME FileInv, RenameTmp PROVE FileInv'
    OBVIOUS
  <1>1. /\ job.pc = "rename" /\ job' = [job EXCEPT !.pc = "syncdir"]
        /\ vault' = tmp /\ tmp' = Absent
        /\ UNCHANGED <<backup, durable, mem, up, cli, salts, acked>>
    BY DEF RenameTmp, SaveStep
  <1>2. /\ job' \in [pc : JobSteps, kind : JobKinds, undo : Memories]
        /\ job'.pc = "syncdir" /\ job'.kind = job.kind /\ job'.undo = job.undo
    BY <1>1, Basics DEF JobSteps
  <1>3. vault' = Sealed(mem) /\ mem.open /\ Sound(mem)
    BY <1>1 DEF FileInv, SaveInHand, OneProcess, AllSound
  <1>4. /\ vault' \in Files /\ IsEnvelope(vault') /\ Sound(vault')
        /\ vault'.key = mem.key /\ vault'.data = mem.data
    BY <1>3, SealOf, Basics
  <1>5. VaultFileTypeOK'
    BY <1>1, <1>2, <1>4, Basics DEF VaultFileTypeOK, Files
  <1>6. OneProcess' /\ AllSound' /\ MemoryMatchesFile' /\ SaveInHand'
    <2>1. OneProcess' /\ MemoryMatchesFile'
      BY <1>1, <1>2 DEF FileInv, OneProcess, MemoryMatchesFile
    <2>2. AllSound'
      BY <1>1, <1>4 DEF FileInv, AllSound, IsEnvelope, Sound
    <2>3. Sealed(mem)' = Sealed(mem)
      BY <1>1 DEF Sealed
    <2>4. SaveInHand'
      BY <1>1, <1>2, <1>3, <2>3 DEF FileInv, SaveInHand
    <2> QED
      BY <2>1, <2>2, <2>4
  <1>7. RotationHolds'
    <2>1. ASSUME cli.result # "none" PROVE Opens(vault', Target)
      <3>1. cli.pc = "idle" /\ Opens(vault, Target)
        BY <2>1 DEF FileInv, RotationHolds
      <3>2. Target \in Passes
        BY <2>1 DEF FileInv, RotationHolds, Target
      <3>3. vault.key.pass = Target /\ IsEnvelope(vault)
        BY <3>1, <3>2, FileOf, Basics
      <3>4. job.kind \in {"change", "migrate"}
        BY <1>1, <3>1, <3>3 DEF FileInv, OneProcess, SaveInHand, IsEnvelope
      <3>5. mem.key.pass = job.undo.key.pass /\ vault = Sealed(job.undo)
        BY <1>1, <3>4 DEF FileInv, SaveInHand
      <3>6. mem.key.pass = Target
        BY <3>3, <3>5, SealOf, Basics
      <3> QED
        BY <1>4, <3>2, <3>6, FileOf
    <2> QED
      BY <1>1, <1>2, <2>1 DEF FileInv, RotationHolds, Rotating, Target
  <1>8. AckedIsKept'
    BY <1>1, <1>3, <1>4 DEF FileInv, AckedIsKept, Kept, BackupHolds, Opens, IsEnvelope
  <1> QED
    BY <1>5, <1>6, <1>7, <1>8 DEF FileInv

\* Everything but what is kept depends on the durable file not at all.
LEMMA SyncDirKeeps == FileInv /\ SyncDir => FileInv'
  <1> SUFFICES ASSUME FileInv, SyncDir PROVE FileInv'
    OBVIOUS
  <1>1. /\ job.pc = "syncdir" /\ job' = NoJob
        /\ cli' = IF job.kind = "rotate" THEN [cli EXCEPT !.pc = "rotated"] ELSE cli
        /\ UNCHANGED <<vault, tmp, backup, mem, up, salts>>
        /\ (durable' = vault /\ acked' = mem.data) \/ UNCHANGED <<durable, acked>>
    BY DEF SyncDir
  <1>2. /\ NoJob \in [pc : JobSteps, kind : JobKinds, undo : Memories] /\ NoJob.pc = "idle"
    BY LockedOf DEF NoJob, JobSteps, JobKinds
  <1>3. vault = Sealed(mem) /\ mem.open /\ Sound(mem) /\ IsEnvelope(vault) /\ vault.data = mem.data
    BY <1>1, SealOf, Basics DEF FileInv, SaveInHand, OneProcess, AllSound
  <1>4. /\ cli' \in [pc : CliSteps, cur : Passes \cup {NoPass}, new : Passes \cup {NoPass},
                     orig : Files, result : Results, runs : Nat]
        /\ cli'.cur = cli.cur /\ cli'.new = cli.new /\ cli'.orig = cli.orig
        /\ cli'.result = cli.result
        /\ cli'.pc = IF job.kind = "rotate" THEN "rotated" ELSE cli.pc
    BY <1>1, Basics DEF CliSteps
  <1>5. job.kind = "rotate" => cli.pc = "backed"
    BY <1>1 DEF FileInv, OneProcess
  <1>6. VaultFileTypeOK'
    BY <1>1, <1>2, <1>4, Basics DEF VaultFileTypeOK
  <1>7. OneProcess' /\ AllSound' /\ MemoryMatchesFile' /\ SaveInHand'
    BY <1>1, <1>2, <1>3, <1>4, <1>5
    DEF FileInv, OneProcess, AllSound, MemoryMatchesFile, SaveInHand, Sealed
  <1>8. RotationHolds'
    BY <1>1, <1>2, <1>4, <1>5, Basics
    DEF FileInv, OneProcess, RotationHolds, Rotating, Target, Opens, CliSteps
  <1>9. AckedIsKept'
    BY <1>1, <1>3, Basics DEF FileInv, AckedIsKept, Kept, BackupHolds, Opens, IsEnvelope
  <1> QED
    BY <1>6, <1>7, <1>8, <1>9 DEF FileInv

LEMMA SaveFailsKeeps == FileInv /\ SaveFails => FileInv'
  <1> SUFFICES ASSUME FileInv, SaveFails PROVE FileInv'
    OBVIOUS
  <1>1. /\ job.pc \in {"create", "write", "rename"} /\ job' = NoJob
        /\ tmp' \in {tmp, Torn}
        /\ mem' = IF job.kind = "rotate" THEN Locked ELSE job.undo
        /\ cli' = IF job.kind = "rotate"
                    THEN [cli EXCEPT !.pc = "idle", !.result = "failed"] ELSE cli
        /\ UNCHANGED <<vault, backup, durable, up, salts, acked>>
    BY DEF SaveFails, UndoSave
  <1>2. /\ NoJob \in [pc : JobSteps, kind : JobKinds, undo : Memories] /\ NoJob.pc = "idle"
    BY LockedOf DEF NoJob, JobSteps, JobKinds
  <1>3. /\ IF job.kind = "init" THEN vault = Absent /\ job.undo = Locked
           ELSE vault = Sealed(job.undo) /\ job.undo.open
        /\ mem.open /\ Sound(mem)
    BY <1>1 DEF FileInv, SaveInHand, OneProcess, AllSound
  <1>4. job.kind # "init" => /\ IsEnvelope(vault) /\ Sound(vault) /\ Sound(job.undo)
                             /\ vault.data = job.undo.data /\ vault.key = job.undo.key
    BY <1>3, SealOf, Basics DEF FileInv, AllSound
  <1>5. /\ cli' \in [pc : CliSteps, cur : Passes \cup {NoPass}, new : Passes \cup {NoPass},
                     orig : Files, result : Results, runs : Nat]
        /\ cli'.cur = cli.cur /\ cli'.new = cli.new /\ cli'.orig = cli.orig
        /\ cli'.result = IF job.kind = "rotate" THEN "failed" ELSE cli.result
        /\ cli'.pc = IF job.kind = "rotate" THEN "idle" ELSE cli.pc
    BY <1>1, Basics DEF CliSteps, Results
  <1>6. mem' \in Memories /\ mem'.key = deriveKey(mem'.key.pass, mem'.salt, mem'.ver)
    BY <1>1, <1>3, <1>4, LockedOf, Basics DEF Sound
  <1>7. VaultFileTypeOK'
    BY <1>1, <1>2, <1>5, <1>6, Basics DEF VaultFileTypeOK, Files
  <1>8. \/ job.kind \in {"change", "init"} /\ up
        \/ job.kind = "migrate" /\ (up \/ cli.pc = "opened")
        \/ job.kind = "rotate" /\ cli.pc = "backed"
    BY <1>1 DEF FileInv, OneProcess
  <1>9. OneProcess' /\ AllSound' /\ SaveInHand'
    BY <1>1, <1>2, <1>3, <1>4, <1>5, <1>8, LockedOf
    DEF FileInv, OneProcess, AllSound, SaveInHand, Sound
  <1>10. MemoryMatchesFile'
    <2>1. ~Locked.open
      BY LockedOf
    <2>2. CASE job.kind \in {"rotate", "init"}
      BY <1>1, <1>3, <2>1, <2>2 DEF MemoryMatchesFile
    <2>3. CASE job.kind \notin {"rotate", "init"}
      BY <1>1, <1>3, <2>3 DEF MemoryMatchesFile, Sealed
    <2> QED
      BY <2>2, <2>3
  <1>11. RotationHolds'
    <2>1. CASE job.kind = "rotate"
      <3>1. /\ cli.pc = "backed" /\ cli.cur # cli.new /\ {cli.cur, cli.new} \subseteq Passes
            /\ job.undo.key.pass = cli.cur
        BY <1>1, <1>8, <2>1 DEF FileInv, OneProcess, RotationHolds, Rotating, SaveInHand
      <3>2. Opens(vault, cli.cur)
        BY <1>4, <2>1, <3>1, FileOf, Basics
      <3> QED
        BY <1>1, <1>5, <2>1, <3>1, <3>2 DEF RotationHolds, Rotating, Target, Opens
    <2>2. CASE job.kind \in {"change", "migrate"}
      <3>1. mem'.key.pass = mem.key.pass /\ cli' = cli /\ ~Rotating
        BY <1>1, <1>8, <2>2 DEF FileInv, SaveInHand, OneProcess, Rotating
      <3> QED
        BY <1>1, <3>1 DEF FileInv, RotationHolds, Rotating, Target, Opens
    <2>3. CASE job.kind = "init"
      BY <1>1, <1>8, <2>3 DEF FileInv, RotationHolds, Rotating, OneProcess, Target, Opens
    <2> QED
      BY <1>8, <2>1, <2>2, <2>3
  <1>12. AckedIsKept'
    BY <1>1, <1>3, <1>4, LockedOf, Basics
    DEF FileInv, AckedIsKept, Kept, BackupHolds, Opens, IsEnvelope
  <1> QED
    BY <1>7, <1>9, <1>10, <1>11, <1>12 DEF FileInv

-----------------------------------------------------------------------------
(* A process that dies, or locks, takes its memory and its save along.     *)
LEMMA DeathKeeps ==
    ASSUME FileInv, mem' = Locked, job' = NoJob \/ (job.pc = "idle" /\ job' = job),
           cli' \in [pc : CliSteps, cur : Passes \cup {NoPass}, new : Passes \cup {NoPass},
                     orig : Files, result : Results, runs : Nat],
           cli'.pc = "idle", cli'.cur = cli.cur, cli'.new = cli.new,
           up' \in BOOLEAN,
           UNCHANGED <<tmp, backup, durable, salts>>,
           vault' \in Files, IsEnvelope(vault') => Sound(vault'),
           cli'.result # "none" =>
               /\ {cli.cur, cli.new} \subseteq Passes /\ cli.cur # cli.new
               /\ Opens(vault', IF cli'.result = "ok" THEN cli.new ELSE cli.cur),
           acked' \in {acked, Absent}, acked' # Absent => Kept(vault')
    PROVE  FileInv'
  <1>1. /\ NoJob \in [pc : JobSteps, kind : JobKinds, undo : Memories] /\ NoJob.pc = "idle"
    BY LockedOf DEF NoJob, JobSteps, JobKinds
  <1>2. VaultFileTypeOK'
    BY <1>1, LockedOf, Basics DEF VaultFileTypeOK
  <1>3. job'.pc = "idle" /\ ~mem'.open
    BY <1>1, LockedOf
  <1>4. OneProcess' /\ AllSound' /\ SaveInHand' /\ MemoryMatchesFile'
    BY <1>3 DEF FileInv, OneProcess, AllSound, SaveInHand, MemoryMatchesFile, Sound, IsEnvelope
  <1>5. RotationHolds'
    BY DEF RotationHolds, Rotating, Target, Opens
  <1>6. AckedIsKept'
    BY <1>3 DEF FileInv, AckedIsKept, Kept, BackupHolds, Opens, IsEnvelope
  <1> QED
    BY <1>2, <1>4, <1>5, <1>6 DEF FileInv

LEMMA EndCliOf ==
    ASSUME FileInv, NEW result \in Results
    PROVE  /\ EndCli(result) \in [pc : CliSteps, cur : Passes \cup {NoPass},
                                  new : Passes \cup {NoPass}, orig : Files,
                                  result : Results, runs : Nat]
           /\ EndCli(result).pc = "idle" /\ EndCli(result).result = result
           /\ EndCli(result).cur = cli.cur /\ EndCli(result).new = cli.new
  BY Basics DEF EndCli, CliSteps

\* Every way to stop, and every answer that ends with locked secrets.
LEMMA EndsKeep ==
    ASSUME FileInv, StopServer \/ PowerCut \/ KillRotate \/ RotateRefused \/ RotateVerified
    PROVE  FileInv'
  <1>1. /\ IsEnvelope(vault) => Sound(vault)
        /\ IsEnvelope(durable) => Sound(durable)
        /\ cli.result # "none" =>
               /\ cli.pc = "idle" /\ {cli.cur, cli.new} \subseteq Passes /\ cli.cur # cli.new
               /\ Opens(vault, IF cli.result = "ok" THEN cli.new ELSE cli.cur)
        /\ acked # Absent => Kept(vault) /\ Kept(durable)
        /\ cli.pc # "idle" => ~up /\ {cli.cur, cli.new} \subseteq Passes
    BY DEF FileInv, AllSound, RotationHolds, Target, AckedIsKept, OneProcess
  <1>2. "none" \in Results /\ "ok" \in Results
    BY DEF Results
  <1>3. CASE StopServer
    BY <1>1, <1>3, DeathKeeps, Basics DEF StopServer, Die, files
  <1>4. CASE PowerCut
    BY <1>1, <1>2, <1>4, DeathKeeps, EndCliOf, Basics DEF PowerCut, Die
  <1>5. CASE KillRotate
    BY <1>1, <1>2, <1>5, DeathKeeps, EndCliOf, Basics DEF KillRotate, Die, files
  <1>6. CASE RotateRefused
    BY <1>1, <1>2, <1>6, DeathKeeps, EndCliOf, Basics DEF RotateRefused, files
  <1>7. CASE RotateVerified
    <2>1. cli.cur # cli.new /\ job.pc = "idle" /\ {cli.cur, cli.new} \subseteq Passes
      BY <1>7 DEF RotateVerified, FileInv, RotationHolds, Rotating, OneProcess
    <2> QED
      BY <1>1, <1>2, <1>7, <2>1, DeathKeeps, EndCliOf, Basics DEF RotateVerified, files
  <1> QED
    BY <1>3, <1>4, <1>5, <1>6, <1>7

LEMMA LockOrResetKeeps == FileInv /\ (Lock \/ Reset) => FileInv'
  <1> SUFFICES ASSUME FileInv, Lock \/ Reset PROVE FileInv'
    OBVIOUS
  <1>1. /\ up /\ job.pc = "idle" /\ mem' = Locked /\ UNCHANGED <<tmp, backup, durable, job, up, salts>>
        /\ \/ UNCHANGED <<vault, acked, cli>>
           \/ vault' = Absent /\ acked' = Absent /\ cli' = [cli EXCEPT !.result = "none"]
    BY DEF Lock, Reset, Serving, files
  <1>2. /\ IsEnvelope(vault) => Sound(vault)
        /\ cli.result # "none" =>
               /\ cli.pc = "idle" /\ {cli.cur, cli.new} \subseteq Passes /\ cli.cur # cli.new
               /\ Opens(vault, IF cli.result = "ok" THEN cli.new ELSE cli.cur)
        /\ acked # Absent => Kept(vault)
        /\ cli.pc = "idle"
    BY <1>1 DEF FileInv, AllSound, RotationHolds, Target, AckedIsKept, OneProcess
  <1>3. CASE UNCHANGED <<vault, acked, cli>>
    BY <1>1, <1>2, <1>3, DeathKeeps, Basics
  <1>4. CASE vault' = Absent /\ acked' = Absent /\ cli' = [cli EXCEPT !.result = "none"]
    <2>1. /\ cli' \in [pc : CliSteps, cur : Passes \cup {NoPass}, new : Passes \cup {NoPass},
                       orig : Files, result : Results, runs : Nat]
          /\ cli'.pc = "idle" /\ cli'.result = "none" /\ cli'.cur = cli.cur /\ cli'.new = cli.new
      BY <1>2, <1>4, Basics DEF Results
    <2>2. Absent \in Files /\ ~IsEnvelope(Absent)
      BY DEF Files, IsEnvelope
    <2> QED
      BY <1>1, <1>4, <2>1, <2>2, DeathKeeps, Basics
  <1> QED
    BY <1>1, <1>3, <1>4

-----------------------------------------------------------------------------
(* A save that begins: m replaces the memory undo, which is what the file  *)
(* holds.                                                                  *)
LEMMA SaveBegins ==
    ASSUME FileInv, NEW m \in Memories, NEW undo \in Memories, NEW kind \in JobKinds,
           BeginSave(m, kind, undo), m.open, Sound(m),
           IF kind = "init" THEN vault = Absent /\ undo = Locked
           ELSE vault = Sealed(undo) /\ undo.open,
           kind \in {"change", "migrate"} => m.key.pass = undo.key.pass,
           kind \in {"change", "migrate", "rotate"} => m.data >= undo.data,
           kind = "rotate" => undo.data = m.data /\ undo.key.pass = cli'.cur,
           acked # Absent => m.data >= acked,
           UNCHANGED <<vault, tmp, backup, durable, up, acked>>, salts' \in Nat,
           cli' \in [pc : CliSteps, cur : Passes \cup {NoPass}, new : Passes \cup {NoPass},
                     orig : Files, result : Results, runs : Nat]
    PROVE  /\ VaultFileTypeOK' /\ AllSound' /\ SaveInHand' /\ MemoryMatchesFile' /\ AckedIsKept'
           /\ mem' = m /\ job'.pc = "create" /\ job'.kind = kind
  <1>1. mem' = m /\ job' = [pc |-> "create", kind |-> kind, undo |-> undo]
    BY DEF BeginSave
  <1>2. /\ job' \in [pc : JobSteps, kind : JobKinds, undo : Memories]
        /\ job'.pc = "create" /\ job'.kind = kind /\ job'.undo = undo
    BY <1>1 DEF JobSteps
  <1>3. VaultFileTypeOK'
    BY <1>1, <1>2, Basics DEF VaultFileTypeOK, Sound
  <1>4. AllSound' /\ SaveInHand' /\ MemoryMatchesFile'
    BY <1>1, <1>2 DEF FileInv, AllSound, SaveInHand, MemoryMatchesFile, Sound, Sealed
  <1>5. AckedIsKept'
    BY <1>1 DEF FileInv, AckedIsKept, Kept, BackupHolds, Opens, IsEnvelope
  <1> QED
    BY <1>1, <1>2, <1>3, <1>4, <1>5

(* Unlock: what the memory holds next is what the file holds, or what the  *)
(* migration is about to write under the same passphrase.                  *)
LEMMA UnlockKeeps ==
    ASSUME FileInv, job.pc = "idle", NEW pass \in Passes, Unlock(pass),
           UNCHANGED <<vault, tmp, backup, durable, up, salts, acked>>,
           cli' \in [pc : CliSteps, cur : Passes \cup {NoPass}, new : Passes \cup {NoPass},
                     orig : Files, result : Results, runs : Nat]
    PROVE  /\ VaultFileTypeOK' /\ AllSound' /\ SaveInHand' /\ MemoryMatchesFile' /\ AckedIsKept'
           /\ mem'.open /\ mem'.key.pass = pass /\ vault.key.pass = pass
           /\ job' = job \/ (job'.pc # "idle" /\ job'.kind = "migrate")
  <1> DEFINE m == [open |-> TRUE, key |-> vault.key, salt |-> vault.salt,
                   ver |-> vault.ver, data |-> vault.data]
  <1>1. /\ Opens(vault, pass)
        /\ IF vault.ver < CurrentVersion
             THEN BeginSave([m EXCEPT !.key = deriveKey(pass, m.salt, CurrentVersion),
                                      !.ver = CurrentVersion], "migrate", m)
             ELSE mem' = m /\ job' = job
    BY DEF Unlock
  <1>2. /\ IsEnvelope(vault) /\ Sound(vault) /\ vault.key.pass = pass
        /\ vault.ver \in Versions /\ vault.salt \in Nat
        /\ vault.key \in DerivedKeys /\ vault.data \in Nat
        /\ vault = [ver |-> vault.ver, salt |-> vault.salt, key |-> vault.key,
                    data |-> vault.data]
    BY <1>1, FileOf, Basics
  <1>3. /\ m \in Memories /\ m.open /\ m.key = vault.key /\ m.salt = vault.salt
        /\ m.ver = vault.ver /\ m.data = vault.data
    BY <1>2 DEF Memories
  <1>4. Sealed(m) = vault /\ Sound(m)
    BY <1>2 DEF Sealed, Sound
  <1>5. CurrentVersion \in Versions
    BY DEF CurrentVersion, Versions
  <1>6. acked # Absent => m.data >= acked
    BY <1>2, <1>3 DEF FileInv, AckedIsKept, Kept
  <1> HIDE DEF m
  <1>7. CASE vault.ver < CurrentVersion
    <2> DEFINE k == deriveKey(pass, m.salt, CurrentVersion)
    <2>1. k \in DerivedKeys /\ k.pass = pass
      BY <1>2, <1>3, <1>5, KeyDerived
    <2>2. Sound([m EXCEPT !.key = k, !.ver = CurrentVersion])
      BY <1>3, <1>5, <2>1 DEF Sound, Memories
    <2> HIDE DEF k
    <2>3. /\ [m EXCEPT !.key = k, !.ver = CurrentVersion] \in Memories
          /\ [m EXCEPT !.key = k, !.ver = CurrentVersion].open
          /\ [m EXCEPT !.key = k, !.ver = CurrentVersion].key.pass = pass
          /\ [m EXCEPT !.key = k, !.ver = CurrentVersion].data = m.data
      BY <1>3, <1>5, <2>1 DEF Memories
    <2>4. BeginSave([m EXCEPT !.key = k, !.ver = CurrentVersion], "migrate", m)
      BY <1>1, <1>7 DEF k, m
    <2> DEFINE w == [m EXCEPT !.key = k, !.ver = CurrentVersion]
    <2>5. /\ w \in Memories /\ w.open /\ Sound(w) /\ w.key.pass = pass /\ w.data = m.data
          /\ BeginSave(w, "migrate", m) /\ "migrate" \in JobKinds /\ m.data \in Nat
      BY <2>2, <2>3, <2>4, <1>2, <1>3 DEF JobKinds
    <2> HIDE DEF w
    <2>6. w.data >= m.data /\ m.key.pass = pass /\ salts' \in Nat
      BY <2>5, <1>2, <1>3, Basics
    <2>7. /\ VaultFileTypeOK' /\ AllSound' /\ SaveInHand' /\ MemoryMatchesFile' /\ AckedIsKept'
          /\ mem' = w /\ job'.pc = "create" /\ job'.kind = "migrate"
      BY <1>3, <1>4, <1>6, <2>5, <2>6, SaveBegins
    <2> QED
      BY <1>2, <2>5, <2>7
  <1>8. CASE ~(vault.ver < CurrentVersion)
    <2>1. mem' = m /\ job' = job
      BY <1>1, <1>8 DEF m
    <2>2. VaultFileTypeOK'
      BY <1>3, <1>4, <2>1, Basics DEF VaultFileTypeOK, Sound
    <2>3. AllSound' /\ SaveInHand' /\ MemoryMatchesFile'
      BY <1>3, <1>4, <2>1 DEF FileInv, AllSound, SaveInHand, MemoryMatchesFile, Sound, Sealed
    <2>4. AckedIsKept'
      BY <1>3, <1>6, <2>1 DEF FileInv, AckedIsKept, Kept, BackupHolds, Opens, IsEnvelope
    <2> QED
      BY <1>2, <1>3, <2>1, <2>2, <2>3, <2>4
  <1> QED
    BY <1>7, <1>8

LEMMA UnlockServerKeeps == FileInv /\ (\E pass \in Passes : UnlockServer(pass)) => FileInv'
  <1> SUFFICES ASSUME FileInv, NEW pass \in Passes, UnlockServer(pass) PROVE FileInv'
    OBVIOUS
  <1>1. /\ up /\ job.pc = "idle" /\ Unlock(pass)
        /\ UNCHANGED <<vault, tmp, backup, durable, up, cli, salts, acked>>
    BY DEF UnlockServer, Serving, files
  <1>2. /\ VaultFileTypeOK' /\ AllSound' /\ SaveInHand' /\ MemoryMatchesFile' /\ AckedIsKept'
        /\ mem'.open
        /\ job' = job \/ (job'.pc # "idle" /\ job'.kind = "migrate")
    BY <1>1, UnlockKeeps, Basics
  <1>3. cli.pc = "idle"
    BY <1>1 DEF FileInv, OneProcess
  <1>4. OneProcess' /\ RotationHolds'
    BY <1>1, <1>2, <1>3 DEF FileInv, OneProcess, RotationHolds, Rotating, Target, Opens
  <1> QED
    BY <1>2, <1>4 DEF FileInv

LEMMA CreateVaultFileKeeps == FileInv /\ (\E pass \in Passes : CreateVaultFile(pass)) => FileInv'
  <1> SUFFICES ASSUME FileInv, NEW pass \in Passes, CreateVaultFile(pass) PROVE FileInv'
    OBVIOUS
  <1> DEFINE k == deriveKey(pass, salts', CurrentVersion)
             m == [open |-> TRUE, key |-> k, salt |-> salts', ver |-> CurrentVersion, data |-> 0]
  <1>1. /\ up /\ job.pc = "idle" /\ vault = Absent /\ salts' = salts + 1
        /\ BeginSave(m, "init", Locked)
        /\ UNCHANGED <<vault, tmp, backup, durable, up, cli, acked>>
    BY DEF CreateVaultFile, Serving, files, FreshSalt
  <1>2. salts' \in Nat /\ CurrentVersion \in Versions /\ "init" \in JobKinds
    BY <1>1, Basics DEF CurrentVersion, Versions, JobKinds
  <1>3. k \in DerivedKeys /\ k.pass = pass
    BY <1>2, KeyDerived
  <1>4. m \in Memories /\ m.open /\ Sound(m) /\ m.data = 0
    BY <1>2, <1>3 DEF Memories, Sound
  <1>5. acked = Absent
    BY <1>1 DEF FileInv, AckedIsKept, Kept
  <1>6. /\ VaultFileTypeOK' /\ AllSound' /\ SaveInHand' /\ MemoryMatchesFile' /\ AckedIsKept'
        /\ mem' = m /\ job'.pc = "create" /\ job'.kind = "init"
    <2> HIDE DEF m
    <2> QED
      BY <1>1, <1>2, <1>4, <1>5, LockedOf, SaveBegins, Basics
  <1>7. cli.pc = "idle"
    BY <1>1 DEF FileInv, OneProcess
  <1>8. OneProcess' /\ RotationHolds'
    BY <1>1, <1>4, <1>6, <1>7 DEF FileInv, OneProcess, RotationHolds, Rotating, Target, Opens
  <1> QED
    BY <1>6, <1>8 DEF FileInv

LEMMA ChangeKeeps == FileInv /\ Change => FileInv'
  <1> SUFFICES ASSUME FileInv, Change PROVE FileInv'
    OBVIOUS
  <1> DEFINE m == [mem EXCEPT !.data = @ + 1]
  <1>1. /\ up /\ job.pc = "idle" /\ mem.open /\ BeginSave(m, "change", mem)
        /\ UNCHANGED <<vault, tmp, backup, durable, up, cli, salts, acked>>
    BY DEF Change, Serving, files
  <1>2. /\ m \in Memories /\ m.open /\ m.key = mem.key /\ m.salt = mem.salt
        /\ m.ver = mem.ver /\ m.data = mem.data + 1
    BY <1>1, Basics DEF Memories
  <1>3. cli.pc = "idle" /\ Sound(mem) /\ vault = Sealed(mem)
    BY <1>1 DEF FileInv, OneProcess, AllSound, MemoryMatchesFile
  <1> HIDE DEF m
  <1>4. Sound(m) /\ m.data >= mem.data
    BY <1>2, <1>3, Basics DEF Sound
  <1>5. acked # Absent => m.data >= acked
    BY <1>1, <1>2, Basics DEF FileInv, AckedIsKept
  <1>6. /\ VaultFileTypeOK' /\ AllSound' /\ SaveInHand' /\ MemoryMatchesFile' /\ AckedIsKept'
        /\ mem' = m /\ job'.pc = "create" /\ job'.kind = "change"
    <2>1. "change" \in JobKinds
      BY DEF JobKinds
    <2> QED
      BY <1>1, <1>2, <1>3, <1>4, <1>5, <2>1, SaveBegins, Basics
  <1>7. OneProcess' /\ RotationHolds'
    BY <1>1, <1>2, <1>3, <1>6 DEF FileInv, OneProcess, RotationHolds, Rotating, Target, Opens
  <1> QED
    BY <1>6, <1>7 DEF FileInv

LEMMA StartServerKeeps == FileInv /\ StartServer => FileInv'
  BY DEF StartServer, files, FileInv, VaultFileTypeOK, OneProcess, AllSound, SaveInHand,
         MemoryMatchesFile, RotationHolds, Rotating, Target, AckedIsKept, Kept, BackupHolds,
         Opens, Sound, IsEnvelope, Sealed

-----------------------------------------------------------------------------
(* The rotate command.                                                     *)
LEMMA RotateOpensKeeps ==
    FileInv /\ (\E cur, new \in Passes : RotateOpens(cur, new)) => FileInv'
  <1> SUFFICES ASSUME FileInv, NEW cur \in Passes, NEW new \in Passes, RotateOpens(cur, new)
               PROVE  FileInv'
    OBVIOUS
  <1>1. /\ ~up /\ cli.pc = "idle" /\ Unlock(cur)
        /\ cli' = [pc |-> "opened", cur |-> cur, new |-> new, orig |-> Absent,
                   result |-> "none", runs |-> cli.runs + 1]
        /\ UNCHANGED <<vault, tmp, backup, durable, up, salts, acked>>
    BY DEF RotateOpens, files
  <1>2. job.pc = "idle"
    BY <1>1 DEF FileInv, OneProcess
  <1>3. cli' \in [pc : CliSteps, cur : Passes \cup {NoPass}, new : Passes \cup {NoPass},
                  orig : Files, result : Results, runs : Nat]
    BY <1>1, Basics DEF CliSteps, Results, Files
  <1>4. /\ VaultFileTypeOK' /\ AllSound' /\ SaveInHand' /\ MemoryMatchesFile' /\ AckedIsKept'
        /\ mem'.open /\ mem'.key.pass = cur
        /\ job' = job \/ (job'.pc # "idle" /\ job'.kind = "migrate")
    BY <1>1, <1>2, <1>3, UnlockKeeps
  <1>5. OneProcess' /\ RotationHolds'
    BY <1>1, <1>2, <1>4 DEF OneProcess, RotationHolds, Rotating
  <1> QED
    BY <1>4, <1>5 DEF FileInv

LEMMA RotateBacksUpKeeps == FileInv /\ RotateBacksUp => FileInv'
  <1> SUFFICES ASSUME FileInv, RotateBacksUp PROVE FileInv'
    OBVIOUS
  <1>1. /\ cli.pc = "opened" /\ job.pc = "idle" /\ cli.new # cli.cur /\ backup' = vault
        /\ cli' = [cli EXCEPT !.pc = "backed", !.orig = vault]
        /\ UNCHANGED <<vault, tmp, durable, mem, job, up, salts, acked>>
    BY DEF RotateBacksUp
  <1>2. /\ cli' \in [pc : CliSteps, cur : Passes \cup {NoPass}, new : Passes \cup {NoPass},
                     orig : Files, result : Results, runs : Nat]
        /\ cli'.pc = "backed" /\ cli'.orig = vault /\ cli'.cur = cli.cur /\ cli'.new = cli.new
        /\ cli'.result = cli.result
    BY <1>1, Basics DEF CliSteps
  <1>3. /\ mem.open /\ mem.key.pass = cli.cur /\ cli.cur \in Passes /\ cli.new \in Passes
        /\ vault = Sealed(mem) /\ Sound(mem) /\ cli.result = "none" /\ ~up
    BY <1>1 DEF FileInv, OneProcess, RotationHolds, MemoryMatchesFile, AllSound
  <1>4. Opens(vault, cli.cur) /\ vault.data = mem.data
    BY <1>3, SealOf, FileOf, Basics
  <1>5. VaultFileTypeOK'
    BY <1>1, <1>2, Basics DEF VaultFileTypeOK
  <1>6. OneProcess' /\ AllSound' /\ SaveInHand' /\ MemoryMatchesFile'
    BY <1>1, <1>2, <1>3 DEF FileInv, OneProcess, AllSound, SaveInHand, MemoryMatchesFile,
                            Sound, Sealed, IsEnvelope
  <1>7. RotationHolds'
    BY <1>1, <1>2, <1>3, <1>4 DEF RotationHolds, Rotating, Opens
  <1>8. AckedIsKept'
    BY <1>1, <1>3, <1>4 DEF FileInv, AckedIsKept, Kept, BackupHolds, Opens, IsEnvelope
  <1> QED
    BY <1>5, <1>6, <1>7, <1>8 DEF FileInv

LEMMA RotateKeeps == FileInv /\ Rotate => FileInv'
  <1> SUFFICES ASSUME FileInv, Rotate PROVE FileInv'
    OBVIOUS
  <1> DEFINE k == deriveKey(cli.new, salts', CurrentVersion)
             m == [[[mem EXCEPT !.key = k] EXCEPT !.salt = salts'] EXCEPT !.ver = CurrentVersion]
  <1>1. /\ cli.pc = "backed" /\ job.pc = "idle" /\ salts' = salts + 1
        /\ BeginSave([mem EXCEPT !.key = k, !.salt = salts', !.ver = CurrentVersion],
                     "rotate", mem)
        /\ UNCHANGED <<vault, tmp, backup, durable, up, cli, acked>>
    BY DEF Rotate, FreshSalt, files
  <1>2. /\ mem.open /\ Sound(mem) /\ vault = Sealed(mem) /\ mem.key.pass = cli.cur
        /\ cli.cur \in Passes /\ cli.new \in Passes /\ ~up /\ cli.result = "none"
    BY <1>1 DEF FileInv, OneProcess, AllSound, MemoryMatchesFile, RotationHolds
  <1>3. salts' \in Nat /\ CurrentVersion \in Versions /\ "rotate" \in JobKinds
    BY <1>1, Basics DEF CurrentVersion, Versions, JobKinds
  <1>4. k \in DerivedKeys /\ k.pass = cli.new
    BY <1>2, <1>3, KeyDerived
  <1> HIDE DEF k
  <1>5. /\ m \in Memories /\ m.open /\ m.key = k /\ m.salt = salts'
        /\ m.ver = CurrentVersion /\ m.data = mem.data
    BY <1>2, <1>3, <1>4, Basics DEF Memories
  <1>6. m = [mem EXCEPT !.key = k, !.salt = salts', !.ver = CurrentVersion]
    OBVIOUS
  <1>7. BeginSave(m, "rotate", mem)
    BY <1>1, <1>6
  <1> HIDE DEF m
  <1>8. Sound(m)
    BY <1>2, <1>4, <1>5 DEF Sound, k
  <1>9. /\ VaultFileTypeOK' /\ AllSound' /\ SaveInHand' /\ MemoryMatchesFile' /\ AckedIsKept'
        /\ mem' = m /\ job'.pc = "create" /\ job'.kind = "rotate"
    <2>1. acked # Absent => m.data >= acked
      BY <1>2, <1>5 DEF FileInv, AckedIsKept
    <2>2. m.data >= mem.data /\ mem \in Memories
      BY <1>5, Basics
    <2> QED
      BY <1>1, <1>2, <1>3, <1>5, <1>7, <1>8, <2>1, <2>2, SaveBegins, Basics
  <1>10. OneProcess' /\ RotationHolds'
    BY <1>1, <1>2, <1>4, <1>5, <1>9 DEF FileInv, OneProcess, RotationHolds, Rotating, Target, Opens
  <1> QED
    BY <1>9, <1>10 DEF FileInv

LEMMA VerifyFailsKeeps == FileInv /\ VerifyFails => FileInv'
  <1> SUFFICES ASSUME FileInv, VerifyFails PROVE FileInv'
    OBVIOUS
  <1>1. /\ cli.pc = "rotated" /\ cli' = [cli EXCEPT !.pc = "restore"]
        /\ UNCHANGED <<vault, tmp, backup, durable, mem, job, up, salts, acked>>
    BY DEF VerifyFails, files
  <1>2. /\ cli' \in [pc : CliSteps, cur : Passes \cup {NoPass}, new : Passes \cup {NoPass},
                     orig : Files, result : Results, runs : Nat]
        /\ cli'.pc = "restore" /\ cli'.orig = cli.orig /\ cli'.cur = cli.cur
        /\ cli'.new = cli.new /\ cli'.result = cli.result
    BY <1>1, Basics DEF CliSteps
  <1>3. job.pc = "idle"
    BY <1>1 DEF FileInv, OneProcess
  <1>4. VaultFileTypeOK'
    BY <1>1, <1>2, Basics DEF VaultFileTypeOK
  <1> QED
    BY <1>1, <1>2, <1>3, <1>4
    DEF FileInv, OneProcess, AllSound, SaveInHand, MemoryMatchesFile, RotationHolds, Rotating,
        Target, AckedIsKept, Kept, BackupHolds, Opens, Sound, IsEnvelope, Sealed

(* While the original is being put back nothing but the backup is sure.    *)
LEMMA RestoreTruncatesKeeps == FileInv /\ RestoreTruncates => FileInv'
  <1> SUFFICES ASSUME FileInv, RestoreTruncates PROVE FileInv'
    OBVIOUS
  <1>1. /\ cli.pc = "restore" /\ vault' = Empty /\ durable' = Torn
        /\ cli' = [cli EXCEPT !.pc = "refill"]
        /\ UNCHANGED <<tmp, backup, mem, job, up, salts, acked>>
    BY DEF RestoreTruncates
  <1>2. /\ cli' \in [pc : CliSteps, cur : Passes \cup {NoPass}, new : Passes \cup {NoPass},
                     orig : Files, result : Results, runs : Nat]
        /\ cli'.pc = "refill" /\ cli'.orig = cli.orig /\ cli'.cur = cli.cur
        /\ cli'.new = cli.new /\ cli'.result = cli.result
    BY <1>1, Basics DEF CliSteps
  <1>3. /\ job.pc = "idle" /\ mem.open /\ cli.cur \in Passes /\ cli.result = "none"
        /\ cli.cur # cli.new /\ backup = cli.orig
        /\ Opens(cli.orig, cli.cur) /\ cli.orig.data = mem.data
    BY <1>1 DEF FileInv, OneProcess, RotationHolds, Rotating
  <1>4. acked # Absent => BackupHolds
    BY <1>3 DEF FileInv, AckedIsKept, BackupHolds
  <1>5. VaultFileTypeOK' /\ ~IsEnvelope(vault') /\ ~IsEnvelope(durable')
        /\ vault' # Absent /\ durable' # Absent
    BY <1>1, <1>2, Basics, VaultFileAssumption DEF VaultFileTypeOK, Files, IsEnvelope
  <1>6. OneProcess' /\ AllSound' /\ SaveInHand' /\ MemoryMatchesFile'
    BY <1>1, <1>2, <1>3, <1>5 DEF FileInv, OneProcess, AllSound, SaveInHand, MemoryMatchesFile,
                                  Sound, IsEnvelope
  <1>7. RotationHolds'
    BY <1>1, <1>2, <1>3 DEF RotationHolds, Rotating, Opens
  <1>8. AckedIsKept'
    BY <1>1, <1>4, <1>5 DEF FileInv, AckedIsKept, Kept, BackupHolds, Opens, IsEnvelope
  <1> QED
    BY <1>5, <1>6, <1>7, <1>8 DEF FileInv

LEMMA RestoreRefillsKeeps == FileInv /\ RestoreRefills => FileInv'
  <1> SUFFICES ASSUME FileInv, RestoreRefills PROVE FileInv'
    OBVIOUS
  <1>1. /\ cli.pc = "refill" /\ mem' = Locked
        /\ \/ vault' = cli.orig /\ cli' = EndCli("restored")
           \/ vault' \in {vault, Torn} /\ cli' = EndCli("none")
        /\ UNCHANGED <<tmp, backup, durable, job, up, salts, acked>>
    BY DEF RestoreRefills
  <1>2. /\ job.pc = "idle" /\ mem.open /\ {cli.cur, cli.new} \subseteq Passes
        /\ cli.cur # cli.new /\ backup = cli.orig
        /\ Opens(cli.orig, cli.cur) /\ cli.orig.data = mem.data
        /\ IsEnvelope(vault) => Sound(vault)
    BY <1>1 DEF FileInv, OneProcess, RotationHolds, Rotating, AllSound
  <1>3. IsEnvelope(cli.orig) /\ Sound(cli.orig) /\ cli.orig # Absent
    BY <1>2, FileOf, Basics DEF IsEnvelope
  <1>4. acked # Absent => BackupHolds /\ Kept(vault) /\ cli.orig.data >= acked
    BY <1>2 DEF FileInv, AckedIsKept, BackupHolds
  <1>5. Torn \in Files /\ ~IsEnvelope(Torn) /\ Torn # Absent
    BY VaultFileAssumption DEF Files, IsEnvelope
  <1>6. /\ vault' \in Files /\ (IsEnvelope(vault') => Sound(vault'))
        /\ acked # Absent => Kept(vault')
    BY <1>1, <1>2, <1>3, <1>4, <1>5, Basics DEF Kept
  <1>7. "restored" \in Results /\ "none" \in Results
    BY DEF Results
  <1>8. CASE vault' = cli.orig /\ cli' = EndCli("restored")
    BY <1>1, <1>2, <1>6, <1>7, <1>8, DeathKeeps, EndCliOf, Basics
  <1>9. CASE vault' \in {vault, Torn} /\ cli' = EndCli("none")
    BY <1>1, <1>2, <1>6, <1>7, <1>9, DeathKeeps, EndCliOf, Basics
  <1> QED
    BY <1>1, <1>8, <1>9

-----------------------------------------------------------------------------
LEMMA StutterKeeps == FileInv /\ UNCHANGED vaultFileVars => FileInv'
  BY DEF vaultFileVars, FileInv, VaultFileTypeOK, OneProcess, AllSound, SaveInHand,
         MemoryMatchesFile, RotationHolds, Rotating, Target, AckedIsKept, Kept, BackupHolds,
         Opens, Sound, IsEnvelope, Sealed

LEMMA StepFileInv == FileInv /\ [VaultFileNext]_vaultFileVars => FileInv'
  BY CreateTmpKeeps, WriteTmpKeeps, RenameTmpKeeps, SyncDirKeeps, SaveFailsKeeps, EndsKeep,
     LockOrResetKeeps, UnlockServerKeeps, CreateVaultFileKeeps, ChangeKeeps, StartServerKeeps,
     RotateOpensKeeps, RotateBacksUpKeeps, RotateKeeps, VerifyFailsKeeps,
     RestoreTruncatesKeeps, RestoreRefillsKeeps, StutterKeeps
  DEF VaultFileNext, Save, RotateStep

(* VaultFileInductive: what keeps the file, the memory, the backup and the *)
(* save in progress fitting one another, whoever dies and whatever fails.  *)
THEOREM VaultFileInductive == VaultFileSpec => []FileInv
  BY InitFileInv, StepFileInv, PTL DEF VaultFileSpec

(* FileAlwaysKept: the file is what the open vault would write whenever no *)
(* save is in progress, and no failed write, kill, power cut or rotation   *)
(* loses a payload that was answered ok and flushed.                       *)
THEOREM FileAlwaysKept == VaultFileSpec => []FileIsKept
  <1>1. FileInv => NothingLost
    <2> SUFFICES ASSUME FileInv, acked # Absent
                 PROVE  \E f \in {vault, backup}, pass \in Passes :
                            Opens(f, pass) /\ f.data >= acked
      BY DEF NothingLost
    <2>1. CASE IsEnvelope(vault)
      <3>1. Sound(vault) /\ vault.data >= acked
        BY <2>1 DEF FileInv, AllSound, AckedIsKept, Kept
      <3>2. Opens(vault, vault.key.pass) /\ vault.key.pass \in Passes
        BY <2>1, <3>1 DEF Opens, Sound
      <3> QED
        BY <3>1, <3>2
    <2>2. CASE ~IsEnvelope(vault)
      BY <2>2 DEF FileInv, AckedIsKept, Kept, BackupHolds
    <2> QED
      BY <2>1, <2>2
  <1>2. FileInv => FileIsKept
    BY <1>1 DEF FileInv, FileIsKept
  <1> QED
    BY VaultFileInductive, <1>2, PTL

(* RotationAlwaysTrue: a rotation that reports success has ended the old   *)
(* passphrase, one that reports failure has kept it, for as long as no     *)
(* other rotation begins and the vault is not wiped.                       *)
THEOREM RotationAlwaysTrue == VaultFileSpec => []RotateTellsTheTruth
  <1>1. ASSUME FileInv PROVE RotateTellsTheTruth
    <2>1. cli.result # "none" =>
              /\ {cli.cur, cli.new} \subseteq Passes /\ cli.cur # cli.new
              /\ Opens(vault, Target)
      BY <1>1 DEF FileInv, RotationHolds
    <2>2. CASE cli.result = "ok"
      <3>1. vault.key.pass = cli.new
        BY <1>1, <2>1, <2>2, FileOf, Basics DEF Target
      <3> QED
        BY <1>1, <2>1, <2>2, <3>1, FileOf, Basics
        DEF RotateTellsTheTruth, RotateEndsTheOldPassphrase, FailedRotateKeepsTheOldKey, Target
    <2>3. CASE cli.result # "ok"
      BY <2>1, <2>3
      DEF RotateTellsTheTruth, RotateEndsTheOldPassphrase, FailedRotateKeepsTheOldKey, Target
    <2> QED
      BY <2>2, <2>3
  <1> QED
    BY VaultFileInductive, <1>1, PTL

==============================================================================
