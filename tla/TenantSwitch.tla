---------------------------- MODULE TenantSwitch ----------------------------
(***************************************************************************)
(* Which Infoblox tenant this server speaks for, and how that changes.     *)
(*                                                                         *)
(* Three packages hold the answer and none of them holds all of it:        *)
(*   vault    the stored connections, and which of them is active          *)
(*   rest     the Authorization slot: an account-switch JWT (the           *)
(*            override) consulted before the active key, fenced by an epoch *)
(*   account  the portal account a person switched into; its mutex m.mu is *)
(*            held across the portal's answers                             *)
(* A vault transition commits under v.mu and then, still under switchMu,   *)
(* runs main's authReset in four steps that other goroutines interleave    *)
(* with.  A section run under v.mu, a.mu or c.mu is one action; switchMu   *)
(* and m.mu are held across calls, so their holders are variables.         *)
(***************************************************************************)
EXTENDS Naturals

CONSTANTS
    Tenants,    \* ids of stored connections
    Keys,       \* portal API keys a connection may hold
    Accounts,   \* CSP accounts
    NoTenant, NoKey, NoAccount, NoFile,
    Fallback,   \* the env API_KEY, or NoKey
    MemberOf,   \* MemberOf[k]: the accounts the portal lists for key k
    HomeOf,     \* HomeOf[k]: the account key k itself belongs to
    MaxEpoch,   \* bound: no vault transition begins from this epoch on
    MaxSwitches \* bound: an account switch begins while fewer than this many
                \* generations are not a transition's (two each)

ASSUME TenantSwitchAssumption ==
    /\ NoTenant \notin Tenants
    /\ NoKey \notin Keys
    /\ NoAccount \notin Accounts
    /\ Fallback \in Keys \cup {NoKey}
    /\ MemberOf \in [Keys -> SUBSET Accounts]
    /\ HomeOf \in [Keys -> Accounts]
    /\ \A k \in Keys : HomeOf[k] \in MemberOf[k]
    /\ MaxEpoch \in Nat /\ MaxSwitches \in Nat

VARIABLES
    unlocked,   \* vault.Vault.unlocked
    tenants,    \* vault.Vault.tenants: id -> key, for the stored ids
    active,     \* vault.Vault.active
    file,       \* what vault.json holds, or NoFile
    rot,        \* how far the holder of switchMu has got with authReset
    override,   \* rest.Auth.override
    epoch,      \* rest.Auth.overrideEpoch
    mgr,        \* account.Manager: home, homeVerified, active
    op,         \* the account operation holding m.mu
    gen         \* cache.Cache.gen

vaultVars == <<unlocked, tenants, active, file>>
authVars  == <<override, epoch>>
vars == <<unlocked, tenants, active, file, rot, override, epoch, mgr, op, gen>>

(* A credential is who signed it and the account it was minted for; the    *)
(* plain key acts in its own account ("-", vault.NoSwitch).                *)
NoSwitch == NoAccount
Credentials == [by : Keys \cup {NoKey}, acct : Accounts \cup {NoSwitch}]
NoCred == [by |-> NoKey, acct |-> NoSwitch]
Plain(k) == [by |-> k, acct |-> NoSwitch]

Stores == UNION {[S -> Keys] : S \in SUBSET Tenants}
Contents == [tenants : Stores, active : Tenants \cup {NoTenant}]
RotSteps == {"idle", "invalidate", "rotate1", "reset", "rotate2"}
OpSteps == {"idle", "list", "home", "decide", "post", "publish", "finish"}
OpStates == [pc : OpSteps, target : Accounts \cup {NoAccount},
             accts : SUBSET Accounts, epoch : Nat, jwt : Credentials]
Managers == [home : Accounts \cup {NoAccount}, verified : BOOLEAN,
             active : Accounts \cup {NoAccount}]

NoOp == [pc |-> "idle", target |-> NoAccount, accts |-> {}, epoch |-> 0,
         jwt |-> NoCred]
BlankManager == [home |-> NoAccount, verified |-> FALSE, active |-> NoAccount]
EmptyStore == [t \in {} |-> NoKey]

\* The active connection, if there is one, is a stored one.
ActiveIsStored ==
    /\ active \in DOMAIN tenants \cup {NoTenant}
    /\ file # NoFile => file.active \in DOMAIN file.tenants \cup {NoTenant}

(* TypeOK: every variable holds a value its Go field can hold, and no      *)
(* transition leaves vault.active naming a connection that is gone, which  *)
(* would silently hand the server to the env key (vault.ActiveKey).        *)
TypeOK ==
    /\ unlocked \in BOOLEAN
    /\ tenants \in Stores
    /\ active \in Tenants \cup {NoTenant}
    /\ file \in Contents \cup {NoFile}
    /\ rot \in RotSteps
    /\ override \in Credentials
    /\ epoch \in Nat
    /\ mgr \in Managers
    /\ op \in OpStates
    /\ gen \in Nat
    /\ ActiveIsStored

-----------------------------------------------------------------------------
(* vault.ActiveKey, rest.Auth.IdentityValue and rest.Auth.Value.           *)
ActiveKey == IF active \in DOMAIN tenants THEN tenants[active] ELSE NoKey

Identity == IF Fallback # NoKey THEN Fallback ELSE ActiveKey

Value ==
    IF override # NoCred THEN override
    ELSE IF ActiveKey # NoKey THEN Plain(ActiveKey)
    ELSE Plain(Fallback)

(* Some earlier run left a vault file, or none did, and AutoUnlock may have *)
(* opened it before the server listened.                                    *)
Saved(f) == f.active \in DOMAIN f.tenants
            \/ (f.active = NoTenant /\ DOMAIN f.tenants = {})

Init ==
    /\ file \in {NoFile} \cup {f \in Contents : Saved(f)}
    /\ unlocked \in {FALSE, file # NoFile}
    /\ tenants = IF unlocked THEN file.tenants ELSE EmptyStore
    /\ active = IF unlocked THEN file.active ELSE NoTenant
    /\ rot = "idle"
    /\ override = NoCred
    /\ epoch = 0
    /\ mgr = BlankManager
    /\ op = NoOp
    /\ gen = 0

-----------------------------------------------------------------------------
(* Vault transitions.  Each takes switchMu (rot is "idle"), mutates and    *)
(* saves under v.mu, and owes authReset exactly when it says so.  A save   *)
(* that fails restores the snapshot before v.mu is released and rotates    *)
(* nothing, so a failed transition is a stuttering step.                   *)
BeginTransition == rot = "idle" /\ epoch < MaxEpoch

Owes(rotates) == rot' = IF rotates THEN "invalidate" ELSE "idle"

Store(ts, a) ==
    /\ tenants' = ts
    /\ active' = a
    /\ file' = [tenants |-> ts, active |-> a]

Without(t) == [u \in DOMAIN tenants \ {t} |-> tenants[u]]

UnlockVault ==
    /\ BeginTransition
    /\ file # NoFile
    /\ unlocked' = TRUE
    /\ tenants' = file.tenants
    /\ active' = file.active
    /\ Owes(TRUE)
    /\ UNCHANGED <<file, authVars, mgr, op, gen>>

\* Init takes v.mu only: it neither waits for switchMu nor rotates.
InitVault ==
    /\ file = NoFile
    /\ unlocked' = TRUE
    /\ Store(EmptyStore, NoTenant)
    /\ UNCHANGED <<rot, authVars, mgr, op, gen>>

AddTenant(t, k) ==
    /\ BeginTransition
    /\ unlocked
    /\ t \notin DOMAIN tenants
    /\ Store([u \in DOMAIN tenants \cup {t} |-> IF u = t THEN k ELSE tenants[u]],
             IF active = NoTenant THEN t ELSE active)
    /\ Owes(active = NoTenant)
    /\ UNCHANGED <<unlocked, authVars, mgr, op, gen>>

\* The first connection left takes over; which one that is depends on the
\* order they were added in, which is not modelled.
RemoveTenant(t) ==
    /\ BeginTransition
    /\ unlocked
    /\ t \in DOMAIN tenants
    /\ \E next \in IF active # t THEN {active}
                   ELSE IF DOMAIN tenants = {t} THEN {NoTenant}
                   ELSE DOMAIN tenants \ {t} : Store(Without(t), next)
    /\ Owes(active = t)
    /\ UNCHANGED <<unlocked, authVars, mgr, op, gen>>

\* Mutant: a replaced key is not treated as an identity change.
UpdateTenantNoReset(t, k) ==
    /\ BeginTransition
    /\ unlocked
    /\ t \in DOMAIN tenants
    /\ Store([tenants EXCEPT ![t] = k], active)
    /\ Owes(FALSE)
    /\ UNCHANGED <<unlocked, authVars, mgr, op, gen>>

UpdateTenant(t, k) ==
    /\ BeginTransition
    /\ unlocked
    /\ t \in DOMAIN tenants
    /\ Store([tenants EXCEPT ![t] = k], active)
    /\ Owes(active = t)
    /\ UNCHANGED <<unlocked, authVars, mgr, op, gen>>

SetActive(t) ==
    /\ BeginTransition
    /\ unlocked
    /\ t \in DOMAIN tenants
    /\ Store(tenants, t)
    /\ Owes(TRUE)
    /\ UNCHANGED <<unlocked, authVars, mgr, op, gen>>

ForgetSecrets ==
    /\ unlocked' = FALSE
    /\ tenants' = EmptyStore
    /\ active' = NoTenant

LockVault ==
    /\ BeginTransition
    /\ ForgetSecrets
    /\ Owes(TRUE)
    /\ UNCHANGED <<file, authVars, mgr, op, gen>>

ResetVault ==
    /\ BeginTransition
    /\ ForgetSecrets
    /\ file' = NoFile
    /\ Owes(TRUE)
    /\ UNCHANGED <<authVars, mgr, op, gen>>

\* os.Remove failed: the secrets are wiped, and ResetR returns the error
\* before it reaches rotateAuth.
ResetVaultFails ==
    /\ BeginTransition
    /\ file # NoFile
    /\ ForgetSecrets
    /\ Owes(FALSE)
    /\ UNCHANGED <<file, authVars, mgr, op, gen>>

-----------------------------------------------------------------------------
(* main's authReset, run with v.mu released and switchMu still held.       *)
InvalidateOverride ==
    /\ rot = "invalidate"
    /\ override' = NoCred
    /\ epoch' = epoch + 1
    /\ rot' = "rotate1"
    /\ UNCHANGED <<vaultVars, mgr, op, gen>>

FirstRotate ==
    /\ rot = "rotate1"
    /\ gen' = gen + 1
    /\ rot' = "reset"
    /\ UNCHANGED <<vaultVars, authVars, mgr, op>>

\* Mutant: the override is dropped but the resolved home is kept.
ResetActiveKeepsHome ==
    /\ rot = "reset"
    /\ op.pc = "idle"
    /\ mgr' = [mgr EXCEPT !.active = NoAccount]
    /\ override' = NoCred
    /\ rot' = "rotate2"
    /\ UNCHANGED <<vaultVars, epoch, op, gen>>

ResetActive ==
    /\ rot = "reset"
    /\ op.pc = "idle"
    /\ mgr' = BlankManager
    /\ override' = NoCred
    /\ rot' = "rotate2"
    /\ UNCHANGED <<vaultVars, epoch, op, gen>>

SecondRotate ==
    /\ rot = "rotate2"
    /\ gen' = gen + 1
    /\ rot' = "idle"
    /\ UNCHANGED <<vaultVars, authVars, mgr, op>>

AuthReset == InvalidateOverride \/ FirstRotate \/ ResetActive \/ SecondRotate

-----------------------------------------------------------------------------
(* Account operations: ListAccounts (target NoAccount) and SwitchAccount.  *)
(* Every portal call is signed with the identity live when it is sent.     *)
Return == op' = NoOp

BeginAccountOp(a) ==
    /\ op.pc = "idle"
    /\ a # NoAccount => gen < MaxSwitches + 2 * epoch
    /\ op' = [NoOp EXCEPT !.pc = "list", !.target = a]
    /\ UNCHANGED <<vaultVars, rot, authVars, mgr, gen>>

AccountsListed ==
    /\ op.pc = "list"
    /\ Identity # NoKey
    /\ op' = [op EXCEPT !.pc = IF mgr.verified THEN "decide" ELSE "home",
                        !.accts = MemberOf[Identity]]
    /\ UNCHANGED <<vaultVars, rot, authVars, mgr, gen>>

\* The portal answered an error, or nothing: list, or the switch POST.
PortalFails ==
    /\ op.pc \in {"list", "post"}
    /\ Return
    /\ UNCHANGED <<vaultVars, rot, authVars, mgr, gen>>

\* /v2/current_user: the account of the key that asked, or, failing that, a
\* display guess (the first listed account) that is never marked verified.
ResolveHome ==
    /\ op.pc = "home"
    /\ \E v \in BOOLEAN :
         LET h == IF v THEN HomeOf[Identity]
                  ELSE IF op.accts = {} THEN NoAccount
                  ELSE CHOOSE a \in op.accts : TRUE
         IN /\ v => Identity # NoKey
            /\ mgr' = [home |-> h, verified |-> v,
                       active |-> IF mgr.active = NoAccount THEN h ELSE mgr.active]
    /\ op' = [op EXCEPT !.pc = "decide"]
    /\ UNCHANGED <<vaultVars, rot, authVars, gen>>

\* Mutant: an early return that forgets m.mu.Unlock.
NothingToSwitchKeepsLock ==
    /\ op.pc = "decide"
    /\ \/ op.target \notin op.accts
       \/ op.target = mgr.home /\ ~mgr.verified
    /\ UNCHANGED vars

\* Only a list was asked for, the account is unknown, or home is a guess.
NothingToSwitch ==
    /\ op.pc = "decide"
    /\ \/ op.target \notin op.accts
       \/ op.target = mgr.home /\ ~mgr.verified
    /\ Return
    /\ UNCHANGED <<vaultVars, rot, authVars, mgr, gen>>

SwitchHome ==
    /\ op.pc = "decide"
    /\ op.target \in op.accts
    /\ op.target = mgr.home /\ mgr.verified
    /\ override' = NoCred
    /\ op' = [op EXCEPT !.pc = "finish"]
    /\ UNCHANGED <<vaultVars, rot, epoch, mgr, gen>>

ReadEpoch ==
    /\ op.pc = "decide"
    /\ op.target \in op.accts
    /\ op.target # mgr.home
    /\ op' = [op EXCEPT !.pc = "post", !.epoch = epoch]
    /\ UNCHANGED <<vaultVars, rot, authVars, mgr, gen>>

\* POST /v2/session/account_switch mints a JWT for one account of the signer.
JwtMinted ==
    /\ op.pc = "post"
    /\ Identity # NoKey
    /\ op.target \in MemberOf[Identity]
    /\ op' = [op EXCEPT !.pc = "publish",
                        !.jwt = [by |-> Identity, acct |-> op.target]]
    /\ UNCHANGED <<vaultVars, rot, authVars, mgr, gen>>

\* Mutant: SetOverride in place of SetOverrideAt, no epoch compared.
SetOverrideUnfenced ==
    /\ op.pc = "publish"
    /\ override' = op.jwt
    /\ op' = [op EXCEPT !.pc = "finish"]
    /\ UNCHANGED <<vaultVars, rot, epoch, mgr, gen>>

\* rest.Auth.SetOverrideAt: publish only under the epoch read before the POST.
SetOverrideAt ==
    /\ op.pc = "publish"
    /\ IF op.epoch = epoch
         THEN override' = op.jwt /\ op' = [op EXCEPT !.pc = "finish"]
         ELSE UNCHANGED override /\ Return
    /\ UNCHANGED <<vaultVars, rot, epoch, mgr, gen>>

\* Mutant: m.active is not updated.
FinishSwitchForgetsActive ==
    /\ op.pc = "finish"
    /\ gen' = gen + 1
    /\ Return
    /\ UNCHANGED <<vaultVars, rot, authVars, mgr>>

\* m.active and cache.Rotate, then m.mu is released.
FinishSwitch ==
    /\ op.pc = "finish"
    /\ mgr' = [mgr EXCEPT !.active = op.target]
    /\ gen' = gen + 1
    /\ Return
    /\ UNCHANGED <<vaultVars, rot, authVars>>

AccountStep ==
    \/ AccountsListed \/ PortalFails \/ ResolveHome \/ NothingToSwitch
    \/ SwitchHome \/ ReadEpoch \/ JwtMinted \/ SetOverrideAt \/ FinishSwitch

-----------------------------------------------------------------------------
VaultOp ==
    \/ UnlockVault \/ InitVault \/ LockVault \/ ResetVault \/ ResetVaultFails
    \/ \E t \in Tenants, k \in Keys : AddTenant(t, k) \/ UpdateTenant(t, k)
    \/ \E t \in Tenants : RemoveTenant(t) \/ SetActive(t)

Next ==
    \/ VaultOp
    \/ AuthReset
    \/ \E a \in Accounts \cup {NoAccount} : BeginAccountOp(a)
    \/ AccountStep

(* Operators choose when to act; what they started is carried through: the *)
(* goroutine is scheduled, every portal call answers or times out, and a   *)
(* Go mutex hands itself to a waiter that has starved (ResetActive).       *)
Fairness ==
    /\ WF_vars(InvalidateOverride) /\ WF_vars(FirstRotate) /\ WF_vars(SecondRotate)
    /\ SF_vars(ResetActive)
    /\ WF_vars(AccountStep)

Spec == Init /\ [][Next]_vars
FairSpec == Spec /\ Fairness

-----------------------------------------------------------------------------
(* OverrideIsLive: once InvalidateOverride has run, the published switch   *)
(* JWT was minted by the identity the server now speaks for.  This is what *)
(* the override epoch is for: a switch whose POST spans a vault transition *)
(* must not publish (rest.go SetOverrideAt, main.go authReset).            *)
OverrideIsLive ==
    rot # "invalidate" /\ Identity # NoKey /\ override # NoCred
        => override.by = Identity

(* AccountNamesOverride: whoever can take m.mu (Account.Active, which the  *)
(* write lock asks) is told the very account the published JWT acts in.    *)
AccountNamesOverride ==
    op.pc = "idle" /\ override # NoCred => mgr.active = override.acct

(* OverrideNeverOutlivesTenant: what vault.go says of onAuthReset, that "a *)
(* switched-in portal account ... can never outlive the tenant change": no *)
(* override is left between transitions once the server speaks for nobody. *)
OverrideNeverOutlivesTenant ==
    rot = "idle" /\ Identity = NoKey => override = NoCred

(* HomeIsOfIdentity: after a transition has reset the account manager, a   *)
(* home account it calls verified belongs to the live identity, so the     *)
(* home branch of SwitchAccount never answers for another person's home.   *)
HomeIsOfIdentity ==
    mgr.verified /\ rot \in {"idle", "rotate2"} /\ Identity # NoKey
        => mgr.home = HomeOf[Identity]

(* The account a credential's requests land in.                            *)
AccountOf(c) == IF c.acct = NoSwitch THEN HomeOf[c.by] ELSE c.acct

(* SwitchIsServed: when SwitchAccount returns ok outside a vault           *)
(* transition, the credential every request now resolves acts in exactly   *)
(* the account it reports.  For a server without an env key.               *)
SwitchIsServed ==
    [][op.pc = "finish" /\ op'.pc = "idle" /\ rot = "idle" /\ Identity # NoKey
        => AccountOf(Value) = mgr'.active]_vars

(* A vault transition always answers: ResetActive waits for m.mu, which an *)
(* account operation holds across the portal's answers.                    *)
TransitionCompletes == []<>(rot = "idle")

(* The portal session this implements (see PortalSession): until           *)
(* InvalidateOverride has run, the old override is as good as gone.        *)
SessionCred ==
    IF rot = "invalidate" \/ Identity = NoKey \/ override = NoCred
      THEN Plain(Identity) ELSE override

Session == INSTANCE PortalSession WITH who <- Identity, cred <- SessionCred

(* ImplementsSession: every step the server takes is a step, or no step,   *)
(* of one person's portal session: a new identity never inherits the last  *)
(* one's switch (main.go's authReset, rest.go's SetOverrideAt).            *)
ImplementsSession == Session!Spec
=============================================================================
