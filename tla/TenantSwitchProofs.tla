------------------------- MODULE TenantSwitchProofs -------------------------
(***************************************************************************)
(* Theorems about TenantSwitch, for any tenants, keys and accounts and     *)
(* with no bound on transitions or switches (MaxEpoch and MaxSwitches are  *)
(* arbitrary naturals, and no proof uses them).                            *)
(*                                                                         *)
(* The argument has one idea: an identity that changes leaves rot at       *)
(* "invalidate" (VaultOpRotates), the epoch moves before anything but a    *)
(* vault operation can tell, and a switch credential minted before the     *)
(* move carries an epoch that no longer matches.                           *)
(***************************************************************************)
EXTENDS TenantSwitch, TLAPS

(* What a credential between its POST and its publication is worth.        *)
PendingIsLive ==
    /\ op.pc \in {"post", "publish"} => op.epoch <= epoch
    /\ op.pc = "publish" =>
         /\ op.jwt.acct = op.target /\ op.target \in Accounts
         /\ op.epoch = epoch /\ rot # "invalidate" /\ Identity # NoKey
              => /\ op.jwt.by = Identity
                 /\ op.target \in MemberOf[Identity]

(* The account manager and the override agree, except between the publish  *)
(* and the assignment of m.active.                                         *)
ManagerFollows ==
    override # NoCred =>
        /\ override.acct # NoAccount
        /\ override.acct = IF op.pc = "finish" THEN op.target ELSE mgr.active

IInv ==
    /\ TypeOK
    /\ PendingIsLive
    /\ ManagerFollows
    /\ OverrideIsLive
    /\ HomeIsOfIdentity

-----------------------------------------------------------------------------
(* StoreMember: a store is a function from some of the tenants to keys.    *)
LEMMA StoreMember ==
    ASSUME NEW S \in SUBSET Tenants, NEW f \in [S -> Keys]
    PROVE  f \in Stores
  BY DEF Stores

LEMMA StoreDomain ==
    ASSUME NEW f \in Stores
    PROVE  /\ DOMAIN f \subseteq Tenants
           /\ \A t \in DOMAIN f : f[t] \in Keys
  BY DEF Stores

(* IdentityType: the server speaks for a key it knows, or for none.        *)
LEMMA IdentityType ==
    ASSUME TypeOK
    PROVE  Identity \in Keys \cup {NoKey}
  BY StoreDomain, TenantSwitchAssumption DEF TypeOK, Identity, ActiveKey

(* StoreStep: committing a well-formed store keeps the vault well formed.  *)
LEMMA StoreStep ==
    ASSUME NEW ts \in Stores, NEW a \in DOMAIN ts \cup {NoTenant}, Store(ts, a)
    PROVE  /\ tenants' \in Stores
           /\ active' \in Tenants \cup {NoTenant}
           /\ file' \in Contents
           /\ ActiveIsStored'
  <1>1. a \in Tenants \cup {NoTenant}
    BY StoreDomain
  <1>2. tenants' = ts /\ active' = a /\ file' = [tenants |-> ts, active |-> a]
    BY DEF Store
  <1>3. ActiveIsStored'
    BY <1>2 DEF ActiveIsStored
  <1> QED
    BY <1>1, <1>2, <1>3 DEF Contents

(* VaultOpTypes: every vault operation leaves the vault well formed.       *)
LEMMA VaultOpTypes ==
    ASSUME TypeOK, VaultOp
    PROVE  /\ unlocked' \in BOOLEAN
           /\ tenants' \in Stores
           /\ active' \in Tenants \cup {NoTenant}
           /\ file' \in Contents \cup {NoFile}
           /\ rot' \in RotSteps
           /\ ActiveIsStored'
  <1> USE DEF TypeOK, Owes, RotSteps
  <1>e. EmptyStore \in Stores
    <2>1. {} \in SUBSET Tenants /\ EmptyStore \in [{} -> Keys]
      BY DEF EmptyStore
    <2> QED
      BY <2>1, StoreMember
  <1>f. ASSUME ForgetSecrets
        PROVE  /\ unlocked' \in BOOLEAN /\ tenants' \in Stores
               /\ active' \in Tenants \cup {NoTenant}
               /\ active' \in DOMAIN tenants' \cup {NoTenant}
    BY <1>e, <1>f DEF ForgetSecrets
  <1>1. CASE UnlockVault
    BY <1>1 DEF UnlockVault, Contents, ActiveIsStored
  <1>2. CASE InitVault
    BY <1>2, <1>e, StoreStep DEF InitVault
  <1>3. CASE LockVault
    BY <1>3, <1>f DEF LockVault, ActiveIsStored
  <1>4. CASE ResetVault
    BY <1>4, <1>f DEF ResetVault, ActiveIsStored
  <1>5. CASE ResetVaultFails
    BY <1>5, <1>f DEF ResetVaultFails, ActiveIsStored
  <1>6. ASSUME NEW t \in Tenants, NEW k \in Keys, AddTenant(t, k)
        PROVE  /\ unlocked' \in BOOLEAN /\ rot' \in RotSteps
               /\ tenants' \in Stores /\ active' \in Tenants \cup {NoTenant}
               /\ file' \in Contents /\ ActiveIsStored'
    <2> DEFINE S == DOMAIN tenants \cup {t}
               ts == [u \in S |-> IF u = t THEN k ELSE tenants[u]]
               a == IF active = NoTenant THEN t ELSE active
    <2>1. S \in SUBSET Tenants /\ ts \in [S -> Keys]
      BY StoreDomain
    <2>2. ts \in Stores
      BY <2>1, StoreMember
    <2>3. a \in DOMAIN ts \cup {NoTenant}
      BY DEF ActiveIsStored
    <2> HIDE DEF ts, a
    <2>4. Store(ts, a)
      BY <1>6 DEF AddTenant, ts, a
    <2> QED
      BY <1>6, <2>2, <2>3, <2>4, StoreStep DEF AddTenant
  <1>7. ASSUME NEW t \in Tenants, NEW k \in Keys, UpdateTenant(t, k)
        PROVE  /\ unlocked' \in BOOLEAN /\ rot' \in RotSteps
               /\ tenants' \in Stores /\ active' \in Tenants \cup {NoTenant}
               /\ file' \in Contents /\ ActiveIsStored'
    <2> DEFINE ts == [tenants EXCEPT ![t] = k]
    <2>1. DOMAIN tenants \in SUBSET Tenants /\ ts \in [DOMAIN tenants -> Keys]
      BY StoreDomain DEF Stores
    <2>2. ts \in Stores /\ active \in DOMAIN ts \cup {NoTenant}
      BY <2>1, StoreMember DEF ActiveIsStored
    <2> HIDE DEF ts
    <2>3. Store(ts, active)
      BY <1>7 DEF UpdateTenant, ts
    <2> QED
      BY <1>7, <2>2, <2>3, StoreStep DEF UpdateTenant
  <1>8. ASSUME NEW t \in Tenants, RemoveTenant(t)
        PROVE  /\ unlocked' \in BOOLEAN /\ rot' \in RotSteps
               /\ tenants' \in Stores /\ active' \in Tenants \cup {NoTenant}
               /\ file' \in Contents /\ ActiveIsStored'
    <2>1. DOMAIN tenants \ {t} \in SUBSET Tenants
          /\ Without(t) \in [DOMAIN tenants \ {t} -> Keys]
      BY StoreDomain DEF Without
    <2>2. Without(t) \in Stores
      BY <2>1, StoreMember
    <2>3. PICK next \in IF active # t THEN {active}
                        ELSE IF DOMAIN tenants = {t} THEN {NoTenant}
                        ELSE DOMAIN tenants \ {t} : Store(Without(t), next)
      BY <1>8 DEF RemoveTenant
    <2>4. next \in DOMAIN Without(t) \cup {NoTenant}
      BY <2>3 DEF ActiveIsStored, Without
    <2> QED
      BY <1>8, <2>2, <2>3, <2>4, StoreStep DEF RemoveTenant
  <1>9. ASSUME NEW t \in Tenants, SetActive(t)
        PROVE  /\ unlocked' \in BOOLEAN /\ rot' \in RotSteps
               /\ tenants' \in Stores /\ active' \in Tenants \cup {NoTenant}
               /\ file' \in Contents /\ ActiveIsStored'
    BY <1>9, StoreStep DEF SetActive
  <1> QED
    BY <1>1, <1>2, <1>3, <1>4, <1>5, <1>6, <1>7, <1>8, <1>9 DEF VaultOp

(* VaultOpRotates: a vault operation that changes whom the server speaks   *)
(* for owes authReset, unless it leaves nobody to speak for; and none of   *)
(* them touches the override, the account manager or the cache.            *)
LEMMA VaultOpRotates ==
    ASSUME TypeOK, VaultOp
    PROVE  /\ UNCHANGED <<authVars, mgr, op, gen>>
           /\ \/ rot' = "invalidate"
              \/ rot' = rot /\ (Identity' = Identity \/ Identity' = NoKey)
  <1> USE DEF Owes, BeginTransition, Identity, ActiveKey
  <1>a. ActiveIsStored
    BY DEF TypeOK
  <1>1. CASE UnlockVault
    BY <1>1 DEF UnlockVault
  <1>2. CASE InitVault
    BY <1>2 DEF InitVault, Store, EmptyStore
  <1>3. CASE LockVault
    BY <1>3 DEF LockVault
  <1>4. CASE ResetVault
    BY <1>4 DEF ResetVault
  <1>5. CASE ResetVaultFails
    BY <1>5 DEF ResetVaultFails, ForgetSecrets, EmptyStore
  <1>6. CASE \E t \in Tenants, k \in Keys : AddTenant(t, k)
    BY <1>6, <1>a DEF AddTenant, Store, ActiveIsStored
  <1>7. CASE \E t \in Tenants, k \in Keys : UpdateTenant(t, k)
    BY <1>7 DEF UpdateTenant, Store
  <1>8. CASE \E t \in Tenants : RemoveTenant(t)
    <2>1. PICK t \in Tenants : RemoveTenant(t)
      BY <1>8
    <2>2. CASE active = t
      BY <2>1, <2>2 DEF RemoveTenant
    <2>3. CASE active # t
      BY <2>1, <2>3 DEF RemoveTenant, Store, Without
    <2> QED
      BY <2>2, <2>3
  <1>9. CASE \E t \in Tenants : SetActive(t)
    BY <1>9 DEF SetActive
  <1> QED
    BY <1>1, <1>2, <1>3, <1>4, <1>5, <1>6, <1>7, <1>8, <1>9 DEF VaultOp

-----------------------------------------------------------------------------
LEMMA InitIInv == Init => IInv
  <1> SUFFICES ASSUME Init PROVE IInv
    OBVIOUS
  <1>0. EmptyStore \in Stores
    <2>1. {} \in SUBSET Tenants /\ EmptyStore \in [{} -> Keys]
      BY DEF EmptyStore
    <2> QED
      BY <2>1, StoreMember
  <1>1. file \in Contents \cup {NoFile} /\ (file # NoFile => Saved(file))
    BY DEF Init
  <1>2. /\ unlocked \in BOOLEAN
        /\ tenants \in Stores /\ active \in Tenants \cup {NoTenant}
        /\ ActiveIsStored
    BY <1>0, <1>1 DEF Init, Contents, Saved, ActiveIsStored
  <1>3. NoCred \in Credentials /\ BlankManager \in Managers /\ NoOp \in OpStates
    BY DEF NoCred, Credentials, BlankManager, Managers, NoOp, OpStates, OpSteps,
           NoSwitch
  <1>4. TypeOK
    BY <1>1, <1>2, <1>3 DEF TypeOK, Init, RotSteps
  <1> QED
    BY <1>2, <1>4 DEF Init, IInv, PendingIsLive, ManagerFollows, OverrideIsLive,
       HomeIsOfIdentity, NoOp, BlankManager

(* The part of the invariant a vault operation could disturb through       *)
(* Identity and rot alone.                                                 *)
LEMMA VaultOpIInv ==
    ASSUME IInv, VaultOp
    PROVE  IInv'
  <1> USE DEF IInv
  <1>1. UNCHANGED <<override, epoch, mgr, op, gen>>
    BY VaultOpRotates DEF authVars
  <1>2. TypeOK' /\ ActiveIsStored'
    BY <1>1, VaultOpTypes DEF TypeOK
  <1>3. \/ rot' = "invalidate"
        \/ rot' = rot /\ (Identity' = Identity \/ Identity' = NoKey)
    BY VaultOpRotates
  <1>4. PendingIsLive'
    BY <1>1, <1>3 DEF PendingIsLive
  <1>5. ManagerFollows'
    BY <1>1 DEF ManagerFollows
  <1>6. OverrideIsLive'
    BY <1>1, <1>3 DEF OverrideIsLive
  <1>7. HomeIsOfIdentity'
    BY <1>1, <1>3 DEF HomeIsOfIdentity
  <1> QED
    BY <1>2, <1>4, <1>5, <1>6, <1>7

(* SameIdentity: nothing but a vault operation changes the identity.       *)
LEMMA SameIdentity ==
    ASSUME UNCHANGED vaultVars
    PROVE  /\ Identity' = Identity
           /\ ActiveIsStored => ActiveIsStored'
  BY DEF vaultVars, Identity, ActiveKey, ActiveIsStored

LEMMA AuthResetIInv ==
    ASSUME IInv, AuthReset
    PROVE  IInv'
  <1> USE DEF IInv, TypeOK, RotSteps, authVars
  <1>0. NoCred \in Credentials /\ BlankManager \in Managers
    BY DEF NoCred, Credentials, BlankManager, Managers, NoSwitch
  <1>1. UNCHANGED vaultVars
    BY DEF AuthReset, InvalidateOverride, FirstRotate, ResetActive, SecondRotate
  <1>2. Identity' = Identity /\ ActiveIsStored'
    BY <1>1, SameIdentity
  <1> USE <1>2
  <1>3. CASE InvalidateOverride
    <2> USE <1>3 DEF InvalidateOverride
    <2>1. TypeOK'
      BY <1>0, <1>1 DEF vaultVars
    <2>2. op \in OpStates /\ op.epoch \in Nat
      BY DEF OpStates
    <2>3. PendingIsLive'
      BY <2>2 DEF PendingIsLive
    <2> QED
      BY <2>1, <2>3 DEF ManagerFollows, OverrideIsLive, HomeIsOfIdentity
  <1>4. CASE FirstRotate
    BY <1>1, <1>4 DEF FirstRotate, vaultVars, PendingIsLive, ManagerFollows,
       OverrideIsLive, HomeIsOfIdentity
  <1>5. CASE ResetActive
    <2> USE <1>5 DEF ResetActive
    <2>1. TypeOK'
      BY <1>0, <1>1 DEF vaultVars
    <2>2. HomeIsOfIdentity'
      BY DEF HomeIsOfIdentity, BlankManager
    <2> QED
      BY <2>1, <2>2 DEF PendingIsLive, ManagerFollows, OverrideIsLive
  <1>6. CASE SecondRotate
    BY <1>1, <1>6 DEF SecondRotate, vaultVars, PendingIsLive, ManagerFollows,
       OverrideIsLive, HomeIsOfIdentity
  <1> QED
    BY <1>3, <1>4, <1>5, <1>6 DEF AuthReset

(* AccountOpIInv: an account operation keeps the invariant; each step      *)
(* holds m.mu and leaves the vault, rot and the epoch alone.               *)
LEMMA AccountOpIInv ==
    ASSUME IInv, AccountStep \/ \E a \in Accounts \cup {NoAccount} : BeginAccountOp(a)
    PROVE  IInv'
  <1> USE DEF IInv, TypeOK, authVars, Return
  <1>0. /\ UNCHANGED vaultVars
        /\ UNCHANGED <<rot, epoch>>
    BY DEF AccountStep, BeginAccountOp, AccountsListed, PortalFails, ResolveHome,
           NothingToSwitch, SwitchHome, ReadEpoch, JwtMinted, SetOverrideAt,
           FinishSwitch
  <1>1. Identity' = Identity /\ ActiveIsStored'
    BY <1>0, SameIdentity
  <1>2. Identity \in Keys \cup {NoKey}
    BY IdentityType
  <1>3. /\ NoCred \in Credentials
        /\ NoOp \in OpStates /\ NoOp.pc = "idle"
    BY DEF NoCred, Credentials, NoSwitch, NoOp, OpStates, OpSteps
  <1>4. /\ op \in OpStates /\ op.pc \in OpSteps /\ op.accts \subseteq Accounts
        /\ op.target \in Accounts \cup {NoAccount} /\ op.epoch \in Nat
        /\ op.jwt \in Credentials
    BY DEF OpStates
  <1>5. \A k \in Keys : HomeOf[k] \in Accounts /\ MemberOf[k] \in SUBSET Accounts
    BY TenantSwitchAssumption
  <1> SUFFICES /\ override' \in Credentials /\ mgr' \in Managers
               /\ op' \in OpStates /\ gen' \in Nat
               /\ PendingIsLive' /\ ManagerFollows'
               /\ OverrideIsLive' /\ HomeIsOfIdentity'
    BY <1>0, <1>1 DEF vaultVars
  <1> USE <1>0, <1>1, <1>4
  <1>6. CASE \E a \in Accounts \cup {NoAccount} : BeginAccountOp(a)
    <2>1. PICK a \in Accounts \cup {NoAccount} : BeginAccountOp(a)
      BY <1>6
    <2>2. op' \in OpStates /\ op'.pc = "list"
      BY <2>1 DEF BeginAccountOp, NoOp, OpStates, OpSteps, Credentials, NoCred, NoSwitch
    <2> QED
      BY <2>1, <2>2 DEF BeginAccountOp, PendingIsLive, ManagerFollows,
         OverrideIsLive, HomeIsOfIdentity
  <1>7. CASE AccountsListed
    <2>1. op' \in OpStates /\ op'.pc \in {"decide", "home"}
      BY <1>2, <1>5, <1>7 DEF AccountsListed, OpStates, OpSteps
    <2> QED
      BY <1>7, <2>1 DEF AccountsListed, PendingIsLive, ManagerFollows,
         OverrideIsLive, HomeIsOfIdentity
  <1>8. CASE PortalFails
    BY <1>3, <1>8 DEF PortalFails, PendingIsLive, ManagerFollows,
       OverrideIsLive, HomeIsOfIdentity
  <1>9. CASE ResolveHome
    <2>1. op' \in OpStates /\ op'.pc = "decide"
      BY <1>9 DEF ResolveHome, OpStates, OpSteps
    <2>2. PICK v \in BOOLEAN, h \in Accounts \cup {NoAccount} :
            /\ v => Identity # NoKey /\ h = HomeOf[Identity]
            /\ mgr' = [home |-> h, verified |-> v,
                       active |-> IF mgr.active = NoAccount THEN h ELSE mgr.active]
      <3>1. PICK v \in BOOLEAN :
              LET h == IF v THEN HomeOf[Identity]
                       ELSE IF op.accts = {} THEN NoAccount
                       ELSE CHOOSE a \in op.accts : TRUE
              IN /\ v => Identity # NoKey
                 /\ mgr' = [home |-> h, verified |-> v,
                            active |-> IF mgr.active = NoAccount THEN h ELSE mgr.active]
        BY <1>9 DEF ResolveHome
      <3>2. CASE v
        BY <1>2, <1>5, <3>1, <3>2
      <3>3. CASE ~v /\ op.accts = {}
        BY <3>1, <3>3
      <3>4. CASE ~v /\ op.accts # {}
        <4>1. (CHOOSE a \in op.accts : TRUE) \in Accounts
          BY <3>4
        <4> QED
          BY <3>1, <3>4, <4>1
      <3> QED
        BY <3>2, <3>3, <3>4
    <2>3. mgr' \in Managers
      BY <2>2 DEF Managers
    <2> QED
      BY <1>9, <2>1, <2>2, <2>3 DEF ResolveHome, PendingIsLive, ManagerFollows,
         OverrideIsLive, HomeIsOfIdentity
  <1>10. CASE NothingToSwitch
    BY <1>3, <1>10 DEF NothingToSwitch, PendingIsLive, ManagerFollows,
       OverrideIsLive, HomeIsOfIdentity
  <1>11. CASE SwitchHome
    <2>1. op' \in OpStates /\ op'.pc = "finish"
      BY <1>11 DEF SwitchHome, OpStates, OpSteps
    <2> QED
      BY <1>3, <1>11, <2>1 DEF SwitchHome, PendingIsLive, ManagerFollows,
         OverrideIsLive, HomeIsOfIdentity
  <1>12. CASE ReadEpoch
    <2>1. op' \in OpStates /\ op'.pc = "post" /\ op'.epoch = epoch
      BY <1>12 DEF ReadEpoch, OpStates, OpSteps
    <2> QED
      BY <1>12, <2>1 DEF ReadEpoch, PendingIsLive, ManagerFollows,
         OverrideIsLive, HomeIsOfIdentity
  <1>13. CASE JwtMinted
    <2>1. op.target \in Accounts
      BY <1>2, <1>5, <1>13 DEF JwtMinted
    <2>2. /\ op' \in OpStates /\ op'.pc = "publish" /\ op'.target = op.target
          /\ op'.epoch = op.epoch
          /\ op'.jwt = [by |-> Identity, acct |-> op.target]
      BY <1>2, <1>13, <2>1 DEF JwtMinted, OpStates, OpSteps, Credentials
    <2>3. PendingIsLive'
      BY <1>13, <2>1, <2>2 DEF JwtMinted, PendingIsLive
    <2> QED
      BY <1>13, <2>2, <2>3 DEF JwtMinted, ManagerFollows, OverrideIsLive,
         HomeIsOfIdentity
  <1>14. CASE SetOverrideAt
    <2>1. CASE op.epoch = epoch
      <3>1. op' \in OpStates /\ op'.pc = "finish" /\ op'.target = op.target
        BY <1>14, <2>1 DEF SetOverrideAt, OpStates, OpSteps
      <3>2. override' = op.jwt
        BY <1>14, <2>1 DEF SetOverrideAt
      <3>3. ManagerFollows'
        BY <1>14, <3>1, <3>2, TenantSwitchAssumption
           DEF SetOverrideAt, PendingIsLive, ManagerFollows
      <3>4. OverrideIsLive'
        BY <1>14, <2>1, <3>2 DEF SetOverrideAt, PendingIsLive, OverrideIsLive
      <3> QED
        BY <1>14, <3>1, <3>2, <3>3, <3>4 DEF SetOverrideAt, PendingIsLive,
           HomeIsOfIdentity
    <2>2. CASE op.epoch # epoch
      BY <1>3, <1>14, <2>2 DEF SetOverrideAt, PendingIsLive, ManagerFollows,
         OverrideIsLive, HomeIsOfIdentity
    <2> QED
      BY <2>1, <2>2
  <1>15. CASE FinishSwitch
    <2>1. mgr' \in Managers /\ mgr'.active = op.target
          /\ mgr'.home = mgr.home /\ mgr'.verified = mgr.verified
      BY <1>15 DEF FinishSwitch, Managers
    <2> QED
      BY <1>3, <1>15, <2>1 DEF FinishSwitch, PendingIsLive, ManagerFollows,
         OverrideIsLive, HomeIsOfIdentity
  <1> QED
    BY <1>6, <1>7, <1>8, <1>9, <1>10, <1>11, <1>12, <1>13, <1>14, <1>15 DEF AccountStep

-----------------------------------------------------------------------------
LEMMA Inductive == Spec => []IInv
  <1>1. Init => IInv
    BY InitIInv
  <1>2. IInv /\ [Next]_vars => IInv'
    <2> SUFFICES ASSUME IInv, [Next]_vars PROVE IInv'
      OBVIOUS
    <2>1. CASE VaultOp
      BY <2>1, VaultOpIInv
    <2>2. CASE AuthReset
      BY <2>2, AuthResetIInv
    <2>3. CASE AccountStep \/ \E a \in Accounts \cup {NoAccount} : BeginAccountOp(a)
      BY <2>3, AccountOpIInv
    <2>4. CASE UNCHANGED vars
      BY <2>4 DEF vars, IInv, TypeOK, ActiveIsStored, PendingIsLive, ManagerFollows,
         OverrideIsLive, HomeIsOfIdentity, Identity, ActiveKey
    <2> QED
      BY <2>1, <2>2, <2>3, <2>4 DEF Next
  <1> QED
    BY <1>1, <1>2, PTL DEF Spec

(* TypeCorrect: every variable always holds a value its Go field can hold. *)
THEOREM TypeCorrect == Spec => []TypeOK
  <1>1. IInv => TypeOK
    BY DEF IInv
  <1> QED
    BY <1>1, Inductive, PTL

(* OverrideAlwaysLive: once the invalidation of a vault transition has     *)
(* run, the switch JWT requests are signed with was minted by the identity *)
(* the server speaks for, however the POST and the transition interleave.  *)
THEOREM OverrideAlwaysLive == Spec => []OverrideIsLive
  <1>1. IInv => OverrideIsLive
    BY DEF IInv
  <1> QED
    BY <1>1, Inductive, PTL

(* AccountAlwaysNamed: Account.Active, which waits for m.mu, always names  *)
(* the account the published JWT acts in.                                  *)
THEOREM AccountAlwaysNamed == Spec => []AccountNamesOverride
  <1>1. IInv => AccountNamesOverride
    BY DEF IInv, ManagerFollows, AccountNamesOverride
  <1> QED
    BY <1>1, Inductive, PTL

(* HomeAlwaysOwn: a home account marked verified is the live identity's.   *)
THEOREM HomeAlwaysOwn == Spec => []HomeIsOfIdentity
  <1>1. IInv => HomeIsOfIdentity
    BY DEF IInv
  <1> QED
    BY <1>1, Inductive, PTL

-----------------------------------------------------------------------------
(* A switch about to answer ok with no JWT published went home, unless an  *)
(* identity change is taking everything back.                              *)
WentHome ==
    op.pc = "finish" /\ override = NoCred /\ rot \in {"idle", "rotate2"}
        => mgr.verified /\ mgr.home = op.target

LEMMA WentHomeStep ==
    ASSUME IInv, WentHome, [Next]_vars
    PROVE  WentHome'
  <1> USE DEF WentHome, IInv, TypeOK
  <1>1. ASSUME VaultOp
        PROVE  UNCHANGED <<op, override, mgr>> /\ (rot' = "idle" => rot = "idle" \/ rot' = rot)
               /\ (rot' = "rotate2" => rot' = rot)
    BY <1>1 DEF VaultOp, UnlockVault, InitVault, LockVault, ResetVault, ResetVaultFails, AddTenant,
       UpdateTenant, RemoveTenant, SetActive, BeginTransition, Owes, authVars
  <1>2. CASE VaultOp
    BY <1>1, <1>2
  <1>3. CASE AuthReset
    BY <1>3 DEF AuthReset, InvalidateOverride, FirstRotate, ResetActive, SecondRotate,
       vaultVars, authVars
  <1>4. ASSUME NEW a \in Accounts \cup {NoAccount}, BeginAccountOp(a) PROVE WentHome'
    BY <1>4 DEF BeginAccountOp, NoOp
  <1>5. CASE AccountsListed \/ ReadEpoch \/ JwtMinted
    BY <1>5 DEF AccountsListed, ReadEpoch, JwtMinted, OpStates
  <1>6. CASE PortalFails \/ NothingToSwitch \/ FinishSwitch
    BY <1>6 DEF PortalFails, NothingToSwitch, FinishSwitch, Return, NoOp
  <1>7. CASE ResolveHome
    BY <1>7 DEF ResolveHome, OpStates
  <1>8. CASE SwitchHome
    BY <1>8 DEF SwitchHome, OpStates
  <1>9. CASE SetOverrideAt
    <2>1. CASE op.epoch # epoch
      BY <1>9, <2>1 DEF SetOverrideAt, Return, NoOp
    <2>2. CASE op.epoch = epoch
      <3>1. op.jwt.acct \in Accounts /\ override' = op.jwt
        BY <1>9, <2>2 DEF SetOverrideAt, PendingIsLive
      <3> QED
        BY <3>1, TenantSwitchAssumption DEF NoCred, NoSwitch
    <2> QED
      BY <2>1, <2>2
  <1>10. CASE UNCHANGED vars
    BY <1>10 DEF vars, vaultVars, authVars
  <1> QED
    BY <1>2, <1>3, <1>4, <1>5, <1>6, <1>7, <1>8, <1>9, <1>10 DEF Next, AccountStep

(* SwitchAlwaysServed: an answer ok to a switch, outside a transition,     *)
(* names the account that every request is then served in.                 *)
THEOREM SwitchAlwaysServed ==
    ASSUME Fallback = NoKey
    PROVE  Spec => SwitchIsServed
  <1> DEFINE Served == op.pc = "finish" /\ op'.pc = "idle" /\ rot = "idle" /\ Identity # NoKey
                           => AccountOf(Value) = mgr'.active
  <1>1. Init => WentHome
    BY DEF Init, WentHome, NoOp
  <1>2. IInv /\ WentHome /\ [Next]_vars => WentHome'
    BY WentHomeStep
  <1>3. IInv /\ WentHome /\ [Next]_vars => [Served]_vars
    <2> SUFFICES ASSUME IInv, WentHome, Next, op.pc = "finish", op'.pc = "idle", rot = "idle",
                        Identity # NoKey
                 PROVE  AccountOf(Value) = mgr'.active
      OBVIOUS
    <2>1. FinishSwitch
      BY DEF Next, VaultOp, UnlockVault, InitVault, LockVault, ResetVault, ResetVaultFails,
         AddTenant, UpdateTenant, RemoveTenant, SetActive, AuthReset, InvalidateOverride,
         FirstRotate, ResetActive, SecondRotate, BeginAccountOp, AccountStep, AccountsListed,
         PortalFails, ResolveHome, NothingToSwitch, SwitchHome, ReadEpoch, JwtMinted,
         SetOverrideAt
    <2>2. mgr'.active = op.target
      BY <2>1 DEF FinishSwitch, IInv, TypeOK, Managers
    <2>3. CASE override # NoCred
      BY <2>2, <2>3 DEF Value, AccountOf, IInv, ManagerFollows, NoSwitch
    <2>4. CASE override = NoCred
      <3>1. mgr.verified /\ mgr.home = op.target
        BY <2>4 DEF WentHome
      <3>2. op.target = HomeOf[Identity]
        BY <3>1 DEF IInv, HomeIsOfIdentity
      <3>3. Value = Plain(Identity)
        BY <2>4 DEF Value, Identity
      <3> QED
        BY <2>2, <3>2, <3>3 DEF AccountOf, Plain
    <2> QED
      BY <2>3, <2>4
  <1>4. Spec => []IInv
    BY Inductive
  <1>5. Spec => [][Served]_vars
    BY <1>1, <1>2, <1>3, <1>4, PTL DEF Spec
  <1> QED
    BY <1>5 DEF SwitchIsServed

-----------------------------------------------------------------------------
LEMMA SessionInit == Init => Session!Init
  <1> SUFFICES ASSUME Init PROVE Session!Init
    OBVIOUS
  <1>1. TypeOK
    BY InitIInv DEF IInv
  <1>2. SessionCred = Plain(Identity)
    BY DEF Init, SessionCred
  <1> QED
    BY <1>1, <1>2, IdentityType DEF Session!Init, Session!OwnKey, Plain, NoSwitch

(* SessionStep: every step of the server is a step of the session, or none. *)
LEMMA SessionStep ==
    ASSUME IInv, TypeOK', [Next]_vars
    PROVE  \/ Session!Next
           \/ UNCHANGED <<Identity, SessionCred>>
  <1> USE DEF IInv, SessionCred, Plain, Session!OwnKey, NoSwitch
  <1>0. Identity' \in Keys \cup {NoKey}
    <2>1. tenants' \in Stores
      BY DEF TypeOK
    <2>2. \A t \in DOMAIN tenants' : tenants'[t] \in Keys
      BY <2>1, StoreDomain
    <2> QED
      BY <2>2, TenantSwitchAssumption DEF Identity, ActiveKey
  <1>1. Session!SignInAs(Identity') => Session!Next
    BY <1>0 DEF Session!Next
  <1>2. Session!GoHome => Session!Next
    BY DEF Session!Next
  <1>3. CASE VaultOp
    <2>1. UNCHANGED override
      BY <1>3, VaultOpRotates DEF authVars
    <2>2. CASE rot' = "invalidate" \/ Identity' = NoKey
      BY <1>1, <2>2 DEF Session!SignInAs
    <2>3. CASE rot' = rot /\ Identity' = Identity
      BY <2>1, <2>3
    <2> QED
      BY <1>3, <2>2, <2>3, VaultOpRotates
  <1>4. CASE AuthReset
    <2>1. UNCHANGED vaultVars
      BY <1>4 DEF AuthReset, InvalidateOverride, FirstRotate, ResetActive, SecondRotate
    <2>2. Identity' = Identity
      BY <2>1, SameIdentity
    <2>3. CASE InvalidateOverride
      BY <2>2, <2>3 DEF InvalidateOverride
    <2>4. CASE FirstRotate \/ SecondRotate
      BY <2>2, <2>4 DEF FirstRotate, SecondRotate, authVars
    <2>5. CASE ResetActive
      BY <1>2, <2>2, <2>5 DEF ResetActive, Session!GoHome
    <2> QED
      BY <1>4, <2>3, <2>4, <2>5 DEF AuthReset
  <1>5. CASE AccountStep \/ \E a \in Accounts \cup {NoAccount} : BeginAccountOp(a)
    <2>1. UNCHANGED <<vaultVars, rot>>
      BY <1>5 DEF AccountStep, BeginAccountOp, AccountsListed, PortalFails,
         ResolveHome, NothingToSwitch, SwitchHome, ReadEpoch, JwtMinted,
         SetOverrideAt, FinishSwitch
    <2>2. Identity' = Identity
      BY <2>1, SameIdentity
    <2>3. CASE UNCHANGED override
      BY <2>1, <2>2, <2>3
    <2>4. CASE SwitchHome
      BY <1>2, <2>1, <2>2, <2>4 DEF SwitchHome, Session!GoHome
    <2>5. CASE SetOverrideAt /\ op.epoch = epoch /\ rot # "invalidate" /\ Identity # NoKey
      <3>1. /\ override' = op.jwt
            /\ op.jwt.by = Identity /\ op.jwt.acct = op.target
            /\ op.target \in Accounts /\ op.target \in MemberOf[Identity]
        BY <2>5 DEF SetOverrideAt, PendingIsLive
      <3>2. op.jwt = [by |-> Identity, acct |-> op.target]
        BY <3>1 DEF TypeOK, OpStates, Credentials
      <3>3. op.jwt # NoCred
        BY <3>1, TenantSwitchAssumption DEF NoCred
      <3>4. SessionCred' = op.jwt
        BY <2>1, <2>2, <2>5, <3>1, <3>3
      <3>5. Session!SwitchTo(op.target)
        BY <2>2, <2>5, <3>1, <3>2, <3>4 DEF Session!SwitchTo
      <3> QED
        BY <3>1, <3>5 DEF Session!Next
    <2>6. CASE SetOverrideAt /\ (rot = "invalidate" \/ Identity = NoKey)
      BY <2>1, <2>2, <2>6
    <2> QED
      BY <1>5, <2>3, <2>4, <2>5, <2>6
         DEF AccountStep, BeginAccountOp, AccountsListed, PortalFails, ResolveHome,
             NothingToSwitch, ReadEpoch, JwtMinted, SetOverrideAt, FinishSwitch,
             authVars
  <1>6. CASE UNCHANGED vars
    BY <1>6 DEF vars, Identity, ActiveKey
  <1> QED
    BY <1>3, <1>4, <1>5, <1>6 DEF Next

(* SessionRefined: the server, with its vault, mutexes and epoch, is one   *)
(* person's portal session, for every set of connections and accounts.     *)
THEOREM SessionRefined == Spec => ImplementsSession
  <1>1. Init => Session!Init
    BY SessionInit
  <1>2. IInv /\ IInv' /\ [Next]_vars => [Session!Next]_<<Identity, SessionCred>>
    BY SessionStep DEF IInv
  <1> QED
    BY <1>1, <1>2, Inductive, PTL DEF Spec, ImplementsSession, Session!Spec
=============================================================================
