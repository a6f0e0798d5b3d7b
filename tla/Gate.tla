-------------------------------- MODULE Gate --------------------------------
(***************************************************************************)
(* The browser's view of the vault: VaultGate.jsx (which screen is shown), *)
(* ConnStatus.jsx (the tenant chip and its write verdict), the connection  *)
(* list and the write switch of TenantManager.jsx, and lib/writeTarget.js, *)
(* against a server that another browser or a command may change as well.  *)
(*                                                                         *)
(* A request is sent, served and lands in three steps, so that answers may *)
(* land in another order than they were served.  Reads of one kind differ  *)
(* only in what they were answered and in whether a newer one was sent.    *)
(***************************************************************************)
EXTENDS Naturals, FiniteSets

CONSTANTS
    Tenants, NoTenant,
    Doings,     \* the operations and reads followed in one behaviour, one set each
    MaxReads    \* bound: reads of one kind in the air

ASSUME GateAssumption == NoTenant \notin Tenants /\ MaxReads \in Nat \ {0}

VARIABLES
    doing,   \* the operations and the reads this behaviour follows
    srv,     \* the server: vault, tenants, the target of a write, grants
    gate,    \* VaultGate: the last status that landed, or an error
    chip,    \* ConnStatus: status, locked flag, verdict, rows, switching
    sheet,   \* TenantManager: open, what it read, what it is doing
    air,     \* reads in the air
    post,    \* the change this browser has in the air
    told     \* history: what the server's last change was announced to

gvars == <<doing, srv, gate, chip, sheet, air, post, told>>

VaultStates == {"none", "locked", "empty", "ready"}
Target == [tenant |-> srv.active, away |-> srv.away]
NoVerdict == [state |-> "checking", target |-> [tenant |-> NoTenant, away |-> FALSE],
              writable |-> FALSE]
NoPost == [op |-> "none", arg |-> NoTenant, served |-> FALSE, ok |-> FALSE]
NoStatus == [vault |-> "unknown", active |-> NoTenant]

Closed == [open |-> FALSE, status |-> NoStatus, target |-> NoVerdict, busy |-> "no",
           err |-> FALSE]
NoChip == [mounted |-> FALSE, status |-> NoStatus, locked |-> FALSE, verdict |-> NoVerdict,
           rows |-> NoTenant, switching |-> FALSE]

GInit ==
    /\ doing \in Doings
    /\ \E v \in VaultStates :
           LET has == IF v \in {"ready", "locked"} THEN Tenants ELSE {}
           IN  \E a \in IF has = {} THEN {NoTenant} ELSE has :
                   srv = [vault |-> v, has |-> has, active |-> a, away |-> FALSE,
                          grants |-> {}]
    /\ gate = [vault |-> "unknown", err |-> FALSE, first |-> FALSE, busy |-> FALSE,
               setup |-> FALSE]
    /\ chip = NoChip
    /\ sheet = Closed
    /\ air = {[kind |-> "gate", newest |-> TRUE, ans |-> << >>]}
    /\ post = NoPost
    /\ told = [verdict |-> FALSE, rows |-> FALSE]

-----------------------------------------------------------------------------
(* Requests.                                                               *)

Reads(kind) == {r \in air : r.kind = kind}
\* Only the verdict reads are numbered (ConnStatus.jsx).
AskedAll(ns, kinds) ==
    {[r EXCEPT !.newest = @ /\ ~(r.kind = "verdict" /\ "verdict" \in kinds)] : r \in ns}
        \union {[kind |-> k, newest |-> TRUE, ans |-> << >>] : k \in kinds}
Asked(ns, kind) == AskedAll(ns, {kind})
Room(kind) == Cardinality(Reads(kind)) < IF kind \in {"gate", "verdict"} THEN MaxReads ELSE 1

\* What the page asks as it mounts behind the gate, and as Settings opens:
\* the reads this behaviour follows.
ChipKinds == {"chip", "verdict", "rows"} \intersect doing
SheetKinds == {"sheetStatus", "sheetTarget"} \intersect doing
SheetAsks == IF sheet.open THEN SheetKinds ELSE {}

\* What a served read is answered with.
StatusNow == [vault |-> srv.vault, active |-> srv.active]
VerdictNow ==
    IF srv.vault # "ready" THEN [NoVerdict EXCEPT !.state = "unknown"]
    ELSE [state |-> "known", target |-> Target, writable |-> Target \in srv.grants]
AnswerOf(kind) ==
    CASE kind \in {"gate", "chip", "sheetStatus"} -> StatusNow
      [] kind \in {"verdict", "sheetTarget"} -> VerdictNow
      [] kind = "rows" -> IF srv.vault = "ready" THEN srv.active ELSE "503"

Serve(r) ==
    /\ r.ans = << >>
    /\ air' = (air \ {r}) \union {[kind |-> r.kind, newest |-> r.newest,
                                   ans |-> <<AnswerOf(r.kind)>>]}
    /\ UNCHANGED <<doing, srv, gate, chip, sheet, post, told>>

-----------------------------------------------------------------------------
(* Which screen: VaultGate's render.                                       *)

ScreenOf(g) ==
    IF g.err THEN "unavailable"
    ELSE CASE g.vault = "unknown" -> "loading"
           [] g.vault = "none" -> "setup"
           [] g.vault = "locked" -> "unlock"
           [] g.vault = "empty" -> "firstTenant"
           [] g.vault = "ready" -> "dashboard"
Screen == ScreenOf(gate)

\* The dashboard mounts and unmounts with the screen: its components ask when
\* they mount, and what they held or were waiting for goes with them.  Whether
\* Settings is open is App's state and outlives them.
ShowScreen(g, ns) ==
    /\ gate' = g
    /\ IF ScreenOf(g) = "dashboard"
         THEN IF chip.mounted
                THEN air' = ns /\ UNCHANGED <<chip, sheet>>
                ELSE /\ air' = AskedAll(ns, ChipKinds \union SheetAsks)
                     /\ chip' = [NoChip EXCEPT !.mounted = TRUE]
                     /\ UNCHANGED sheet
         ELSE /\ air' = {r \in ns : r.kind = "gate"}
              /\ chip' = NoChip /\ sheet' = [Closed EXCEPT !.open = sheet.open]

\* A status read lands, whichever read it is.
GateLands(r) ==
    LET v == r.ans[1].vault
        ready == v = "ready"
    IN  /\ r.kind = "gate" /\ r.ans # << >>
        /\ ShowScreen([gate EXCEPT !.vault = v, !.err = FALSE, !.busy = FALSE,
                                   !.first = @ /\ ~ready,
                                   !.setup = @ \/ (gate.first /\ ready)], air \ {r})
        /\ UNCHANGED <<doing, srv, post, told>>

GateFails(r) ==
    /\ "fail" \in doing /\ r.kind = "gate"
    /\ ShowScreen([gate EXCEPT !.err = TRUE, !.busy = FALSE], air \ {r})
    /\ UNCHANGED <<doing, srv, post, told>>

RetryGate ==
    /\ Screen = "unavailable" /\ Room("gate")
    /\ air' = Asked(air, "gate")
    /\ UNCHANGED <<doing, srv, gate, chip, sheet, post, told>>

\* Setup, Unlock, FirstTenant and the reset: one request at a time, then the
\* gate reads the status again, for a reset whatever the answer was.
GateOps == [setup |-> {"init"}, unlock |-> {"unlock", "reset"}, firstTenant |-> {"add"}]
SubmitForm(op) ==
    /\ op \in doing /\ Screen \in DOMAIN GateOps /\ op \in GateOps[Screen]
    /\ ~gate.busy /\ post = NoPost
    /\ gate' = [gate EXCEPT !.busy = TRUE]
    /\ post' = [NoPost EXCEPT !.op = op]
    /\ UNCHANGED <<doing, srv, chip, sheet, air, told>>

SubmitLands ==
    LET again == post.ok \/ post.op = "reset"
    IN  /\ post.served /\ post.op \in {"init", "unlock", "reset", "add"}
        /\ again => Room("gate")
        /\ gate' = [gate EXCEPT !.busy = FALSE,
                                !.first = @ \/ (post.ok /\ post.op = "add")]
        /\ air' = IF again THEN Asked(air, "gate") ELSE air
        /\ post' = NoPost
        /\ UNCHANGED <<doing, srv, chip, sheet, told>>

\* bx:vault-locked: the gate asks again, and the chip says locked.
LockedEvent(ns, c) ==
    /\ air' = Asked(ns, "gate")
    /\ chip' = [c EXCEPT !.locked = TRUE]

-----------------------------------------------------------------------------
(* The chip.                                                               *)

\* A poll of status, verdict or rows.
PollGate(kind) ==
    /\ chip.mounted /\ kind \in ChipKinds /\ Room(kind)
    /\ air' = Asked(air, kind)
    /\ UNCHANGED <<doing, srv, gate, chip, sheet, post, told>>

\* useApi keeps the old object for an identical payload, and the effect that
\* clears the locked flag runs only for a new one.
ChipLands(r) ==
    LET s == r.ans[1]
        new == s # chip.status
    IN  /\ r.kind = "chip" /\ r.ans # << >>
        /\ chip' = [chip EXCEPT !.status = s, !.locked = @ /\ ~(new /\ s.vault = "ready")]
        /\ air' = air \ {r}
        /\ UNCHANGED <<doing, srv, gate, sheet, post, told>>

\* Only the newest read counts; one that fails discards the verdict.
VerdictLands(r) ==
    /\ r.kind = "verdict" /\ r.ans # << >>
    /\ chip' = IF r.newest THEN [chip EXCEPT !.verdict = r.ans[1]] ELSE chip
    /\ air' = air \ {r}
    /\ UNCHANGED <<doing, srv, gate, sheet, post, told>>

VerdictFails(r) ==
    /\ "fail" \in doing /\ r.kind = "verdict"
    /\ chip' = IF r.newest
                 THEN [chip EXCEPT !.verdict = [NoVerdict EXCEPT !.state = "error"]]
                 ELSE chip
    /\ air' = air \ {r}
    /\ UNCHANGED <<doing, srv, gate, sheet, post, told>>

\* A panel's rows, or the 503 of a locked vault, which every feed announces.
RowsLand(r) ==
    /\ r.kind = "rows" /\ r.ans # << >>
    /\ IF r.ans[1] = "503"
         THEN LockedEvent(air \ {r}, [chip EXCEPT !.rows = NoTenant])
         ELSE /\ chip' = [chip EXCEPT !.rows = r.ans[1]]
              /\ air' = air \ {r}
    /\ UNCHANGED <<doing, srv, gate, sheet, post, told>>

-----------------------------------------------------------------------------
(* Settings: open, read, and the changes it makes.                         *)

OpenSheet ==
    /\ SheetKinds # {} /\ chip.mounted /\ ~sheet.open
    /\ sheet' = [Closed EXCEPT !.open = TRUE]
    /\ air' = AskedAll(air, SheetKinds)
    /\ UNCHANGED <<doing, srv, gate, chip, post, told>>

CloseSheet ==
    /\ sheet.open /\ chip.mounted
    /\ sheet' = Closed
    /\ air' = {r \in air : r.kind \notin SheetKinds}
    /\ UNCHANGED <<doing, srv, gate, chip, post, told>>

SheetLands(r) ==
    /\ r.kind \in SheetKinds /\ r.ans # << >>
    /\ sheet' = IF r.kind = "sheetStatus" THEN [sheet EXCEPT !.status = r.ans[1]]
                                          ELSE [sheet EXCEPT !.target = r.ans[1]]
    /\ air' = air \ {r}
    /\ UNCHANGED <<doing, srv, gate, chip, post, told>>

\* The changes: switching the tenant (from the chip or the sheet) or the CSP
\* account, the write switch (which names no tenant), removing a connection,
\* locking.
PressOp(op, t) ==
    /\ op \in doing /\ post = NoPost /\ chip.mounted
    /\ \/ op = "switch" /\ chip.status.vault = "ready" /\ ~chip.switching
          /\ t \in Tenants \ {chip.status.active}
          /\ chip' = [chip EXCEPT !.switching = TRUE] /\ UNCHANGED sheet
       \/ op = "activate" /\ sheet.open /\ sheet.busy = "no" /\ sheet.status.vault = "ready"
          /\ t \in Tenants \ {sheet.status.active}
          /\ sheet' = [sheet EXCEPT !.busy = "switch"] /\ UNCHANGED chip
       \/ op = "account" /\ sheet.open /\ t = NoTenant /\ UNCHANGED <<chip, sheet>>
       \/ op \in {"grant", "revoke"} /\ sheet.open /\ sheet.busy = "no" /\ t = NoTenant
          /\ sheet.target.state = "known" /\ (sheet.target.writable <=> op = "revoke")
          /\ sheet' = [sheet EXCEPT !.busy = "grant", !.err = FALSE] /\ UNCHANGED chip
       \/ op = "remove" /\ sheet.open /\ t \in Tenants /\ sheet.status.vault = "ready"
          /\ UNCHANGED <<chip, sheet>>
       \/ op = "lock" /\ sheet.open /\ sheet.busy = "no" /\ t = NoTenant
          /\ sheet' = [sheet EXCEPT !.busy = "lock"] /\ UNCHANGED chip
    /\ post' = [NoPost EXCEPT !.op = op, !.arg = t]
    /\ UNCHANGED <<doing, srv, gate, air, told>>

\* What the server does with a change, and that nobody was told of it yet.
Activated(s, t) == [s EXCEPT !.active = t, !.away = FALSE]
Without(s, t) ==
    LET left == s.has \ {t}
        s2 == [s EXCEPT !.has = left, !.grants = {g \in @ : g.tenant # t},
                        !.vault = IF left = {} THEN "empty" ELSE @]
    IN  IF s.active # t THEN s2
        ELSE Activated(s2, IF left = {} THEN NoTenant ELSE CHOOSE x \in left : TRUE)
Results(s, op, t) ==
    CASE op = "init" /\ s.vault = "none" -> {[s EXCEPT !.vault = "empty"]}
      [] op = "unlock" /\ s.vault = "locked" ->
             {[s EXCEPT !.vault = IF s.has = {} THEN "empty" ELSE "ready"]}
      [] op = "reset" -> {[s EXCEPT !.vault = "none", !.has = {}, !.active = NoTenant,
                                    !.away = FALSE, !.grants = {}]}
      [] op = "add" /\ s.vault = "empty" ->
             {[Activated(s, x) EXCEPT !.vault = "ready", !.has = {x}] : x \in Tenants}
      [] op = "lock" /\ s.vault \in {"empty", "ready"} ->
             {[s EXCEPT !.vault = "locked", !.away = FALSE]}
      [] op \in {"switch", "activate"} /\ s.vault = "ready" /\ t \in s.has -> {Activated(s, t)}
      [] op = "account" /\ s.vault = "ready" -> {[s EXCEPT !.away = ~@]}
      [] op = "grant" /\ s.vault = "ready" ->
             {[s EXCEPT !.grants = @ \union {[tenant |-> s.active, away |-> s.away]}]}
      [] op = "revoke" /\ s.vault = "ready" ->
             {[s EXCEPT !.grants = @ \ {[tenant |-> s.active, away |-> s.away]}]}
      [] op = "remove" /\ s.vault = "ready" /\ t \in s.has -> {Without(s, t)}
      [] OTHER -> {}

ServePost ==
    /\ post.op # "none" /\ ~post.served
    /\ LET after == Results(srv, post.op, post.arg)
       IN  \/ /\ srv' \in after
              /\ post' = [post EXCEPT !.served = TRUE, !.ok = TRUE]
              /\ told' = [verdict |-> FALSE, rows |-> FALSE]
           \/ /\ after = {} \/ "fail" \in doing
              /\ post' = [post EXCEPT !.served = TRUE]
              /\ UNCHANGED <<srv, told>>
    /\ UNCHANGED <<doing, gate, chip, sheet, air>>

\* Another browser, or a command.
OtherActs(op, t) ==
    /\ "other" \in doing /\ op \in doing
    /\ srv' \in Results(srv, op, t)
    /\ told' = [verdict |-> FALSE, rows |-> FALSE]
    /\ UNCHANGED <<doing, gate, chip, sheet, air, post>>

\* location.reload(): everything the page held, and was waiting for, is gone.
Reload ==
    /\ gate' = [vault |-> "unknown", err |-> FALSE, first |-> FALSE, busy |-> FALSE,
                setup |-> FALSE]
    /\ chip' = NoChip /\ sheet' = Closed
    /\ air' = {[kind |-> "gate", newest |-> TRUE, ans |-> << >>]}

Switches == {"switch", "activate", "account"}
NotSwitching ==
    /\ chip' = [chip EXCEPT !.switching = FALSE]
    /\ sheet' = [sheet EXCEPT !.busy = "no"]

\* Mutant: a switch that succeeded leaves the page as it is.
SwitchLandsNoReload ==
    /\ post.served /\ post.op \in Switches
    /\ NotSwitching
    /\ air' = IF chip.mounted THEN AskedAll(air, SheetAsks) ELSE air
    /\ UNCHANGED gate
    /\ told' = IF post.ok THEN [told EXCEPT !.rows = TRUE] ELSE told
    /\ post' = NoPost
    /\ UNCHANGED <<doing, srv>>

\* A switch that succeeded reloads the page; one that was refused says why.
SwitchLands ==
    /\ post.served /\ post.op \in Switches
    /\ IF post.ok THEN Reload
       ELSE NotSwitching /\ UNCHANGED <<gate, air>>
    /\ told' = IF post.ok THEN [told EXCEPT !.rows = TRUE] ELSE told
    /\ post' = NoPost
    /\ UNCHANGED <<doing, srv>>

\* The chip's own fetch is not caught: when it never lands, the chip goes on
\* switching, and says nothing.
SwitchLost ==
    /\ "lost" \in doing /\ post.op = "switch"
    /\ post' = NoPost
    /\ UNCHANGED <<doing, srv, gate, chip, sheet, air, told>>

\* setWritable: on success the sheet reads again and bx:write-target hides the
\* chip's verdict until a read sent now has landed.
WritableLands ==
    /\ post.served /\ post.op \in {"grant", "revoke"}
    /\ sheet' = IF sheet.open THEN [sheet EXCEPT !.busy = "no", !.err = ~post.ok] ELSE sheet
    /\ IF post.ok
         THEN /\ air' = IF chip.mounted
                        THEN AskedAll(air, (ChipKinds \intersect {"verdict"}) \union SheetAsks)
                        ELSE air
              /\ chip' = IF chip.mounted THEN [chip EXCEPT !.verdict = NoVerdict] ELSE chip
              /\ told' = [told EXCEPT !.verdict = TRUE]
         ELSE UNCHANGED <<air, chip, told>>
    /\ post' = NoPost
    /\ UNCHANGED <<doing, srv, gate>>

\* remove: whatever the answer, the sheet reads again and nothing else does.
RemoveLands ==
    /\ post.served /\ post.op = "remove"
    /\ air' = IF chip.mounted THEN AskedAll(air, SheetAsks) ELSE air
    /\ post' = NoPost
    /\ UNCHANGED <<doing, srv, gate, chip, sheet, told>>

\* lockNow: whatever the answer, the lock is announced and the sheet closes.
LockLands ==
    /\ post.served /\ post.op = "lock" /\ Room("gate")
    /\ LockedEvent({r \in air : r.kind \notin SheetKinds}, chip)
    /\ sheet' = Closed
    /\ post' = NoPost
    /\ UNCHANGED <<doing, srv, gate, told>>

-----------------------------------------------------------------------------
Ops == {"init", "unlock", "reset", "add", "lock", "switch", "activate", "account", "grant",
        "revoke", "remove"}

GNext ==
    \/ \E r \in air :
           \/ Serve(r) \/ GateLands(r) \/ GateFails(r) \/ ChipLands(r) \/ VerdictLands(r)
           \/ VerdictFails(r) \/ RowsLand(r) \/ SheetLands(r)
    \/ RetryGate
    \/ \E op \in Ops, t \in Tenants \union {NoTenant} :
           SubmitForm(op) \/ PressOp(op, t) \/ OtherActs(op, t)
    \/ SubmitLands \/ ServePost \/ SwitchLands \/ SwitchLost \/ WritableLands \/ RemoveLands \/ LockLands
    \/ \E kind \in ChipKinds : PollGate(kind)
    \/ OpenSheet \/ CloseSheet

\* The server answers and answers land; the page polls as long as it is shown.
GFairness ==
    /\ \A kind \in {"gate", "rows"} : WF_gvars(\E r \in Reads(kind) : Serve(r))
    /\ WF_gvars(\E r \in air : GateLands(r) \/ GateFails(r))
    /\ WF_gvars(\E r \in air : RowsLand(r))
    /\ WF_gvars(PollGate("rows"))

GSpec == GInit /\ [][GNext]_gvars /\ GFairness

-----------------------------------------------------------------------------
\* What the server, the three views of it and the requests hold.
MaybeTenant == Tenants \union {NoTenant}
Targets == [tenant : MaybeTenant, away : BOOLEAN]
Statuses == [vault : VaultStates \union {"unknown"}, active : MaybeTenant]
Verdicts == [state : {"checking", "known", "unknown", "error"}, target : Targets, writable : BOOLEAN]
Answers(kind) ==
    CASE kind \in {"gate", "chip", "sheetStatus"} -> Statuses
      [] kind \in {"verdict", "sheetTarget"} -> Verdicts
      [] kind = "rows" -> MaybeTenant \union {"503"}
GTypeOK ==
    /\ doing \in Doings \union {{}}
    /\ srv \in [vault : VaultStates, has : SUBSET Tenants, active : MaybeTenant, away : BOOLEAN,
                grants : SUBSET Targets]
    /\ gate \in [vault : VaultStates \union {"unknown"}, err : BOOLEAN, first : BOOLEAN,
                 busy : BOOLEAN, setup : BOOLEAN]
    /\ chip \in [mounted : BOOLEAN, status : Statuses, locked : BOOLEAN, verdict : Verdicts,
                 rows : MaybeTenant, switching : BOOLEAN]
    /\ sheet \in [open : BOOLEAN, status : Statuses, target : Verdicts,
                  busy : {"no", "switch", "grant", "lock"}, err : BOOLEAN]
    /\ post \in [op : Ops \union {"none"}, arg : MaybeTenant, served : BOOLEAN, ok : BOOLEAN]
    /\ told \in [verdict : BOOLEAN, rows : BOOLEAN]
    /\ \A r \in air : r.ans = << >> \/ r.ans[1] \in Answers(r.kind)

\* After a grant or a revocation made here, the chip never shows a verdict
\* that is not the server's, though older reads are still in the air; a change
\* made elsewhere is told to nobody until a poll (ConnStatus.jsx 7-19).
VerdictIsTrue ==
    told.verdict /\ chip.verdict.state = "known" => chip.verdict = VerdictNow

\* Once a switch made here has been answered, no panel shows the rows of the
\* tenant that was left (ConnStatus.jsx 181-193, TenantManager.jsx 174-186).
RowsAreOfTheActiveTenant ==
    told.rows /\ chip.rows # NoTenant => chip.rows = srv.active

\* The chip shows no verdict but the server's after a grant made here, and no
\* panel shows the rows of a tenant that was left (ConnStatus.jsx 7-19,
\* TenantManager.jsx 174-186).
GateTellsTheTruth == GTypeOK /\ VerdictIsTrue /\ RowsAreOfTheActiveTenant

\* A vault that is locked for good reaches the screen: the dashboard does not
\* stay up, whichever order the status answers land in (VaultGate.jsx 224-250).
LockReachesTheGate ==
    <>[](srv.vault = "locked") => []<>(Screen # "dashboard")

=============================================================================
