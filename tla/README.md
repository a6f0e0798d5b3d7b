# Bloxsmith in TLA+

Bloxsmith is a local web server (`src/go`) that speaks to the Infoblox portal for
whoever runs it, and the browser interface it serves (`src/ui/src`).  The server
keeps the portal API keys in an encrypted vault, reads dashboards through a cache,
provisions and tears down sites, and keeps a record of everything it made.  The
browser reads all of that through polling feeds, lets its operator arrange what is
shown, and drives every change through forms that preview before they apply.

This directory models both: who the server speaks for, what it caches, what it
writes and deletes and what is left when something stops half-way; and, in the
browser, what is shown when answers come late, cross, or do not come.

    tlc -workers 2 -config MCSession.cfg MCSession.tla    # one run
    tlapm TenantSwitchProofs.tla                          # one module of proofs

`PROJECT.json` lists the components, the runs with their properties, a mutant
per property (the code with a plausible bug, which the property must catch), the
lines each definition translates, the hazards, the findings and the theorems.

Inside a module a definition preceded by `\* Mutant:` is such a broken variant of
the one below it.  `Next` never uses it.

## 1. Inventory

Paths are under `src/go/` or, for the browser, under `src/ui/src/`.

### Identity

| component | state | operations | what must hold |
|---|---|---|---|
| vault connections, `internal/vault/{vault,manage}.go` | `unlocked`, `tenants`, `active`, `key`; `v.mu` and `switchMu` | Unlock, Init, Lock, Reset, Add, Update, Remove, SetActive, and the callback `onAuthReset` | nothing of the previous identity survives a transition; every transition ends |
| write permissions, `internal/vault/writelock.go` | `writeAllowed` | SetWritable; loss on replace, rename, remove | a permission never passes to another key |
| vault file, `vault.go`, `passcli_rotate.go` | `vault.json`, its `.tmp`, the backup | save, migrate, Rotate, wipe; the rotate command | the stored data can always be read back; memory and file agree |
| outbound identity, `internal/rest/rest.go` | `override`, `overrideEpoch` | Value, IdentityValue, SetOverride(At), InvalidateOverride, Pin | a switch credential is only sent for the person who minted it |
| account manager, `internal/account/account.go` | `home`, `homeVerified`, `active`; `m.mu` held across portal calls | ListAccounts, SwitchAccount, ResetActive, Active | what it reports is what requests use |
| auth reset, `main.go` 597-602 | none | the four steps that tie the three together | see above |

`switchMu` serialises vault transitions.  A transition commits under `v.mu`, lets
it go and then, still under `switchMu`, runs `authReset`: InvalidateOverride,
Rotate, ResetActive (which waits for `m.mu`), Rotate.  Account operations hold
only `m.mu`, so they interleave with every step of it.

### Requests and cache

| component | state | operations | what must hold |
|---|---|---|---|
| tenant pin and write lock, `internal/server/{tenant,writelock}.go` | the request's pinned client | withPinnedTenant, withWriteLock, writeIdentity, exportWriter, dash | a write lands in the account it was allowed for |
| guards, `internal/httpx/httpx.go` | none | VaultGate, host, origin and token checks | order: pin, gate, lock, handler |
| unlock throttle, `internal/httpx/unlock_throttle.go` | failures per client, slots | check, wait, record | no attempt escapes the count; the slot is given back |
| cache, `internal/cache/cache.go` | `entries`, `inflight`, `gen` | Get, Do, SetGen, Rotate, Invalidate | no stale generation; one fetch per key; waiters are released |
| fetchers and readers, `internal/dashboard`, `internal/server` | none | Get, Gen, pinned fetch, SetGen | rows of one tenant are not shown to another |
| portal query session, `internal/mcp/mcp.go` | session id, identity | handshake, call, drop | a session belongs to the identity that opened it |

### Building and removing

| component | state | operations | what must hold |
|---|---|---|---|
| change desk, `internal/server/desk*.go` | the demo locks, in-flight requests | deskRun, deskRemove, startKitServer | what a Build made can be removed, and only that |
| run ledger, `internal/runs/runs.go` | `desk_runs.json` | Open, Add, Change, Get | a run is never stuck busy |
| demo server, `internal/demo` | records, `build.lock` | build, teardown, lock takeover | one worker; removed means gone |
| provisioner, `internal/provision/{site,template,helpers}.go` | what this request made | create, record, roll back | a failed build leaves nothing it does not name |
| teardown, `internal/provision/{decommission,export}.go` | the plan and its record | plan, record, delete in order | nothing unrecorded deleted; a retry finishes |
| audit log, `internal/audit/{audit,head,key}.go` | the chain, the sealed head, the key | Append, seal, Adopt, Verify; the offline verifier | an honest log is not accused; one called intact has lost nothing that was sealed |
| address blocks, `block.go`; hosts and drift, `hosts.go`, `drift.go` | as above | recursive build, paging, comparison | found blocks survive a rollback |
| restore command, `restorecli*.go` | the record it reads | plan, apply | old ids map to new ones |
| record edits, `internal/edit` | none | check against what the caller held, write; allocate, create, release | an edit overwrites only what was seen; an allocation is released only if unused |

### The browser

| component | state | operations | what must hold |
|---|---|---|---|
| data feeds, `lib/api.js` | per call site: url, rows, error, retries, timer; per url: the shared answer and its sequence | mount, change url, poll, retry, adopt, wait, "Try again" | one url's rows are never shown under another; an adopted answer is the newest, or older than the url's numbering; no feed waits for ever |
| vault gate, header, settings, `components/{VaultGate,ConnStatus,TenantManager}.jsx`, `lib/writeTarget.js` | the last status, the chip's verdict and rows, the sheet | every vault change the browser makes, and the reads beside it | the verdict shown is the server's; a locked vault reaches the screen |
| AI page, lookup, search, `tabs/Ai.jsx`, `components/{AiProviderForm,DossierPage}.jsx` | the chat and its notice, the lookup with kept answers, five rows and their summary | ask, follow a link, look up, search, announce | tenant data goes only where it was understood to; a summary waits for its sources |
| self-update, `lib/updateState.js`, `components/UpdateButton.jsx` | numbered checks, the server's memory of its last look, the install's phase | check, press, install, poll, probe, reload | the answer shown is of no older look than one that landed before; an install ends |
| page frame, `App.jsx` and its dialogs | address, menu, five dialogs, focus, lazy files | open, close, go to a tab, reload | focus follows the dialog; a tab whose file is gone ends |
| panel layout, `components/ui.jsx` CardGrid, `lib/layout.js` | order, widths, hidden, saves in the air | load, drag, keyboard move, resize, hide, put back | the screen is what is saved; rows end flush |
| saved charts, `tabs/ChartBuilder.jsx`, `lib/{chartBuilder,savedCharts}.js`, `components/SavedChart.jsx` | the menus, the form, chains of requests | add, save again, replace a panel, restore | a replaced panel has its chart; "Added" is true |
| tables, `components/DataTable.jsx` | columns, painted widths, the observer | render, sort, resize, measure | widths fill the box; nothing clips unmarked |
| audit pages, `tabs/Audit.jsx`, `lib/auditChain.js` | the newest page, the joined view, the portal's search | poll, load older, verify, search | what is shown is one chain without a hole |
| changes page, `tabs/Changes.jsx`, `lib/changes.js` | the window, the clock, the payload | open, tick, poll | a quiet day is one; nobody is called new who is not |
| provision, self service, automate, `tabs/{Provision,SelfService,Automate}.jsx` | the flows, their inputs, the role and permission, the list of runs | preview, apply, leave, edit a record, page, delete | what is applied was seen; what is said was done |
| editor, demo page, `tabs/{Editor,DemoServer}.jsx` and the settings form | the item, its preview, an armed delete; the plan, streams | find, pick, preview, apply, delete; preview, build, tear down | as above |

The other pages draw what one feed holds, through the feeds, the layout and the
tables above.

Hard behaviours, in one place: a switch of identity meeting requests in flight;
portal answers that are late, lost or incomplete; mutexes held across network
calls; kills and power cuts between system calls; an update of one shared file by
several requests; retries of what was half done; other people working in the same
portal account; in the browser, effects that run after the render they belong to,
answers for what is no longer on screen, saves and loads that cross, and inputs
that change while their preview is being made.

### The rest

Local stores (`internal/store`), AI service (`internal/ai`), self-update (`apply.go`,
`update.go`), state backup and restore (`vaultbackupcli.go`), service wrapper and
commands, event streams and request log, scripts and vendored code.

`PROJECT.json` lists forty hazards, each at its line with the property that covers
it.  Known and not covered yet, all of the server: a crash during a demo build that
leaves its run building (`desk_site.go` 446); two processes that both take over an
old `build.lock` (`demo/run.go` 146); a teardown started during a build and retried
after it (`decommission.go` 194); one audit log written by two processes
(`audit.go` 351); a block found and not made (`block.go` 256); a restore stopped
half-way (`restorecli_apply.go` 119); the swap of templates (`apply.go` 351); a
release after an unclear answer (`edit.go` 905); the age of a server that was away
(`store.go` 304).

## 2. Modules

Each module's opening comment says what it covers.  Throughout, a section the code
runs under a mutex without leaving it is one action; a call to the portal, a system
call, or a mutex kept across a call is where other actors interleave.  In the
browser a handler and the render after it are one action, and effects, timers and
answers are actions of their own.

| module | models | proofs |
|---|---|---|
| `PortalSession` | abstract: one person, one credential | |
| `TenantSwitch` | vault connections, auth slot, account manager, auth reset; refines `PortalSession` | `TenantSwitchProofs` |
| `WriteLock` | write permissions and one tenant-changing request, over `TenantSwitch` | `VaultProofs` |
| `TenantReads` | a fetcher's read and the cache entry it fills, over `TenantSwitch` | `VaultProofs` |
| `Cache` | the cache's own machinery | `SessionProofs` |
| `McpSession` | the portal query session | `SessionProofs` |
| `UnlockThrottle` | slot and lockout before the vault's unlock | `SessionProofs` |
| `Session` | the parts of the server that outlive a request, side by side: `TenantSwitch`, `Cache`, `UnlockThrottle`, `McpSession` | `SessionProofs` |
| `VaultFile` | `vault.json` on disk, the rotate command | `VaultProofs` |
| `Desk` | desk requests, ledger, kit server, people in the portal | `DeskProofs` |
| `Provision` | site builds, rollback, teardown | `ProvisionProofs` |
| `AuditLog` | chain, sealed head, key, and their judges | `ProvisionProofs` |
| `Feeds` | the browser's data feeds | `BrowserProofs` |
| `Ask` | the chat, the lookup and the search page | `BrowserProofs` |
| `Gate` | the vault gate, the header and Settings | `BrowserProofs` |
| `Update`, `Frame` | the update button; the page frame with its dialogs | `BrowserProofs` |
| `AuditPages` | the Audit tab: its log and its search | `PagesProofs` |
| `Changes` | the page of the day's changes | `PagesProofs` |
| `Charts` | the chart builder and the charts saved onto a page | `PagesProofs` |
| `Layout`, `Columns` | what else the pages show | |
| `Forms` | preview and apply, the role, the list of recent changes | `FormsProofs` |
| `Records`, `Editor` | the record edit and the paged list; the Editor | `FormsProofs` |
| `Writes` | the pages that change the tenant, side by side: `Forms`, `Records`, `Editor` | `FormsProofs` |
| `DemoPage` | the demo server's page | |
| `MCTenantSwitch`, `MCSession`, `MCVault`, `MCDesk`, `MCProvision`, `MCBrowser`, `MCPages`, `MCForms` | instances for TLC | |

The parts of one instance that share no modelled state are run as scenes: the first
state chooses a `scene`, that part moves and the others rest in one fixed state.
Interleaving them would multiply their states and add no behaviour of any of them.

### TenantSwitch

Variables are the Go fields named beside them.  `rot` is how far the holder of
`switchMu` has come in `authReset`; `op` is the account operation that holds
`m.mu`, with its local variables.  A credential is a pair: the key that signed it
and the account it was minted for.

| action | code |
|---|---|
| `UnlockVault` ... `ResetVault`, `ResetVaultFails` | the `...R` methods of `manage.go`; a transition whose save fails puts its snapshot back before `v.mu` is released, which is a stutter |
| `InvalidateOverride`, `FirstRotate`, `ResetActive`, `SecondRotate` | the closure in `main.go` |
| `BeginAccountOp` ... `FinishSwitch` | `ListAccounts` and `SwitchAccount`, split at each portal call and each lock of the auth slot |

The portal is external: it lists the accounts of the key that asks and mints a JWT
for one of them, or fails.  With no `API_KEY` in the environment (`Fallback = NoKey`)
the vault alone decides.

`PortalSession` is what this should look like from outside: `SignInAs`, `SwitchTo`,
`GoHome`.  The refinement maps `who` to the live key and `cred` to what requests are
signed with, except that a switch credential counts as gone from the moment a
transition commits.  Between the commit and `InvalidateOverride` the code does
still send it: the map says where the guarantee begins.

### WriteLock

A tenant-changing request pins a credential (`PinOverride`, then `PinKey` if there
was no override), resolves its identity (`ReadTenant`, `ReadSwitch`, `ReadAccount`:
three locks), is judged (`CheckWritable`), passes the gate, and writes.  A teardown
resolves the identity a second time for its record (`phase = "export"`).
`CheckWritable` compares what it was told against `writeAllowed`.  `grantKey` and
`calm` are history variables: the key behind an identity when it was granted, and
whether anything the request's target depends on has changed since it read the
override.

### TenantReads

The same pin and gate, then `Lookup`, `CaptureGen`, `Fetch`, `SetGen`: the shape of
every fetcher in `internal/dashboard`.  Cache keys do not name a tenant, so one entry
stands for all.  `DropRows` is expiry, eviction and cacheBust.  `prompt` is history:
the fetch pinned and fenced in one generation.  `PromptRowsAreLive` is about a vault
with an active connection: without one a wipe whose file cannot be removed (finding
`failed_wipe`) changes what an `API_KEY` in the environment is used for, and owes no
Rotate.

### Cache

`Hit`, `Attach` and `Lead` are the three ways into `Do`.  A leader then fetches
(or fails, or panics), stores under its fence (`SetGen`) and lands.  A fetched
value is represented by the era it was fetched in: the generation, and how many cache
busts there had been (`bust` is a history count).  `order` stands for the entries'
time stamps, so that `evict` drops its head.

### McpSession

`initMu` is held for a whole handshake and `c.mu` for single reads and writes, so a
caller's steps fall between another's.  The endpoint is external: it opens a session,
answers, refuses a session it has dropped, or says nothing until the caller's time
limit (`Expires`).  A session is a number that grows with each one opened.

### UnlockThrottle

`Do` is split where it releases its mutex: the first lockout check, the wait for the
slot with its time limit, the second check, the derivation, and `record`.  The time
is a bounded clock.  `wrong` is history: per client how many wrong attempts there have
been in a row, when the last one was, and whether the table has let go of it since.

### VaultFile

`save` is four system calls: `CreateTmp`, `WriteTmp`, `RenameTmp`, `SyncDir`, each
of which may fail, after which `UndoSave` does what the caller does (restore the
snapshot, the old key, the old version).  `durable` is what a power cut would
leave.  scrypt is a symbolic injective function of passphrase, salt and version.
The rotate command is `RotateOpens` to `RotateVerified`, or `VerifyFails` and the two
steps of its restore: it truncates `vault.json` and then refills it.  `acked` is the
last payload that was answered ok and flushed.

### Desk

Each handler is one request.  `deskRun` opens a ledger entry (status building),
creates, and records (`RecordBuild`); a kit's run then starts a goroutine (`srv`).
`deskRemove` reads the entry (`AskRemove`), marks it under the ledger's lock
(`MarkRemoving`), deletes in rank order (server, addresses, networks) with an
emptiness check before each network, and saves (`SaveRemove`).  `PersonAdds` and
`PersonDeletes` are other people in the portal; `Restart` loses every handler and
goroutine and runs `runs.Open`.  A network stands for all containers, an address
for all that lives in one.

### Provision

The portal is a map from what an object is to who made it.  A create can be refused,
succeed, succeed without naming the object, or succeed with its answer lost (up to
`MaxWrong` such answers).  A build goes through the code's steps per subnet:
subnet, tag, range, reverse zone; then the site's zone and hosts; on an error
`Undo` deletes its record in rank order, and what it cannot delete or identify is
`residual`.  A teardown plans from the tags, writes its record, deletes in rank
order and stops at the first refusal; starting it again is the retry.  `amid` is
history: the builds of the site still under way when this teardown, or a retry of it,
made its plan.  What a teardown promises to leave nothing of are the builds it found
complete and that no teardown was started into while they ran (`TornInto`).

### AuditLog

The server appends an entry (whole, torn, or torn just before its end of line) and
seals the head in a second step; it may be killed between them and started with
another key or none.  A verifier, in a process of its own, reads the head and then
the entries; the server's own page reads both under the mutex.  An entry is what it
links to, what hash it records, and whether its contents are still those hashed.
`was` in a head and `tally` are history: what the seal was made of, and whether anybody
but the server has touched the files.  A keyless log that was emptied counts as intact,
as in the code: an unsigned head cannot be told from one that was removed.

### The browser outside its pages

- `Feeds`: `useApi` at its call sites.  A payload is known by its url and the number
  of the request that fetched it; every answer may land after the site has changed
  its url or left.  A timer keeps the run of the hook it was set in and, when "Try
  again" set it, the url its `load` closed over: such a timer that a later one
  replaced still fires, and loads if that is the url the hook wants.  `CloseGate` is the
  vault gate taking everything off the screen, the header with it, when the vault locks
  or its status cannot be read: every url's last watcher leaves, its sequence is forgotten
  with requests in the air (`forgotten` is history), and the page is mounted again without
  a reload.
- `Ask`: the chat, the lookup and the search page.  A request is sent, served and
  lands in three steps; links are followed and pages left while it is in the air.
- `Gate`: the vault screen, the tenant chip and Settings, beside a server that
  another browser changes.  A behaviour follows one set of doings (`MCDoings`).
- `Update`: numbered checks that land in any order, each answered by a look at GitHub or
  from the server's memory of one, one install, its polls and probe.
- `Frame`: tabs, dialogs and focus, as events with the effects React runs after them.

### What the pages show

- `Layout`: `CardGrid` between its two loads and its numbered saves.  A pointer's gesture
  ends with the order, the widths and the hidden panels of its press, which its listeners
  closed over, so a layout that lands meanwhile is overwritten and saved over.
- `Charts`: chains of requests that outlive their form.  A behaviour ends where two
  chains that write the layout have overlapped: what is left then is whichever wrote
  last, and nothing in the code promises more.
- `Columns`: the widths `measure()` computes, in whole pixels, with the buffer that absorbs
  its tolerance, columns hidden when constant or set to the right, sorting, and when it runs.
- `AuditPages`: polls, Load older and its reducer, the portal's search; under them a log
  that is appended to, replaced, has a line that does not decode (`skipped_lines`), or
  breaks off while it is read (`read_error`).  A poll's rows and its verdict are of two
  reads in the code; the model takes them together, and lets either break off.
- `Changes`: the window fixed when the page opened against a clock that goes on; the
  server, which stamps the events, and the browser each have a clock of their own.

### What the pages change

- `Forms`: the three preview-and-apply drivers, the write target, the role, the list
  of runs.  A form that is left goes on at the server.  The answer of a Build counts
  even when its form was edited and a newer Build is in the air (`useDeskFlow`,
  `Automate.jsx` 51-96): the form then says that it is done of the older one, and the
  newer no longer shows as busy.  `DoneMeansDone` is therefore about the Apply whose
  answer is shown; in the other forms that is the last one.
- `Records`: the edit (dry run, reread, check, write) against other writers; the
  paged list, which its own deletes shorten and others lengthen and shorten.  Show more
  asks for as many rows to be skipped as are on screen, so a row is skipped for good when
  those are not the server's first.  `NothingOutOfReach` excepts exactly the ways that
  happens (`astray`): a Show more pressed with a delete unfinished or the first page old, a
  delete confirmed with a Show more in the air, a record added before one that Show more
  brought, one removed that it brought or is skipping, and the lost answer of the delete of
  such a row.  The button may also be missing while the total on screen, which a reload of
  the first page no longer corrects once more was shown, is older than a record added.
- `Editor`: find, pick, preview, apply and the two-press delete, with the field of
  the ID open throughout.
- `DemoPage`: the plan, the build, the removal and the settings beside them.

## 3. Runs

Every bound is a constant or a set in the cfg.  A property of a run joins the
statements it names, its module's type invariant among them, under one name.

| run | instance | shows |
|---|---|---|
| `session` | switch: 2 connections, 2 keys, 2 accounts, 2 epochs, 2 switches; cache: 3 callers, 2 keys, cap 1, 1 rotate, 1 bust; throttle: 4 attempts, 2 clients, a table of 1, times to 4; query: 2 askers, 2 identities, 2 sessions, 1 change of identity | `OverrideIsLive`, `AccountNamesOverride`, `HomeIsOfIdentity`, `ImplementsSession`, `CachedRowsAreCurrent`, `AnswersAreOfTheirEra`, `SessionsStayHome`, `NoAttemptInLockout`, `TablesAreKept`, `EveryoneIsAnswered` |
| `vault` | the same tenants, 1 epoch, 1 switch, 1 request, 1 read; file: 2 passphrases, 2 changes, 3 salts, 2 rotations | `CalmRequestsHitTheirTarget`, `GrantMatchesKey`, `PromptRowsAreLive`, `FileIsKept`, `RotateTellsTheTruth` |
| `desk` | 2 runs, 2 handlers, 1 network, 1 address | `RunsAreWorked`, `LedgerAccounts` |
| `provision` | 2 builds, 2 teardowns, 2 sites, 2 slots sharing a reverse zone, 1 wrong answer; audit: 2 keys, 3 entries, 2 starts, 1 act of harm | `BuildsAccount`, `DeletesAreOwnAndRecorded`, `AuditIsTrue` |
| `browser` | 4 call sites on 3 pages, 4 prompts, 2 hosts, 4 sources, 2 tenants, 9 sets of doings, 3 checks, 2 tabs | `FeedIsTrue`, `QuestionsGoWhereMeant`, `AnswersAreTheirOwn`, `GateTellsTheTruth`, `NewerAnswerStays`, `FocusFollowsTheDialog`, `ReadsSettle`, `ShellSettles` |
| `pages` | 3 panels on 2 or 6 tracks, 2 saves; 2 charts, 2 chains; 5 columns, 6 tables, 11 box widths; 4 log entries in pages of 2, 1 trouble; 4 events, a cap of 3, 2 users, clocks that agree or differ by 1 | `LayoutIsKept`, `VerdictIsOfTheNewestSave`, `WidthsAddUp`, `ReplacedPanelHasItsChart`, `ChoicesAreTrue`, `OneLogNoHole`, `ChangesAreTrue` |
| `forms` | 2 forms in turn, 3 calls (2 streams, 4 of the desk), 2 values; 1 row and 1 other write; 4 listed rows in pages of 1, 1 write of others, 1 delete, 3 rows by Show more; 2 items, 3 sends; 2 demo runs, 4 streams | `EveryApplyIsSeen`, `ChangesHitWhatWasSeen`, `ListsAreWhole`, `SaysWhatIs`, `EveryPageSettles` |
| `lock_not_pin`, `failed_wipe`, `shared_zone_teardown`, `hide_keeps_rest`, `item_apply_seen` | as above | section 4 |

Why these bounds are enough to meet the hard cases:

- Two connections with two keys, each key owning the account the other may switch
  to, make a stale home or JWT a plausible answer for the wrong person.  Two epochs
  let a switch span one transition and meet the next; two switches let one
  operation start from the other's result.  `MaxSwitches` limits generations beyond
  the two each transition adds.
- One request or one read is enough for the requests, because they share nothing
  but the server state and the cached entry.  A second reader could only overwrite
  that entry.
- A cap of one entry makes every insert of a second key evict.  A third caller
  allows a leader, a waiter and a successor of an abandoned flight at once; it asks
  for one key only (`OnlyTheFirstKey`), the other two ask for either.
- In `vault` the first connection starts with the first key and the second with the
  second (`KeysAtStart`), and one permission exists at a time (`OneGrant`): another
  assignment of keys renames these, and a request consults its own permission only.
- Three attempts of one client are one that fails, one already waiting for the slot
  when it does, and one that comes later; the fourth, of another client, evicts.
- Two askers are the holder of a handshake and one who waits for it or is refused
  late; two sessions are an old one and its successor.
- Three salts are a first seal, a rotation and another; two changes tell an old
  payload from a new one; two rotations leave two generations of backup.
- Two handlers meet on one run (Build against Remove, Remove against Remove) and
  two runs share a network.
- Two subnets in one site and one in the other, sharing a reverse zone, are the
  smallest case where one build reuses what another made.  At most three requests are
  started, and the second teardown follows the first with nothing going wrong from
  then on (`InTurn`): that is the retry, and a teardown of one site beside the other's.
- Three audit entries are one before a seal, the one it names and one after it.
- In the browser each bound allows two answers of one kind in the air, which is
  what it takes for them to cross, and one change of what is on screen between
  them; four calls of the desk let a Build be answered when the next has been sent, or
  failed; box widths are those at which the widths of the sample tables change case, two
  of which want widths a pixel apart, within the tolerance of `widthsEqual`.
- Four listed rows in pages of one are a first page, one row that Show more skips, one it
  brings and one after that.  Four events at three moments, under a cap of three, are
  enough for a newcomer, for an actor of both halves, and for one whose earlier row was cut.

The deadlock check is off in `browser`, `pages`, `forms`, `provision` and their
violation runs: a tab that has reloaded, an install that ended, a bound of requests
used up and a finished set of builds are ends of the model.  The other runs check it.

`desk` and `provision`, which check safety only, are reduced by symmetry over their
interchangeable requests, runs and slots.

## 4. Disagreements met while modelling

Each is a run that must find its one property violated; the property states what
the comment or the document says.

- `lock_not_pin` (`internal/server/writelock.go:249`).  The comment on writeIdentity
  says a request that passes the lock is pinned to the tenant it passed for.  The pin
  is taken first and the identity read later, so a switch in between separates them.
  What does hold is `CalmWriteLandsWhereAllowed`.
- `failed_wipe` (`internal/vault/manage.go:471`).  When the file of a wiped vault
  cannot be removed, `ResetR` returns before the auth reset; a switch credential
  stays in the slot.
- `shared_zone_teardown` (`internal/provision/decommission.go:210`).  A teardown
  deletes a reverse zone it found by name, whoever made it.
- `hide_keeps_rest` (`src/ui/src/lib/savedCharts.js:115`).  A layout that cannot be
  read is taken for one that is empty, and saved so.
- `item_apply_seen` (`src/ui/src/tabs/Editor.jsx:367`).  Pressing the chosen type
  again turns a previewed update into a create that nobody previewed.

These statements of comments are false as well, and stand in their modules, marked
so, with the statement that does hold beside them: `TenantReads.CachedRowsAreLive`
(the fence is captured after the pin, so a switch in between caches the old tenant's
rows; `hub.go:48`), `Desk.RemoveWaitsForServer` (a Remove between a kit's record and
the mark that its server is starting does not wait; `desk_site.go:378`),
`AuditLog.KeyLossIsNotTampering` and `AuditLog.TornLineIsNotTampering`
(`audit.go:496-509`), `Ask.AskedIsAnswered`, `AuditPages.PortalRowsAreOfTheLastSearch`,
`Changes.CapNoticeIsTrue`, `Columns.TableNeverOverflows`, `DemoPage.BuildIsOfThePlan`
and `Forms.StreamApplyIsWhatWasPreviewed` (Preview in Provision forgets an edit made
while it runs, and leaves Apply live, against `Provision.jsx` 210-212).

Four more claims hold only with an exception, which the property states as part of itself.
TLC finds each violated when the exception is taken out:

- `Feeds.AdoptedIsNewest`: `api.js` 303-342 and 591-597 number the requests of a url so that
  an old answer is never taken for the newest, but forget the numbers with the last
  watcher.  After the vault gate has closed and opened again, an answer of before can pass
  for that of the request that has its number now.
- `Update.NewerAnswerStays`: `updateState.js` 66-71 keeps an ordinary check from overwriting
  a forced one that was sent later.  A check sent after the forced one and answered from
  the server's memory before the forced one looked makes the fresher answer be dropped.
- `Layout.LayoutIsKept`: `ui.jsx` 696-700 and 772-775 say that a panel taken off stays off and
  that the screen is what a reload would show.  Neither holds of a layout that lands in the
  middle of a gesture.
- `Records.NothingOutOfReach`: `SelfService.jsx` 351-352 says that nothing past the first page
  is out of reach.  The cases where a row is are those listed with `Records` in section 2.

## 5. Fairness

People are never obliged to act.  What they started is.

| module | fair | because |
|---|---|---|
| `TenantSwitch` | weak: the steps of `authReset` and of the account operation; strong: `ResetActive` | a goroutine runs on, the portal client has a timeout; `ResetActive` waits for `m.mu` while account operations may take it again and again, and Go's `sync.Mutex` hands itself to a waiter that has starved for a millisecond |
| `Cache` | weak: a leader's steps | as above; a waiter's answer is the landing of its leader |
| `UnlockThrottle` | weak: some attempt's next step, or its time limit | the waits are a select on the slot and a timer |
| `McpSession` | weak, per asker: its next step, or its time limit | every call has a deadline |
| `Feeds` | weak: some request's answer; per site its effect, timer and end of waiting | a fetch is aborted after its limit; React runs effects; timers fire |
| `Ask` | weak: effects, announcing, giving up | as above |
| `Gate` | weak: reads are served and land, the poll of the rows | the gate has an interval |
| `Update` | weak: time limits and timers | the code sets each of them |
| `Frame` | weak: a tab's file arrives, or fails | the browser settles an import |
| `Forms`, `Records`, `Editor`, `DemoPage` | weak: every call is answered, or breaks and is handled | as above |

## 6. Proofs

All are for every value of the constants, from the named assumptions of the
modules alone: sentinels are not values (an absent, empty or torn file is no
envelope, a run without an entry has no record), a run, a network and an address are
three things, an account list contains the key's own account, the cap is positive, no
lockout is longer than the time after which a client is forgotten (30 s and 15 min in
the code), the portal's first session number comes before all others, sites and reverse
zones are told apart, and each call site that shares answers asks for one url only (the
one shared is `/api/data`).  The bounds in the guards are never used.

`TenantSwitchProofs`: `TypeCorrect`, `OverrideAlwaysLive`, `AccountAlwaysNamed`,
`HomeAlwaysOwn`, `SessionRefined`, `SwitchAlwaysServed`.

`OverrideIsLive` is not inductive: it says nothing of the JWT an operation has in
hand and is about to publish.  `PendingIsLive` does: an operation that still has
the current epoch, outside the first step of a reset, holds a JWT of the live
identity for an account that identity may enter.  `ManagerFollows` ties the slot to
the account manager, except between publishing and `m.active`.  The argument is
about the one thing that can break them, an identity change: `VaultOpRotates` shows
that a vault operation which leaves a different live key leaves `rot` at
"invalidate", and from there `InvalidateOverride` moves the epoch past every
operation in flight.  `HomeIsOfIdentity` joins the invariant because a home resolved
before the reset of the manager is wiped by it.  `SessionRefined` then needs one step
per action: a vault operation is `SignInAs` or a stutter, publishing is `SwitchTo`,
dropping the override is `GoHome` or a stutter.  `SwitchAlwaysServed` (with no key in
the environment) adds to the invariant that a switch home which has found no override
knows its home for certain (`WentHome`).

`VaultProofs`, the requests: `WriteLockInductive`, `GrantsMatchTheirKeys`, `CalmRequestsAlwaysHit`,
`PromptRowsAlwaysLive`.

Permissions follow keys because an open vault and its file hold the same store and
the same permissions (`VaultIsSaved`): a replaced key drops its permissions in the
step that saves it, a new id is named by none, and an unlock reads both back.  For an
undisturbed request `CalmIsPinned` says, per step, that what it has read so far is
what it would read now; `Value` is then the pin, and the identity it was judged as is
the live one.  For a read the credential pinned in the present generation is `Fresh`:
it is the one in use, or a Rotate is still owed, or no connection is active.
`StepsStayFresh` is the heart: a step that leaves the generation alone and changes the
credential leaves a transition unfinished or an account operation about to Rotate.

`SessionProofs`: `CacheNeverStale`, `EraAnswered`, `OrderAlwaysKept`,
`HandshakesAreExclusive`, `SessionAlwaysHome`, `SlotIsExclusive`, `FailuresAlwaysKept`,
`LockoutIsServed`, `TablesAlwaysKept`.

For the cache the invariant says that a registered flight is led by a caller of the
current era and that every leader of the current era is registered
(`FlightsAreCurrent`), that whoever waits shares the era of its leader
(`WaitersShareTheEra`), and that what a leader brings back is of its own era.  Rotate
and Invalidate keep it because they clear the flights in the step that moves the era.
The order of eviction is a sequence without repetition of the keys held: taking a key
out moves those after it up by one (`Others`, stated by position so that it can be
reasoned about), and a length no larger than the cap bounds the entries.

A portal session that a caller holds was opened for the identity it holds, since both
are read under one lock; the replies in hand are no newer than the session kept
(`RepliesAreNewest`); a session that was refused has been dropped or replaced
(`RefusedIsDropped`); and what a handshake left is either used or gone
(`NothingIsLeftOver`).

The throttle's table holds a finite set of clients within its cap, each with exactly its
run of wrong attempts; a client whose lockout is still to serve cannot have been
forgotten, because the lockout is shorter than the time to forget; so the second check,
made with the slot held, sees every failure recorded before it.  `TablesAlwaysKept` puts
the tables together.

`ProvisionProofs`, the audit log: `AuditInductive`, `AuditAlwaysTrue`.  Every entry links to the one
before it unless somebody did harm (`Chained`); the file, each seal and each head a
reader holds fit one another: the prefix that a seal names is still there, entry by
entry, as long as only the server has written (`FileFits`, `SealFits`, `HeadFits`).
That a chain that verifies to a sealed hash holds the sealed entries is shown by the
least position at which the two could differ.

`VaultProofs`, the file: `VaultFileInductive`, `FileAlwaysKept`, `RotationAlwaysTrue`.  The
two properties speak of moments with no save in progress, so the invariant has to say
what a save is about to do: `SaveInHand` gives, per system call, what is on disk, what
the temporary file holds and what a failure puts back, so that `UndoSave` and a rename
both end with file and memory equal.  `AckedIsKept` follows what was acknowledged into
the file and into what a power cut would make of it, and into the backup while a
rotation has the file torn; `RotationHolds` says whose key is in memory at each step of
the command and that the backup is the file it began with.  Nothing is assumed of
scrypt but that its result names its three inputs.

`DeskProofs`: `DeskInductive`, `RunsAlwaysWorked`, `LedgerAlwaysAccounts`.  The
properties compare the ledger with Infoblox, while between a DELETE and the save the
truth is in a request's own list, and between a create and the record in its names.
So each such list is `Honest` (it calls gone only what is gone for good: an ID never
exists twice, and a removed demo server stays removed), and `MadeIsFound` says where a
thing that a run made can be found at each moment: in the names of its Build, in the
entry and in the list of every Remove at work, in an answer, or, when the Build was lost
to a restart, in an entry marked for a check by hand that nobody works on
(`Unlisted`).  `BuildsAreAlone` and `RemovesAreAlone` say who else may be at work on
the run meanwhile: nobody during a Build; during a Remove only the demo server of a kit
and a second Remove let in by it.  `LockIsExclusive` gives each teardown the demo lock
to itself, so its record changes under nobody's hand.  `NetworksHold` says that an
address still in a network found empty came after the check, which is what a delete of
that network may sweep.  Steps of one kind share a lemma: requests that only move on
or delete (`MovesKeep`), write the ledger (`LedgerMoveKeeps`), create (`CreateKeeps`),
and moves of the demo server (`ServerMoveKeeps`, `TeardownKeeps`).

`ProvisionProofs`: `ProvisionInductive`, `BuildsAlwaysAccount`,
`DeletesAlwaysOwnAndRecorded`.  What a build made is of its own site and, until it is
complete, stands in one of its lists or was lost with an answer (`Accounted`); a subnet's
tag is the site of its builder, except for the one just made (`TagsFit`).  A teardown
finds a reverse zone only through a subnet that uses it, so the proof needs to know that
a complete build's zone is still led to by a subnet of that build (`Findable`), and that a
teardown has either planned the zone or not yet deleted the subnet (`PlanFits`,
`SawFits`); zones go before subnets in its order.  The attempt to prove it showed what
the promise leaves out: a build that a teardown was started into while it ran can finish
without its first subnet, after which nothing leads to its reverse zone and a later
teardown that reports success leaves it behind.  With one teardown TLC could not see
that, so the model now has `amid`, the property names the builds it is about, and the
run has two.

`BrowserProofs`, the feeds: `FeedsInductive`, `FeedsAlwaysTrue`.  `load` runs inside most handlers, so
each operator from state to state has a lemma of what it leaves, and a handler follows
from those of the operators it calls.  `HookFits` ties what a call site holds, its timer
and its wait to the run it is in; `RequestFits` says that a live request is for the url
its site still holds; `WireFits` that the sequence of a url counts every request started
for it since it was last forgotten; `RetryFits` is the promise of "Trying again" for one
site.  The sequence is forgotten with a url's last watcher, which is the whole page with its
header when the vault gate closes, and a request still in the air then keeps an old number.
So the invariant speaks of two kinds of request apart (`WireFits`, `NumberFits`): one started
since has the number of its place after `forgotten`, and its answer is adoptable only while
it is the newest; of one started before nothing is known but that it is older than the
numbering, and `AdoptedIsNewest` says no more of it than that.

`BrowserProofs`, the questions: `AskInductive`, `QuestionsAlwaysGoWhereMeant`,
`AnswersAlwaysTheirOwn`.  All requests of the three pages are in the air together, so
the invariant tells them apart by kind and says per kind what they may be (`ChatFits`,
`LookFits`, `SourcesFit`).  That a question is asked once is a sum: what was sent, the
checks in the air and the one press not yet handled are no more than the presses
(`Counted`).  What the search page says is earned because its ledger lags the sources in
one direction only: a row is of the query shown or a render is due (`LedgerFits`).

`BrowserProofs`, the gate: `GateInductive`, `GateAlwaysTellsTheTruth`.  The truth of what is
shown is kept by what is still in the air: since a grant made here was announced, a verdict
read that will be believed was answered with the verdict of now (`VerdictFits`), and since a
switch, every read of rows with the rows of the tenant now active or with the vault's refusal
(`RowsFitGate`).  They are kept in two ways, because only the verdict reads are numbered: a
grant asks again, and what was asked before no longer counts; rows are not numbered, so a
switch reloads the page, and nothing it was waiting for is left.  Without the dashboard only
the gate asks (`AirFits`, `ChipFits`), which is why an answer never lands in a header that
is gone.

`BrowserProofs`, the update button: `NewerAnswerAlwaysStays`.  The number of a check says when
it was sent, not what it was answered: that is a look at GitHub of then or one the server
remembers.  The property compares looks, the code compares numbers.  They agree because a
check sent after another was answered is answered from a look no older (`ChecksKnow`: a
check that the server has answered is behind no landed answer, but of one that was in the
air with it); so what the comparison of numbers drops is older, or was in the air when the
check on screen was sent, which `air` records.

`BrowserProofs`, the frame: `FrameInductive`, `FocusAlwaysFollows`.  Where the focus ends
is decided by a chain: what the render takes out of the document, the dialog that mounts,
App's effect on Settings, then its effect on the help.  Each link has a lemma of what it
leaves (`CommitIs`, `MountFocusIs`, `SheetEffectIs`, `HelpEffectIs`), and `RenderedIs` is
the chain.  The effects give the focus back only for a dialog they have seen open, and only
when no other makes the page inert; so the invariant is that the two dialogs are never open
together and that the open one was seen (`DialogsFit`), and that what is focused is drawn
(`Seated`).  Behind a dialog, no step of the page moves the focus, because what it would
move it to is inert (`BehindIsOut`, `CalmStep`).

`PagesProofs`, the Audit tab: `AuditPagesInductive`, `OneLogAlwaysWhole`.  The tab joins pages that were
served at different times, and the log may have been replaced between them.  The
invariant is about everything held anywhere, in the log, in an answer or in the view: each
page is a run of one chain but for lines that did not decode (`Segment`, `Follows`), and two
held entries with one hash have one predecessor (`Alike`), which needs that an entry of the
present era is one that the log still has (`Fresh`).  Pages that agree where they overlap,
or are linked where they only touch, are then one run when joined (`JoinedFits`).  An entry
stands in the chain at least as far on as its place in the page, and a page that reports
no skipped lines ends where its count says; so the rows before it have no gap either.
Eras grow along a run, so a newest page of the first era makes the whole run of it.

`PagesProofs`, the changes: `ChangesInductive`, `ChangesAlwaysTrue`.  An answer tells the truth of
the log up to its own moment: nothing in it is ahead of the server's clock and, unless the
cap was hit, everything asked for that is older is in it (`Tells`).  The page's window never
reaches back before the moment it asks from, though its clock goes on and the server's may
differ.  So what is not in the rows did not happen where the page looks, and whoever acted
in the earlier half stands there in a row.

`PagesProofs`, the charts: `ChartsInductive`, `ReplacedAlwaysHasItsChart`,
`ChoicesAlwaysTrue`.  A replace is three requests and a restore two, any of which may fail
or be answered to nobody, and a chart may be saved again meanwhile from a form that read
it long ago.  The invariant says of every chart held anywhere, on the server, on the page,
in a form or in a request, that its id stands for one panel (`PanelsFit`), so that a save
never takes away the chart of a panel; and of every chain what its next step counts on
(`ChainFits`): a replace that hides has saved, a restore that deletes has shown.  That is
so while one chain at a time writes the layout, which is the case the property is about.
A chain that still speaks to the form was started from the picks on screen (`FormFits`).
The menus are settled level by level, and each level leaves a combination that begins so
(`SettleLevelFits`); nothing is asked of the picks before, nor of the combinations but
that there is one.

`FormsProofs`: `FormsInductive`, `SaysAlwaysWhatIs`, `BuildsAlwaysReachTheList`,
`AppliesAlwaysSeen`.  A page learns what the server did only from the answer it waits for,
so the invariant ties the three ends together: but for the desk's jobs a flow of the form
on screen waits for one call (`OneCallEach`), and an Apply that was served is among those
the server made, as it ended (`ServedIsDone`).  A preview on its way back is of the answers
on screen or is known not to be, because an edit marks the flow or makes the call an older
one, and a list of subnets that arrives leaves a picked subnet alone, which Preview does
pick (`PreviewIsOfTheAnswers`).  That argument does not hold of Provision's streams, which
forget an edit made meanwhile; `StreamApplyIsWhatWasPreviewed` is violated there.  What is
in the ledger and not in the list has its answer, or a read, still to come (`ListFits`), and
the newest read of the role is of the token typed last (`RoleFits`).

`FormsProofs` again, of the Editor: `EditorInductive`, `ItemAppliesAlwaysSeen`,
`DeletesAlwaysHitWhatWasArmed`.  A preview that may be applied, and one on its way back that
nothing has been typed under, is of the item on screen (`PreviewIsOfTheItem`); the one way
round it is the press of the type already chosen, which `item_apply_seen` shows and
`repressed` excepts.  Delete stays armed only for the item on screen, or nothing is there
to delete (`ArmedForTheItem`).

And of the records: `RecordsInductive`, `UpdatesOverwriteTheHeld`.  A write that the server
has checked is of the value held, or is marked as raced, since the check and the write are
two steps of the server (`CheckedIsHeld`).  Every total, on the page or on its way, that knew
of all records added counts at least what the server still lists (`TotalsReach`).  Until
something leads them astray, the rows that Show more brought are on the server, but for
those whose delete is on its way back, and follow the first page with no gap between; and a
Show more in the air skips rows that are all on screen, and brings those right after them
(`Astern`).  So with the first page as the server's and no delete unfinished the rows on
screen are a prefix of the server's, and a missing button means that they are all of it.
What a row's removal leaves of a list (`WithoutIs`) is the one induction: that the table it
is read from exists is proved entry by entry, from the least place where it would fail
(`UpTo`).

Side by side (`Writes`), these are the properties of the run: `EveryPageShowsFirst`,
`EveryPageHitsWhatItShowed`, `EveryListIsWhole`.  The first has the two exceptions of its
parts, Provision's streams and the Editor's type pressed again, and is false of both.

Only model-checked: everything live (`EveryoneIsAnswered`, `ReadsSettle`,
`ShellSettles`, `EveryPageSettles`), since fairness and ENABLED are beyond the prover;
what depends on sums over a row or a table (`WidthsAddUp`, `LayoutIsKept`), which are
recursive; and, of the browser, `Layout`, `Columns` and `DemoPage`.

## 7. What is abstracted, and what is not modelled

- Cryptography, time, names, formatting, paging and retries of the REST client,
  labels, validation of one request.  Expiry of a cached row may happen at any time;
  a lock file may be found old whenever its holder is gone.
- `VaultFile` has one process at a time, as the rotate command asks for.  A power cut
  during a rotation is left out, because the backup and the restore are never flushed.
- `Desk` treats demo server builds as succeeding, failing or stopping; what
  Terraform and Proxmox leave behind is a module of its own in the plan.
- `Provision` leaves out dry runs and the arithmetic of templates and addresses.
  It makes and deletes a range with the build's own subnet: a subnet replaced
  between the two would need a third actor.
- `AuditLog` leaves out entries from before the log had a key, a head that cannot be
  read, and forged signatures; one process writes.
- In the browser: drawing, hit testing, wording and filtering; the other
  pages draw what one feed holds through the feeds, the layout and the tables.
- Not modelled: the components listed as `not_modelled` in `PROJECT.json`, each with
  its reason.

## 8. Plan

Modules, in this order: address blocks, then the restore command over the teardown's
record, composed with `Provision`'s portal; `DemoServer` (the lock's stale takeover,
stages of build and teardown, what each failure leaves), which refines the `demo` and
`lock` variables of `Desk`; allocation in record edits; the state backup; the server's
self-update.

Proofs: the other browser modules, `Layout` and `Columns` first.
