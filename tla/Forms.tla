-------------------------------- MODULE Forms --------------------------------
(***************************************************************************)
(* The forms that change a tenant: a Preview (a dry run), then an Apply of *)
(* the same answers, in three drivers.                                     *)
(*   "stream"  Provision.jsx useStreamFlow: an event stream; two flows of  *)
(*             one form (build and teardown) share its answers             *)
(*   "write"   SelfService.jsx useWriteFlow: Allocate and Create record    *)
(*   "desk"    Automate.jsx useDeskFlow: the jobs, and Your recent changes *)
(* One form is on screen.  Leaving it (another mode, job or tab) mounts a  *)
(* fresh one, while what it asked for goes on at the server.               *)
(***************************************************************************)
EXTENDS Naturals, FiniteSets

CONSTANTS
    Drivers,   \* the drivers followed; "role" follows useRole, "changes" the list
    Typed, Subnets, None, \* what may be typed, the subnets offered
    MaxCalls, MaxForms, MaxTokens   \* bounds: calls per driver, forms, role reads

ASSUME FormsAssumption ==
    None \notin Typed \union Subnets /\ MaxCalls \in [Drivers -> Nat] /\ MaxForms \in Nat

VARIABLES
    driver,    \* which driver the form on screen uses
    inst,      \* the form on screen, by number
    answers,   \* its fields; the subnet picked and the one with most room
    flows,     \* its flows
    calls,     \* calls in the air
    count,     \* calls made
    access,    \* may the tenant be changed: as the page believes, and its reads
    tenant,    \* and as it is
    role,      \* useRole
    done,      \* the server: per flow of the form on screen, its Applies and how they ended
    desk       \* the ledger's entries, and those the list has been sent

formVars == <<driver, inst, answers, flows, calls, count, access, tenant, role, done, desk>>

FlowNames == {"build", "teardown"}
Idle == [status |-> "idle", stale |-> FALSE, edited |-> FALSE, shown |-> <<>>,
         counts |-> "all", about |-> 0]
Fresh == [typed |-> None, pin |-> None, roomy |-> None, tried |-> FALSE, confirmed |-> FALSE]

FormsInit ==
    /\ driver \in Drivers
    /\ inst = 1 /\ answers = Fresh /\ flows = [f \in FlowNames |-> Idle]
    /\ calls = {} /\ count = 0
    /\ tenant \in {"open", "readonly"}
    /\ access = [says |-> "unknown", reads |-> IF driver = "stream" THEN {"sent"} ELSE {}]
    /\ \E who \in IF driver = "stream" THEN {"viewer", "admin"} ELSE {"viewer"} :
           role = [shown |-> who, token |-> who, seq |-> 1, timer |-> FALSE,
                   reads |-> IF driver = "role" THEN {[n |-> 1, token |-> who]} ELSE {}]
    /\ done = [f \in FlowNames |-> {}]
    /\ LET listed == IF driver = "changes" THEN {0} ELSE {}
       IN  desk = [ledger |-> listed, lost |-> {}, told |-> listed, reads |-> 0, plan |-> "no"]

\* "Any network with room" is the roomiest of the list, until one is picked.
Target == IF answers.pin # None THEN answers.pin ELSE answers.roomy
Body == <<answers.typed, Target>>
Complete == answers.typed # None /\ (driver = "write" => Target # None)

-----------------------------------------------------------------------------
(* Edits.                                                                  *)

\* useStreamFlow.markStale: an edit made while Preview runs is forgotten.  In
\* place of useWriteFlow's it is a mutant.
MarkStaleWhenShown(fl) == IF fl.status = "previewed" THEN [fl EXCEPT !.stale = TRUE] ELSE fl

\* useWriteFlow.markStale.
MarkStale(fl) ==
    IF fl.status = "previewed" THEN [fl EXCEPT !.stale = TRUE]
    ELSE IF fl.status = "busy" THEN [fl EXCEPT !.edited = TRUE] ELSE fl

\* useDeskFlow.reset, which also makes every call in the air an older one.
Reset(fl) == [fl EXCEPT !.status = "idle", !.shown = <<>>]
Older == {[c EXCEPT !.old = TRUE] : c \in calls}

Edited(fl) ==
    CASE driver = "write" -> MarkStale(fl)
      [] driver = "desk" -> Reset(fl)
      [] driver = "stream" -> MarkStaleWhenShown(fl)

\* A field's onChange: another name, or another space, whose subnets are read anew.
Edit(v) ==
    /\ driver \in {"stream", "write", "desk"} /\ v # answers.typed
    /\ \/ answers' = [answers EXCEPT !.typed = v]
       \/ answers' = [answers EXCEPT !.typed = v, !.pin = None, !.roomy = None]
    /\ flows' = [f \in FlowNames |-> Edited(flows[f])]
    /\ calls' = IF driver = "desk" THEN Older ELSE calls
    /\ UNCHANGED <<driver, inst, count, access, tenant, role, done, desk>>

PickSubnet(s) ==
    /\ driver = "write" /\ answers.roomy # None /\ s # answers.pin
    /\ answers' = [answers EXCEPT !.pin = s]
    /\ flows' = [f \in FlowNames |-> Edited(flows[f])]
    /\ calls' = IF driver = "desk" THEN Older ELSE calls
    /\ UNCHANGED <<driver, inst, count, access, tenant, role, done, desk>>

\* The words that confirm a teardown; no part of a dry run.
TypeConfirm ==
    /\ driver = "stream" /\ role.shown = "admin"
    /\ answers' = [answers EXCEPT !.confirmed = ~@]
    /\ flows' = [flows EXCEPT !.teardown = Edited(@)]
    /\ UNCHANGED <<driver, inst, calls, count, access, tenant, role, done, desk>>

\* The subnets arrive or are read again: the roomiest may be another; the
\* subnet remembered from the last visit fills an untouched form.
SubnetsArrive(s) ==
    /\ driver = "write" /\ s # answers.roomy
    /\ \E pin \in IF answers.tried \/ answers.pin # None THEN {answers.pin}
                 ELSE Subnets \union {None} :
           answers' = [answers EXCEPT !.roomy = s, !.pin = pin, !.tried = TRUE]
    /\ UNCHANGED <<driver, inst, flows, calls, count, access, tenant, role, done, desk>>

\* The space that is yours is picked for you, over no choice of your own.
AutoPick(v) ==
    /\ driver \in {"stream", "desk"} /\ answers.typed = None
    /\ answers' = [answers EXCEPT !.typed = v]
    /\ flows' = IF driver = "desk" THEN [f \in FlowNames |-> Reset(flows[f])] ELSE flows
    /\ UNCHANGED <<driver, inst, calls, count, access, tenant, role, done, desk>>

-----------------------------------------------------------------------------
(* Preview and Apply, as PreviewApply draws their buttons.                 *)

FlowsHere == IF driver = "stream" THEN FlowNames ELSE {"build"}

Send(f, dry, body) ==
    /\ count < MaxCalls[driver]
    /\ count' = count + 1
    /\ calls' = (IF driver = "desk" THEN Older ELSE calls)
                  \union {[n |-> count + 1, of |-> inst, f |-> f, dry |-> dry, body |-> body,
                           old |-> FALSE, served |-> "no", run |-> FALSE]}
    /\ flows' = [flows EXCEPT ![f].status = "busy", ![f].edited = FALSE,
                     ![f].shown = IF driver = "stream" THEN <<>> ELSE @]


\* Preview pins the subnet it names.
Pin == answers' = IF driver = "write" THEN [answers EXCEPT !.pin = Target] ELSE answers

Preview(f) ==
    /\ f \in FlowsHere /\ flows[f].status # "busy" /\ Complete
    /\ Send(f, TRUE, Body)
    /\ Pin
    /\ UNCHANGED <<driver, inst, access, tenant, role, done, desk>>

ApplyShown(f) == flows[f].status = "previewed" /\ ~flows[f].stale

\* Apply is off on a tenant known to be read-only, but for useWriteFlow, which
\* leaves the refusal to the server.
Apply(f) ==
    /\ f \in FlowsHere /\ ApplyShown(f)
    /\ driver # "write" => access.says # "readonly"
    /\ f = "teardown" => role.shown = "admin" /\ answers.confirmed
    /\ Send(f, FALSE, Body)
    /\ UNCHANGED <<driver, inst, answers, access, tenant, role, done, desk>>

\* The server runs it.  A dry run changes nothing; a change is refused on a
\* read-only tenant.  A desk run that was let through is in the ledger even if
\* it failed; a seed of many sites counts those it made.
Serve(c) ==
    /\ c.served = "no"
    /\ \E how \in IF c.dry THEN {"all", "failed"}
                  ELSE IF tenant = "readonly" THEN {"failed"}
                  ELSE IF driver = "stream" THEN {"all", "some", "none", "failed"}
                  ELSE {"all", "failed"},
          run \in IF driver = "desk" /\ ~c.dry /\ tenant = "open" THEN {TRUE} ELSE {FALSE} :
           /\ calls' = (calls \ {c}) \union {[c EXCEPT !.served = how, !.run = run]}
           /\ done' = IF c.dry \/ c.of # inst THEN done
                      ELSE [done EXCEPT ![c.f] = @ \union {[n |-> c.n, how |-> how]}]
           /\ desk' = IF run THEN [desk EXCEPT !.ledger = @ \union {c.n}] ELSE desk
    /\ UNCHANGED <<driver, inst, answers, flows, count, access, tenant, role>>

Failing(fl) == [fl EXCEPT !.status = "idle", !.shown = <<>>]

\* useDeskFlow drops the answer of an older Preview, never that of a Build.
Dropped(c) == driver = "desk" /\ c.dry /\ c.old

\* Mutant: an answer that stopped part way counts as the whole.
TakenAsAll(c) ==
    IF c.served = "failed" THEN Failing(flows[c.f])
    ELSE IF c.dry
    THEN [flows[c.f] EXCEPT !.status = "previewed", !.shown = c.body,
                            !.stale = driver = "write" /\ flows[c.f].edited]
    ELSE [flows[c.f] EXCEPT !.status = "applied", !.stale = FALSE, !.about = c.n,
                            !.shown = IF driver = "stream" THEN c.body ELSE <<>>]

\* An answer reaches a form that is still there.
Taken(c) ==
    LET fl == flows[c.f]
    IN  IF c.served = "failed" THEN Failing(fl)
        ELSE IF c.dry
        THEN [fl EXCEPT !.status = "previewed", !.shown = c.body, !.counts = c.served,
                        !.stale = driver = "write" /\ fl.edited]
        ELSE [fl EXCEPT !.status = "applied", !.stale = FALSE, !.counts = c.served, !.about = c.n,
                        !.shown = IF driver = "stream" THEN c.body ELSE <<>>]

Land(c) ==
    /\ c.served # "no"
    /\ calls' = calls \ {c}
    /\ IF Dropped(c) THEN UNCHANGED <<flows, desk>>
       ELSE /\ flows' = IF c.of = inst THEN [flows EXCEPT ![c.f] = Taken(c)] ELSE flows
            /\ desk' = IF c.run THEN [desk EXCEPT !.reads = @ + 1] ELSE desk
    /\ UNCHANGED <<driver, inst, answers, count, access, tenant, role, done>>

\* A connection that breaks.  A stream's page reads the permission again; a
\* desk page is not told whether a run was recorded.
Lost(c) ==
    /\ calls' = calls \ {c}
    /\ flows' = IF c.of = inst /\ ~Dropped(c) THEN [flows EXCEPT ![c.f] = Failing(@)] ELSE flows
    /\ access' = IF driver = "stream" THEN [access EXCEPT !.reads = @ \union {"sent"}] ELSE access
    /\ desk' = IF c.run THEN [desk EXCEPT !.lost = @ \union {c.n}] ELSE desk
    /\ UNCHANGED <<driver, inst, answers, count, tenant, role, done>>

\* Another mode or job: a stream is closed behind it, a call is not.
Leave ==
    /\ inst < MaxForms
    /\ inst' = inst + 1
    /\ answers' = Fresh /\ flows' = [f \in FlowNames |-> Idle]
    /\ done' = [f \in FlowNames |-> {}]
    /\ calls' = IF driver = "stream" THEN {} ELSE calls
    /\ UNCHANGED <<driver, count, access, tenant, role, desk>>

-----------------------------------------------------------------------------
(* The permission and the role.                                            *)

AccessServed ==
    /\ "sent" \in access.reads
    /\ access' = [access EXCEPT !.reads = (@ \ {"sent"}) \union {tenant}]
    /\ UNCHANGED <<driver, inst, answers, flows, calls, count, tenant, role, done, desk>>

\* An answer lands, or a failed read leaves what the page last knew.
AccessLands(says) ==
    /\ says \in access.reads \ {"sent"}
    /\ access' \in {[says |-> says, reads |-> access.reads \ {says}],
                    [access EXCEPT !.reads = @ \ {says}]}
    /\ UNCHANGED <<driver, inst, answers, flows, calls, count, tenant, role, done, desk>>

\* "Yes, allow changes", for the tenant named on screen.
Allow ==
    /\ driver = "stream" /\ access.says = "readonly" /\ role.shown = "admin"
    /\ tenant' = "open"
    /\ access' = [access EXCEPT !.reads = @ \union {"sent"}]
    /\ UNCHANGED <<driver, inst, answers, flows, calls, count, role, done, desk>>

ChangedElsewhere ==
    /\ count > 0 /\ tenant = "open" /\ tenant' = "readonly"
    /\ UNCHANGED <<driver, inst, answers, flows, calls, count, access, role, done, desk>>

RoleFor(token) == token

ReadRole(token) ==
    role' = [role EXCEPT !.token = token, !.seq = @ + 1, !.timer = FALSE,
                 !.reads = @ \union {[n |-> role.seq + 1, token |-> token]}]

TypeToken(token) ==
    /\ driver = "role" /\ role.seq < MaxTokens
    /\ ReadRole(token)
    /\ UNCHANGED <<driver, inst, answers, flows, calls, count, access, tenant, done, desk>>

RoleTimer ==
    /\ role.timer /\ role.seq < MaxTokens
    /\ ReadRole(role.token)
    /\ UNCHANGED <<driver, inst, answers, flows, calls, count, access, tenant, done, desk>>

\* A token typed one key at a time fires one read per key; the newest is kept.
RoleLands(r) ==
    /\ role' = [role EXCEPT !.reads = @ \ {r},
                            !.shown = IF r.n = role.seq THEN RoleFor(r.token) ELSE @]
    /\ UNCHANGED <<driver, inst, answers, flows, calls, count, access, tenant, done, desk>>

RoleFails(r) ==
    /\ role' = [role EXCEPT !.reads = @ \ {r}, !.timer = @ \/ r.n = role.seq]
    /\ UNCHANGED <<driver, inst, answers, flows, calls, count, access, tenant, done, desk>>

-----------------------------------------------------------------------------
(* Your recent changes: the list, and a row's Remove.                      *)

ListArrives ==
    /\ desk.reads > 0
    /\ desk' = [desk EXCEPT !.reads = @ - 1, !.told = @ \union desk.ledger]
    /\ UNCHANGED <<driver, inst, answers, flows, calls, count, access, tenant, role, done>>

\* Every 20 seconds while something on it is still being built.
PollList ==
    /\ driver = "changes" /\ desk.reads = 0
    /\ desk' = [desk EXCEPT !.reads = 1]
    /\ UNCHANGED <<driver, inst, answers, flows, calls, count, access, tenant, role, done>>

RowTo(plan) ==
    /\ desk' = [desk EXCEPT !.plan = plan]
    /\ UNCHANGED <<driver, inst, answers, flows, calls, count, access, tenant, role, done>>

PressRemove == driver = "changes" /\ desk.plan = "no" /\ RowTo("checking")
PlanLands == desk.plan = "checking" /\ \E p \in {"shown", "no"} : RowTo(p)
CancelPlan == desk.plan = "shown" /\ RowTo("no")
DeleteThese ==
    desk.plan = "shown" /\ access.says # "readonly" /\ count < MaxCalls[driver] /\ RowTo("removing")

\* Whatever the answer, the list is read again.
RemoveLands ==
    /\ desk.plan = "removing" /\ count < MaxCalls[driver]
    /\ count' = count + 1
    /\ \E made \in {{}, {count + 1}} :
           desk' = [desk EXCEPT !.plan = "no", !.reads = @ + 1, !.ledger = @ \union made]
    /\ UNCHANGED <<driver, inst, answers, flows, calls, access, tenant, role, done>>

-----------------------------------------------------------------------------
FormsNext ==
    \/ \E v \in Typed : Edit(v) \/ AutoPick(v)
    \/ \E s \in Subnets : PickSubnet(s) \/ SubnetsArrive(s)
    \/ TypeConfirm
    \/ \E f \in FlowNames : Preview(f) \/ Apply(f)
    \/ \E c \in calls : Serve(c) \/ Land(c) \/ Lost(c)
    \/ Leave
    \/ AccessServed \/ Allow \/ ChangedElsewhere
    \/ \E says \in {"open", "readonly"} : AccessLands(says)
    \/ \E token \in {"viewer", "admin"} : TypeToken(token)
    \/ RoleTimer
    \/ \E r \in role.reads : RoleLands(r) \/ RoleFails(r)
    \/ ListArrives \/ PollList \/ PressRemove \/ PlanLands \/ CancelPlan \/ DeleteThese
    \/ RemoveLands

\* Every call is answered or breaks; an answer that arrived is handled.
FormsFairness ==
    WF_formVars(\E c \in calls : Serve(c)) /\ WF_formVars(\E c \in calls : Land(c))

FormsSpec == FormsInit /\ [][FormsNext]_formVars /\ FormsFairness

-----------------------------------------------------------------------------
\* What the form, the calls and the server hold; a call is of a form that was
\* on screen, and no two have one number.
Outcomes == {"all", "some", "none", "failed"}
FormsTypeOK ==
    /\ driver \in Drivers /\ inst \in Nat \ {0} /\ count \in Nat /\ tenant \in {"open", "readonly"}
    /\ answers \in [typed : Typed \union {None}, pin : Subnets \union {None},
                    roomy : Subnets \union {None}, tried : BOOLEAN, confirmed : BOOLEAN]
    /\ \A f \in FlowNames :
           /\ flows[f].status \in {"idle", "busy", "previewed", "applied"}
           /\ flows[f].stale \in BOOLEAN /\ flows[f].edited \in BOOLEAN
           /\ flows[f].counts \in Outcomes /\ flows[f].about \in 0 .. count
    /\ \A c \in calls : /\ c.n \in 1 .. count /\ c.of \in 1 .. inst /\ c.f \in FlowNames
                         /\ c.dry \in BOOLEAN /\ c.old \in BOOLEAN /\ c.run \in BOOLEAN
                         /\ c.served \in Outcomes \union {"no"}
    /\ \A c, d \in calls : c.n = d.n => c = d
    /\ access.says \in {"unknown", "open", "readonly"}
    /\ access.reads \subseteq {"sent", "open", "readonly"}
    /\ role \in [shown : {"viewer", "admin"}, token : {"viewer", "admin"}, seq : Nat, timer : BOOLEAN,
                 reads : SUBSET [n : 1 .. role.seq, token : {"viewer", "admin"}]]
    /\ done \in [FlowNames -> SUBSET [n : 1 .. count, how : Outcomes]]
    /\ desk.ledger \subseteq 0 .. count /\ desk.lost \subseteq desk.ledger
    /\ desk.told \subseteq desk.ledger /\ desk.reads \in Nat
    /\ desk.plan \in {"no", "checking", "shown", "removing"}

Started == {c \in calls' : c.n > count /\ ~c.dry}

\* What an Apply or a Build sends is what the preview on screen checked,
\* whatever was typed, or whatever list arrived, while it was being made
\* (SelfService.jsx 48-62, Automate.jsx 51-53).  Not of Provision's streams: there
\* it is false, as the next definition says.
ApplyIsWhatWasPreviewed ==
    [][driver # "stream" => \A c \in Started : c.body = flows[c.f].shown]_formVars

\* The same of Provision's streams (Provision.jsx 210-212).  False: a field
\* edited while Preview runs leaves Apply live on the preview it then shows.
StreamApplyIsWhatWasPreviewed ==
    [][driver = "stream" => \A c \in Started : c.body = flows[c.f].shown]_formVars

\* A run that is entered in the ledger reaches Your recent changes, though its
\* form was edited or left before the answer came; one whose answer was lost
\* waits for the next read (Automate.jsx 73-108).
BuildsReachTheList ==
    calls = {} /\ desk.reads = 0 => desk.ledger \ desk.lost \subseteq desk.told

\* The role on screen is that of the token typed last, or is still being read
\* (Provision.jsx 124-156).
RoleIsOfTheLastToken ==
    driver = "role" /\ role.reads = {} /\ ~role.timer => role.shown = RoleFor(role.token)

\* The page says a change was made in full only of one that was, and but for
\* the desk's jobs, whose answers to an older Build still count, that is the
\* last one asked for (runOutcome, Provision.jsx 367-384, and the messages of
\* every form).
SaysDone(f) == flows[f].status = "applied" /\ flows[f].counts = "all"
DoneMeansDone ==
    \A f \in FlowNames : SaysDone(f) =>
        /\ [n |-> flows[f].about, how |-> "all"] \in done[f]
        /\ driver = "desk" \/ \A d \in done[f] : d.n <= flows[f].about

\* The page says "done" only of a change made in full, and the role of the
\* token typed last (Provision.jsx 124-156, 367-384).
SaysWhatIs == FormsTypeOK /\ DoneMeansDone /\ RoleIsOfTheLastToken

\* No form stays busy: its buttons come back (PreviewApply).
EveryFlowSettles ==
    \A f \in FlowNames : []<>(flows[f].status # "busy")
=============================================================================
