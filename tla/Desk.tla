-------------------------------- MODULE Desk --------------------------------
(***************************************************************************)
(* The job desk: a Build that records the exact IDs it made, a Remove that *)
(* deletes only those, and the ledger (desk_runs.json) between the two.    *)
(*                                                                         *)
(* Each Handler is an HTTP request.  A Ledger update is one locked         *)
(* read-edit-save of the whole file, so it is one step, which may fail and *)
(* then changes nothing.  Everything else interleaves: calls to Infoblox,  *)
(* the goroutine that builds a demo kit's server, people working in the    *)
(* portal, and the server stopping at any point.                           *)
(*                                                                         *)
(* A network stands for every container whose deletion takes its contents  *)
(* along (networks, zones); an address for everything that lives in one    *)
(* (addresses, hosts, records, ranges).  The demo server of a run is       *)
(* listed in its objects under the run's own name.                         *)
(***************************************************************************)
EXTENDS Naturals, FiniteSets

CONSTANTS Runs, Handlers, Nets, Addrs, NoRun, NoNet, Person, Nobody

ASSUME DeskAssumption ==
    /\ NoRun \notin Runs /\ NoNet \notin Nets
    /\ Person \notin Runs /\ Nobody \notin Runs \cup {Person}
    /\ Runs \cap Nets = {} /\ Runs \cap Addrs = {} /\ Nets \cap Addrs = {}

Things == Nets \cup Addrs
Objects == Things \cup Runs
Jobs == {"ip", "site", "kit"}       \* kit: a site and then a demo server
Statuses == {"building", "built", "failed", "removing", "removed", "remove-failed"}
Busy == {"building", "removing"}
ObjectStates == {"created", "gone", "removed", "failed"}
Left == {"created", "failed"}       \* still there as far as the record knows

VARIABLES
    rec,        \* the ledger: what each run's entry holds, or NoRun
    portal,     \* networks and addresses that exist in Infoblox
    inside,     \* the network each address was made in
    maker,      \* who made each of them: a run, a person, or nobody yet
    op,         \* the request each handler is serving
    srv,        \* the goroutine a kit's Build leaves behind
    demo,       \* status of the demo server record each kit run owns
    lock,       \* the demo lock file: "free", "held", "stale" (its process is gone)
    unsaved,    \* history: runs whose last status could not be saved
    reported,   \* history: things named only in an answer, never in the ledger
    late, swept \* history: addresses made in a network after its leftover check,
                \* and addresses a Remove's network delete took along

infoblox == <<portal, inside, maker>>
history == <<unsaved, reported, late, swept>>
vars == <<rec, infoblox, op, srv, demo, lock, history>>

\* byHand: the error reads "Check it by hand" (runs.Open).
Records == [status : Statuses, job : Jobs, byHand : BOOLEAN,
            objs : UNION {[S -> ObjectStates] : S \in SUBSET Objects}]

ASSUME NoRunIsNoRecord == NoRun \notin Records

Idle == [step |-> "idle", run |-> NoRun, ok |-> FALSE, named |-> {},
         objs |-> <<>>, tried |-> {}, cleared |-> NoNet]
Steps == {"idle", "build", "record", "serve", "asked", "remove", "teardown"}
Ops == [step : Steps, run : Runs \cup {NoRun}, ok : BOOLEAN, named : SUBSET Things,
        objs : UNION {[S -> ObjectStates] : S \in SUBSET Objects},
        tried : SUBSET Objects, cleared : Nets \cup {NoNet}]

Within(n) == {a \in Addrs : inside[a] = n}
Taken(S) == S \cup UNION {Within(n) : n \in S \cap Nets}    \* by deleting S

Goto(h, o) == op' = [op EXCEPT ![h] = o]

\* Ledger.Change: saved, or not saved and nothing changed.
Saves(r, x) == rec' = [rec EXCEPT ![r] = x] /\ unsaved' = unsaved \ {r}
LosesSave(r) == rec' = rec /\ unsaved' = unsaved \cup {r}

Init ==
    /\ rec = [r \in Runs |-> NoRun]
    /\ portal = {} /\ inside = [a \in Addrs |-> NoNet] /\ maker = [o \in Things |-> Nobody]
    /\ op = [h \in Handlers |-> Idle]
    /\ srv = [r \in Runs |-> "idle"] /\ demo = [r \in Runs |-> "none"] /\ lock = "free"
    /\ unsaved = {} /\ reported = {} /\ late = {} /\ swept = {}

-----------------------------------------------------------------------------
\* Build: recorded as building before Infoblox is called.

DeskRun(h, r, job) ==
    /\ op[h].step = "idle" /\ rec[r] = NoRun
    /\ rec' = [rec EXCEPT ![r] = [status |-> "building", job |-> job, byHand |-> FALSE, objs |-> <<>>]]
    /\ Goto(h, [Idle EXCEPT !.step = "build", !.run = r])
    /\ UNCHANGED <<infoblox, srv, demo, lock, history>>

\* The answer to a create may not carry the ID: then it is only reported.
Creates(h, o) ==
    /\ op[h].step = "build" /\ maker[o] = Nobody
    /\ portal' = portal \cup {o}
    /\ maker' = [maker EXCEPT ![o] = op[h].run]
    /\ \/ Goto(h, [op[h] EXCEPT !.named = @ \cup {o}]) /\ UNCHANGED reported
       \/ UNCHANGED op /\ reported' = reported \cup {o}
    /\ UNCHANGED <<rec, srv, demo, lock, unsaved, swept>>

MakeNet(h, n) ==
    /\ Creates(h, n)
    /\ rec[op[h].run].job # "ip"
    /\ \A m \in Nets : maker[m] # op[h].run
    /\ UNCHANGED <<inside, late>>

\* An address made in a network some Remove has already found empty is late.
Arrives(a, n) ==
    /\ n \in portal
    /\ inside' = [inside EXCEPT ![a] = n]
    /\ late' = IF \E h \in Handlers : op[h].cleared = n THEN late \cup {a} ELSE late

MakeAddr(h, a, n) ==
    /\ Creates(h, a)
    /\ rec[op[h].run].job = "ip" \/ maker[n] = op[h].run
    /\ Arrives(a, n)

BuildOk(h) ==
    /\ op[h].step = "build"
    /\ \E o \in Things : maker[o] = op[h].run
    /\ Goto(h, [op[h] EXCEPT !.step = "record", !.ok = TRUE])
    /\ UNCHANGED <<rec, infoblox, srv, demo, lock, history>>

\* The builder gives back what it can; what it could not stays in its result.
BuildFails(h) ==
    /\ op[h].step = "build"
    /\ \E back \in SUBSET op[h].named :
         /\ portal' = portal \ Taken(back)
         /\ Goto(h, [op[h] EXCEPT !.step = "record", !.named = @ \ back])
    /\ UNCHANGED <<rec, inside, maker, srv, demo, lock, history>>

Listed(named) == [o \in named |-> "created"]
Recorded(x, q) == [x EXCEPT !.objs = Listed(q.named), !.status = IF q.ok THEN "built" ELSE "failed"]

RecordBuild(h) ==
    LET r == op[h].run IN
    /\ op[h].step = "record"
    /\ \/ /\ Saves(r, Recorded(rec[r], op[h]))
          /\ Goto(h, IF op[h].ok /\ rec[r].job = "kit" THEN [Idle EXCEPT !.step = "serve", !.run = r]
                                                       ELSE Idle)
          /\ UNCHANGED reported
       \/ /\ LosesSave(r)
          /\ reported' = reported \cup op[h].named
          /\ Goto(h, Idle)
    /\ UNCHANGED <<infoblox, srv, demo, lock, late, swept>>

-----------------------------------------------------------------------------
\* A kit's demo server: startKitServer, then a goroutine running demo.Build.

StartKitServer(h) ==
    LET r == op[h].run IN
    /\ op[h].step = "serve"
    /\ \/ /\ Saves(r, [rec[r] EXCEPT !.status = "building"])
          /\ srv' = [srv EXCEPT ![r] = "starting"]
       \/ UNCHANGED <<rec, srv, unsaved>>       \* not set up, or not saved
    /\ Goto(h, Idle)
    /\ UNCHANGED <<infoblox, demo, lock, reported, late, swept>>

\* demo.Build returned before Started: another build, settings, the lock file.
ServerRefused(r) ==
    /\ srv[r] = "starting"
    /\ srv' = [srv EXCEPT ![r] = "noting"]
    /\ UNCHANGED <<rec, infoblox, op, demo, lock, history>>

WithServer(x, r) ==
    [x EXCEPT !.objs = [o \in DOMAIN @ \cup {r} |-> IF o = r THEN "created" ELSE @[o]],
              !.status = "built"]

\* The run record is saved, then the Started callback adds it to the ledger.
ServerStarted(r) ==
    /\ srv[r] = "starting" /\ lock = "free"
    /\ \/ /\ Saves(r, WithServer(rec[r], r))
          /\ srv' = [srv EXCEPT ![r] = "working"]
          /\ demo' = [demo EXCEPT ![r] = "building"]
          /\ lock' = "held"
       \/ /\ srv' = [srv EXCEPT ![r] = "noting"]
          /\ demo' = [demo EXCEPT ![r] = "failed"]
          /\ UNCHANGED <<rec, unsaved, lock>>
    /\ UNCHANGED <<infoblox, op, reported, late, swept>>

ServerNoted(r) ==
    /\ srv[r] = "noting"
    /\ Saves(r, [rec[r] EXCEPT !.status = "built"]) \/ LosesSave(r)
    /\ srv' = [srv EXCEPT ![r] = "idle"]
    /\ UNCHANGED <<infoblox, op, demo, lock, reported, late, swept>>

ServerEnds(r) ==
    /\ srv[r] = "working"
    /\ srv' = [srv EXCEPT ![r] = "idle"] /\ lock' = "free"
    /\ \E s \in {"ready", "failed"} : demo' = [demo EXCEPT ![r] = s]
    /\ UNCHANGED <<rec, infoblox, op, history>>

-----------------------------------------------------------------------------
\* Remove.  The page offers it for a run that lists something.

AskRemove(h, r) ==
    /\ op[h].step = "idle" /\ rec[r] # NoRun
    /\ rec[r].status \notin Busy /\ DOMAIN rec[r].objs # {}
    /\ Goto(h, [Idle EXCEPT !.step = "asked", !.run = r])
    /\ UNCHANGED <<rec, infoblox, srv, demo, lock, history>>

Copied(h) == [op[h] EXCEPT !.step = "remove", !.objs = rec[op[h].run].objs]

\* The mutant: the status read before the lock is trusted.
MarkRemovingStale(h) ==
    /\ op[h].step = "asked"
    /\ Saves(op[h].run, [rec[op[h].run] EXCEPT !.status = "removing"])
    /\ Goto(h, Copied(h))
    /\ UNCHANGED <<infoblox, srv, demo, lock, reported, late, swept>>

MarkRemoving(h) ==
    LET r == op[h].run IN
    /\ op[h].step = "asked"
    /\ \/ /\ rec[r].status \notin Busy
          /\ Saves(r, [rec[r] EXCEPT !.status = "removing"])
          /\ Goto(h, Copied(h))
       \/ Goto(h, Idle) /\ UNCHANGED <<rec, unsaved>>   \* 409: in progress, or not saved
    /\ UNCHANGED <<infoblox, srv, demo, lock, reported, late, swept>>

Rank(o) == IF o \in Runs THEN 1 ELSE IF o \in Addrs THEN 2 ELSE 3     \* removeOrder
Pending(h) == {o \in DOMAIN op[h].objs : op[h].objs[o] \in Left /\ o \notin op[h].tried}
Turn(h, o) ==
    /\ op[h].step = "remove"
    /\ o \in Pending(h) /\ \A p \in Pending(h) : Rank(o) <= Rank(p)

Tried(q, o, s) ==
    [q EXCEPT !.step = "remove", !.objs[o] = s, !.tried = @ \cup {o}, !.cleared = NoNet]
Outcome(h, o, s) == Goto(h, Tried(op[h], o, s))

\* removeDemoServer: refused while its record says building, or by the lock.
RemoveServer(h, r) ==
    /\ Turn(h, r)
    /\ \/ Outcome(h, r, "failed") /\ UNCHANGED <<demo, lock>>
       \/ /\ demo[r] = "removed" /\ lock = "free"
          /\ Outcome(h, r, "removed") /\ UNCHANGED <<demo, lock>>
       \/ /\ demo[r] \notin {"building", "removed"} /\ lock = "free"
          /\ demo' = [demo EXCEPT ![r] = "removing"] /\ lock' = "held"
          /\ Goto(h, [op[h] EXCEPT !.step = "teardown"])
    /\ UNCHANGED <<rec, infoblox, srv, history>>

TeardownEnds(h, r) ==
    /\ op[h].step = "teardown" /\ r \in Pending(h) \cap Runs
    /\ \/ demo' = [demo EXCEPT ![r] = "removed"] /\ Outcome(h, r, "removed")
       \/ demo' = [demo EXCEPT ![r] = "remove-failed"] /\ Outcome(h, r, "failed")
    /\ lock' = "free"
    /\ UNCHANGED <<rec, infoblox, srv, history>>

\* The mutant: an unanswered DELETE counts as done.
DeleteUnanswered(h, o) ==
    /\ portal' \in {portal, portal \ Taken({o})} /\ Outcome(h, o, "removed")
    /\ swept' = swept \cup ((portal \ portal') \ {o})
    /\ UNCHANGED <<rec, inside, maker, srv, demo, lock, unsaved, reported, late>>

\* One DELETE: done, already gone, or refused or unanswered, done or not.
Delete(h, o) ==
    LET there == o \in portal IN
    /\ \/ there /\ portal' = portal \ Taken({o}) /\ Outcome(h, o, "removed")
       \/ ~there /\ UNCHANGED portal /\ Outcome(h, o, "gone")
       \/ portal' \in {portal, portal \ Taken({o})} /\ Outcome(h, o, "failed")
    /\ swept' = swept \cup ((portal \ portal') \ {o})
    /\ UNCHANGED <<rec, inside, maker, srv, demo, lock, unsaved, reported, late>>

RemoveAddr(h, a) == Turn(h, a) /\ Delete(h, a)

\* blocker: a network that holds anything, or cannot be checked, is kept.
CheckNet(h, n) ==
    /\ Turn(h, n) /\ op[h].cleared = NoNet
    /\ \/ /\ n \in portal => Within(n) \cap portal = {}
          /\ Goto(h, [op[h] EXCEPT !.cleared = n])
       \/ Outcome(h, n, "failed")
    /\ UNCHANGED <<rec, infoblox, srv, demo, lock, history>>

RemoveNet(h, n) == Turn(h, n) /\ op[h].cleared = n /\ Delete(h, n)

Removed(x, q) ==
    LET clean == \A o \in q.tried : q.objs[o] # "failed"
    IN [x EXCEPT !.objs = q.objs, !.byHand = FALSE,
                 !.status = IF clean THEN "removed" ELSE "remove-failed"]

SaveRemove(h) ==
    LET r == op[h].run IN
    /\ op[h].step = "remove" /\ Pending(h) = {}
    /\ \/ Saves(r, Removed(rec[r], op[h]))
       \/ LosesSave(r)
    /\ Goto(h, Idle)
    /\ UNCHANGED <<infoblox, srv, demo, lock, reported, late, swept>>

-----------------------------------------------------------------------------
\* The rest of the world.

PersonAdds(a, n) ==
    /\ maker[a] = Nobody
    /\ maker' = [maker EXCEPT ![a] = Person] /\ portal' = portal \cup {a}
    /\ Arrives(a, n)
    /\ UNCHANGED <<rec, op, srv, demo, lock, unsaved, reported, swept>>

PersonDeletes(o) ==
    /\ o \in portal
    /\ portal' = portal \ Taken({o})
    /\ UNCHANGED <<rec, inside, maker, op, srv, demo, lock, history>>

\* runs.Open: what a stopped server left in progress is marked.
Marked(r) ==
    IF rec[r] = NoRun THEN NoRun
    ELSE [rec[r] EXCEPT !.status = CASE @ = "building" -> "failed"
                                     [] @ = "removing" -> "remove-failed"
                                     [] OTHER -> @,
                        !.byHand = IF rec[r].status = "removing" THEN FALSE
                                   ELSE @ \/ rec[r].status = "building"]

BusyRuns == {r \in Runs : rec[r] # NoRun /\ rec[r].status \in Busy}

Restart ==
    /\ op' = [h \in Handlers |-> Idle] /\ srv' = [r \in Runs |-> "idle"]
    /\ lock' = IF lock = "held" THEN "stale" ELSE lock
    /\ \/ rec' = [r \in Runs |-> Marked(r)] /\ unsaved' = {}
       \/ rec' = rec /\ unsaved' = BusyRuns     \* Open ignores the error
    /\ UNCHANGED <<infoblox, demo, reported, late, swept>>

\* The Demo server page tears down any run by its change ID, whatever its
\* status; the lock keeps it apart from every other build and teardown.
DemoPageTeardown(r) ==
    /\ demo[r] \notin {"none", "removed"} /\ lock = "free"
    /\ \E s \in {"removed", "remove-failed"} : demo' = [demo EXCEPT ![r] = s]
    /\ UNCHANGED <<rec, infoblox, op, srv, lock, history>>

LockAges ==     \* a lock file two hours old is taken over
    /\ lock = "stale" /\ lock' = "free"
    /\ UNCHANGED <<rec, infoblox, op, srv, demo, history>>

BuildStep(h) ==
    \/ \E r \in Runs, job \in Jobs : DeskRun(h, r, job)
    \/ \E n \in Nets : MakeNet(h, n) \/ \E a \in Addrs : MakeAddr(h, a, n)
    \/ BuildOk(h) \/ BuildFails(h) \/ RecordBuild(h) \/ StartKitServer(h)

RemoveStep(h) ==
    \/ \E r \in Runs : AskRemove(h, r) \/ RemoveServer(h, r) \/ TeardownEnds(h, r)
    \/ MarkRemoving(h) \/ SaveRemove(h)
    \/ \E a \in Addrs : RemoveAddr(h, a)
    \/ \E n \in Nets : CheckNet(h, n) \/ RemoveNet(h, n)

ServerStep(r) == ServerRefused(r) \/ ServerStarted(r) \/ ServerNoted(r) \/ ServerEnds(r)

Next ==
    \/ \E h \in Handlers : BuildStep(h) \/ RemoveStep(h)
    \/ \E r \in Runs : ServerStep(r) \/ DemoPageTeardown(r)
    \/ \E o \in Things : PersonDeletes(o)
    \/ \E a \in Addrs, n \in Nets : PersonAdds(a, n)
    \/ Restart \/ LockAges

Spec == Init /\ [][Next]_vars

-----------------------------------------------------------------------------
DemoStatuses == {"none", "building", "ready", "failed", "removing", "removed", "remove-failed"}

\* Every variable keeps its type, the demo lock is held exactly while a demo
\* build or teardown runs, and a run's server entry is its own.
DeskTypeOK ==
    /\ rec \in [Runs -> Records \cup {NoRun}]
    /\ portal \subseteq Things /\ inside \in [Addrs -> Nets \cup {NoNet}]
    /\ maker \in [Things -> Runs \cup {Person, Nobody}]
    /\ op \in [Handlers -> Ops]
    /\ srv \in [Runs -> {"idle", "starting", "noting", "working"}]
    /\ demo \in [Runs -> DemoStatuses] /\ lock \in {"free", "held", "stale"}
    /\ unsaved \subseteq Runs /\ reported \subseteq Things
    /\ late \subseteq Addrs /\ swept \subseteq Addrs
    /\ lock = "held" <=> \/ \E r \in Runs : srv[r] = "working"
                         \/ \E h \in Handlers : op[h].step = "teardown"

Builder(h, r) == op[h].run = r /\ op[h].step \in {"build", "record"}
Remover(h, r) == op[h].run = r /\ op[h].step \in {"remove", "teardown"}

\* "so they are not stuck forever" (runs.Open): a run that reads building or
\* removing has a request or a goroutine at work that will settle it, unless
\* the last attempt to save its status failed.
BusyHasAWorker ==
    \A r \in BusyRuns \ unsaved :
        \/ \E h \in Handlers : Builder(h, r) \/ Remover(h, r)
        \/ srv[r] \in {"starting", "noting"}

\* "cannot work from a stale copy and delete twice" (deskRemove): a run
\* without a demo server never has two requests working on it.
OneWorkerPerRun ==
    \A r \in Runs : rec[r] # NoRun /\ rec[r].job # "kit" =>
        Cardinality({h \in Handlers : Builder(h, r) \/ Remover(h, r)}) <= 1

\* What the ledger says is gone is gone, and a run shown as removed has left
\* nothing it lists behind, in Infoblox or on the demo host.
GoneIsGone ==
    \A r \in Runs : rec[r] # NoRun =>
        \A o \in DOMAIN rec[r].objs :
            /\ rec[r].objs[o] \in {"gone", "removed"} => o \notin portal /\ (o \in Runs => demo[o] = "removed")
            /\ rec[r].status = "removed" => rec[r].objs[o] \notin Left

\* Everything a Build made that still exists is offered for Remove, or was
\* named in an answer, or its run is marked as one to check by hand.
NothingUnaccounted ==
    \A o \in portal : maker[o] \in Runs =>
        LET x == rec[maker[o]] IN
        \/ o \in reported
        \/ \E h \in Handlers : Builder(h, maker[o])
        \/ o \in DOMAIN x.objs /\ x.objs[o] \in Left
        \/ x.objs = <<>> /\ (x.byHand \/ x.status = "building")

\* "A small gap remains" (deskRemove): deleting a network takes along only
\* addresses that were made after the check that found it empty.
SweptArrivedLate == swept \subseteq late

(* RunsAreWorked: a run that says it is being built or removed has exactly *)
(* one worker, or is put right at the next start (desk.go, runs.go Open).  *)
RunsAreWorked == DeskTypeOK /\ BusyHasAWorker /\ OneWorkerPerRun

(* LedgerAccounts: what is said to be gone is gone, what a Build made is   *)
(* in sight, and a Remove takes no more than it may (desk.go deskRemove).  *)
LedgerAccounts == GoneIsGone /\ NothingUnaccounted /\ SweptArrivedLate

\* "so Remove waits (409) instead of removing the site while its server is
\* still starting" (startKitServer).  The run reads "built" between its record
\* and that mark, and a Remove that gets in there does not wait.
RemoveWaitsForServer ==
    \A r \in Runs, h \in Handlers : Remover(h, r) => srv[r] # "starting"
=============================================================================
