----------------------------- MODULE DeskProofs -----------------------------
(***************************************************************************)
(* What Desk promises, for any number of runs, requests, networks and      *)
(* addresses: who works on a run, and that the ledger accounts for what    *)
(* the runs made.                                                          *)
(***************************************************************************)
EXTENDS Desk, FiniteSetTheorems, TLAPS

\* A list of objects of run r that says gone only of what is gone for good,
\* where p is all that exists.
HonestOf(p, x, r) ==
    \A o \in DOMAIN x :
        /\ o \in Things => maker[o] # Nobody
        /\ o \in Runs => o = r /\ demo[o] # "none"
        /\ x[o] \in {"gone", "removed"} => o \notin p /\ (o \in Runs => demo[o] = "removed")
Honest(x, r) == HonestOf(portal, x, r)

\* The demo lock belongs to one build or one teardown.
LockIsExclusive ==
    /\ \A r, s \in Runs : srv[r] = "working" /\ srv[s] = "working" => r = s
    /\ \A h, g \in Handlers : op[h].step = "teardown" /\ op[g].step = "teardown" => h = g
    /\ \A r \in Runs, h \in Handlers : srv[r] = "working" => op[h].step # "teardown"

\* What a request holds at each of its steps.
RequestFits(h) ==
    /\ op[h].step = "idle" => op[h].run = NoRun
    /\ op[h].step # "idle" => op[h].run \in Runs /\ rec[op[h].run] # NoRun
    /\ op[h].cleared # NoNet => op[h].step \in {"remove", "teardown"}
    /\ op[h].step = "asked" => op[h].tried = {}
    /\ \A o \in op[h].tried : o \in DOMAIN op[h].objs /\ op[h].objs[o] # "created"
    /\ \A o \in op[h].named : maker[o] # Nobody
    /\ op[h].step = "teardown" => op[h].run \in Pending(h) /\ demo[op[h].run] = "removing"
    /\ Honest(op[h].objs, op[h].run)
RequestsFit == \A h \in Handlers : RequestFits(h)

\* What the ledger holds of a run.
RecordsFit ==
    \A r \in Runs : rec[r] # NoRun =>
        /\ Honest(rec[r].objs, r)
        /\ rec[r].status = "removed" => \A o \in DOMAIN rec[r].objs : rec[r].objs[o] \notin Left

\* A run being built has nothing listed and no other request; a demo server
\* starts once, after that.
BuildsAreAlone ==
    /\ \A h \in Handlers, r \in Runs : Builder(h, r) =>
         /\ rec[r].status = "building" /\ rec[r].objs = <<>>
         /\ srv[r] = "idle" /\ demo[r] = "none"
         /\ \A g \in Handlers : op[g].run = r => g = h
    /\ \A h \in Handlers, r \in Runs : op[h].run = r /\ op[h].step = "serve" =>
         /\ rec[r].job = "kit" /\ srv[r] = "idle" /\ demo[r] = "none"
         /\ \A g \in Handlers : op[g].run = r /\ op[g].step = "serve" => g = h
    /\ \A r \in Runs :
         /\ srv[r] # "idle" => rec[r] # NoRun /\ rec[r].job = "kit"
         /\ srv[r] = "starting" => demo[r] = "none"
         /\ srv[r] = "working" => demo[r] = "building"
         /\ rec[r] = NoRun => demo[r] = "none"

\* Without a demo server a run that is being removed has one request.
RemovesAreAlone ==
    \A h \in Handlers, r \in Runs : Remover(h, r) /\ rec[r].job # "kit" =>
        /\ rec[r].status = "removing"
        /\ \A g \in Handlers : Remover(g, r) => g = h

\* Nothing but a restart touches a run whose Build was lost.
Quiet(r) == srv[r] = "idle" /\ \A h \in Handlers : op[h].run # r

\* An entry whose Build never got to list what it made.
Unlisted(x) == x.objs = <<>> /\ x.status # "removing" /\ (x.byHand \/ x.status = "building")

\* Where a thing that a run made, and that still exists, can be found.
MadeIsFound ==
    /\ \A o \in portal : maker[o] # Nobody /\ (maker[o] \in Runs => rec[maker[o]] # NoRun)
    /\ \A o \in portal \ reported, r \in Runs : maker[o] = r =>
         /\ \A h \in Handlers : /\ Builder(h, r) => o \in op[h].named
                                /\ Remover(h, r) => o \in DOMAIN op[h].objs
         /\ (\A h \in Handlers : ~Builder(h, r)) =>
              \/ o \in DOMAIN rec[r].objs
              \/ Unlisted(rec[r]) /\ Quiet(r)

\* Deleting a network takes what is in it; what came after the check is late.
NetworksHold ==
    /\ \A a \in Addrs \cap portal : inside[a] \in Nets => inside[a] \in portal
    /\ \A h \in Handlers, a \in Addrs \cap portal :
         op[h].cleared # NoNet /\ inside[a] = op[h].cleared => a \in late
    /\ swept \subseteq late

DeskInv ==
    /\ DeskTypeOK /\ LockIsExclusive /\ RequestsFit /\ RecordsFit /\ BuildsAreAlone
    /\ RemovesAreAlone /\ MadeIsFound /\ NetworksHold /\ BusyHasAWorker

-----------------------------------------------------------------------------
(* The lists of objects, and the records and requests that hold them.      *)
ObjMaps == UNION {[S -> ObjectStates] : S \in SUBSET Objects}

LEMMA ListOf ==
    ASSUME NEW x
    PROVE  x \in ObjMaps <=> x \in [DOMAIN x -> ObjectStates] /\ DOMAIN x \subseteq Objects
  BY DEF ObjMaps

LEMMA EmptyList == <<>> \in ObjMaps /\ DOMAIN <<>> = {}
  <1>1. DOMAIN <<>> = {}
    OBVIOUS
  <1>2. <<>> \in [{} -> ObjectStates]
    OBVIOUS
  <1> QED
    BY <1>1, <1>2 DEF ObjMaps

LEMMA RecordOf ==
    ASSUME NEW x \in Records
    PROVE  /\ x.status \in Statuses /\ x.job \in Jobs /\ x.byHand \in BOOLEAN /\ x.objs \in ObjMaps
           /\ x # NoRun
  BY NoRunIsNoRecord DEF Records, ObjMaps

LEMMA RequestOf ==
    ASSUME NEW q \in Ops
    PROVE  /\ q.step \in Steps /\ q.run \in Runs \cup {NoRun} /\ q.ok \in BOOLEAN
           /\ q.named \in SUBSET Things /\ q.objs \in ObjMaps /\ q.tried \in SUBSET Objects
           /\ q.cleared \in Nets \cup {NoNet}
  BY DEF Ops, ObjMaps

LEMMA StatusOf ==
    ASSUME NEW x \in Records, NEW s \in Statuses
    PROVE  /\ [x EXCEPT !.status = s] \in Records
           /\ [x EXCEPT !.status = s].status = s /\ [x EXCEPT !.status = s].objs = x.objs
           /\ [x EXCEPT !.status = s].job = x.job /\ [x EXCEPT !.status = s].byHand = x.byHand
  BY DEF Records

LEMMA RecordedOf ==
    ASSUME NEW x \in Records, NEW q \in Ops
    PROVE  /\ Recorded(x, q) \in Records /\ Recorded(x, q).job = x.job
           /\ DOMAIN Recorded(x, q).objs = q.named
           /\ \A o \in q.named : Recorded(x, q).objs[o] = "created"
           /\ Recorded(x, q).status = IF q.ok THEN "built" ELSE "failed"
  <1> DEFINE l == Listed(q.named)
             s == IF q.ok THEN "built" ELSE "failed"
  <1>1. l \in ObjMaps /\ DOMAIN l = q.named /\ \A o \in q.named : l[o] = "created"
    <2>1. q.named \in SUBSET Objects
      BY RequestOf DEF Objects
    <2>2. l \in [q.named -> ObjectStates]
      BY DEF Listed, ObjectStates
    <2> QED
      BY <2>1, <2>2 DEF ObjMaps, Listed
  <1>2. s \in Statuses
    BY DEF Statuses
  <1> HIDE DEF l, s
  <1>3. /\ [x EXCEPT !.objs = l, !.status = s] \in Records
        /\ [x EXCEPT !.objs = l, !.status = s].job = x.job
        /\ [x EXCEPT !.objs = l, !.status = s].objs = l
        /\ [x EXCEPT !.objs = l, !.status = s].status = s
    BY <1>1, <1>2 DEF Records, ObjMaps
  <1>4. Recorded(x, q) = [x EXCEPT !.objs = l, !.status = s]
    BY DEF Recorded, l, s
  <1> QED
    BY <1>1, <1>3, <1>4 DEF s

LEMMA WithServerOf ==
    ASSUME NEW x \in Records, NEW r \in Runs
    PROVE  /\ WithServer(x, r) \in Records /\ WithServer(x, r).job = x.job
           /\ WithServer(x, r).byHand = x.byHand /\ WithServer(x, r).status = "built"
           /\ DOMAIN WithServer(x, r).objs = DOMAIN x.objs \cup {r}
           /\ WithServer(x, r).objs[r] = "created"
           /\ \A o \in DOMAIN x.objs \ {r} : WithServer(x, r).objs[o] = x.objs[o]
  <1> DEFINE l == [o \in DOMAIN x.objs \cup {r} |-> IF o = r THEN "created" ELSE x.objs[o]]
  <1>1. /\ DOMAIN l = DOMAIN x.objs \cup {r} /\ l[r] = "created"
        /\ \A o \in DOMAIN x.objs \ {r} : l[o] = x.objs[o]
    OBVIOUS
  <1>2. l \in ObjMaps
    <2>1. x.objs \in [DOMAIN x.objs -> ObjectStates] /\ DOMAIN x.objs \subseteq Objects
      BY RecordOf, ListOf
    <2>2. l \in [DOMAIN x.objs \cup {r} -> ObjectStates]
      BY <2>1 DEF ObjectStates
    <2>3. DOMAIN x.objs \cup {r} \in SUBSET Objects
      BY <2>1 DEF Objects
    <2> QED
      BY <2>2, <2>3 DEF ObjMaps
  <1>3. WithServer(x, r) = [x EXCEPT !.objs = l, !.status = "built"]
    BY DEF WithServer
  <1> HIDE DEF l
  <1>4. /\ [x EXCEPT !.objs = l, !.status = "built"] \in Records
        /\ [x EXCEPT !.objs = l, !.status = "built"].job = x.job
        /\ [x EXCEPT !.objs = l, !.status = "built"].byHand = x.byHand
        /\ [x EXCEPT !.objs = l, !.status = "built"].objs = l
        /\ [x EXCEPT !.objs = l, !.status = "built"].status = "built"
    BY <1>2 DEF Records, ObjMaps, Statuses
  <1> QED
    BY <1>1, <1>3, <1>4

LEMMA RemovedOf ==
    ASSUME NEW x \in Records, NEW q \in Ops
    PROVE  /\ Removed(x, q) \in Records /\ Removed(x, q).job = x.job
           /\ Removed(x, q).objs = q.objs
           /\ Removed(x, q).status =
                IF \A o \in q.tried : q.objs[o] # "failed" THEN "removed" ELSE "remove-failed"
  <1> DEFINE s == IF \A o \in q.tried : q.objs[o] # "failed" THEN "removed" ELSE "remove-failed"
             y == [[[x EXCEPT !.objs = q.objs] EXCEPT !.byHand = FALSE] EXCEPT !.status = s]
             l == q.objs
  <1>1. s \in Statuses /\ l \in ObjMaps
    BY RequestOf DEF Statuses
  <1> HIDE DEF s, l
  <1>2. /\ [[[x EXCEPT !.objs = l] EXCEPT !.byHand = FALSE] EXCEPT !.status = s] \in Records
        /\ [[[x EXCEPT !.objs = l] EXCEPT !.byHand = FALSE] EXCEPT !.status = s].job = x.job
        /\ [[[x EXCEPT !.objs = l] EXCEPT !.byHand = FALSE] EXCEPT !.status = s].objs = l
        /\ [[[x EXCEPT !.objs = l] EXCEPT !.byHand = FALSE] EXCEPT !.status = s].status = s
    BY <1>1 DEF Records, ObjMaps
  <1>3. y \in Records /\ y.job = x.job /\ y.objs = q.objs /\ y.status = s
    BY <1>2 DEF l
  <1>4. Removed(x, q) = y
    BY DEF Removed, s
  <1> QED
    BY <1>3, <1>4 DEF s

LEMMA TriedOf ==
    ASSUME NEW q \in Ops, NEW o \in DOMAIN q.objs, NEW s \in ObjectStates
    PROVE  /\ Tried(q, o, s) \in Ops /\ Tried(q, o, s).step = "remove"
           /\ Tried(q, o, s).run = q.run /\ Tried(q, o, s).named = q.named
           /\ Tried(q, o, s).tried = q.tried \cup {o} /\ Tried(q, o, s).cleared = NoNet
           /\ DOMAIN Tried(q, o, s).objs = DOMAIN q.objs
           /\ Tried(q, o, s).objs[o] = s
           /\ \A p \in DOMAIN q.objs \ {o} : Tried(q, o, s).objs[p] = q.objs[p]
  <1> DEFINE l == [q.objs EXCEPT ![o] = s]
             t == q.tried \cup {o}
             y == [[[[q EXCEPT !.step = "remove"] EXCEPT !.objs = l] EXCEPT !.tried = t]
                     EXCEPT !.cleared = NoNet]
  <1>1. q.objs \in [DOMAIN q.objs -> ObjectStates] /\ DOMAIN q.objs \subseteq Objects
    BY RequestOf, ListOf
  <1>2. /\ l \in [DOMAIN q.objs -> ObjectStates] /\ l[o] = s
        /\ \A p \in DOMAIN q.objs \ {o} : l[p] = q.objs[p]
    BY <1>1
  <1>3. l \in ObjMaps /\ DOMAIN l = DOMAIN q.objs
    BY <1>1, <1>2 DEF ObjMaps
  <1>4. t \in SUBSET Objects
    BY <1>1, RequestOf
  <1>5. Tried(q, o, s) = y
    BY DEF Tried
  <1> HIDE DEF l, t
  <1>6. /\ y \in Ops /\ y.step = "remove" /\ y.run = q.run /\ y.named = q.named
        /\ y.tried = t /\ y.cleared = NoNet /\ y.objs = l
    BY <1>3, <1>4 DEF Ops, ObjMaps, Steps
  <1> QED
    BY <1>2, <1>3, <1>5, <1>6 DEF t

LEMMA MarkedOf ==
    ASSUME NEW r \in Runs, rec[r] \in Records \cup {NoRun}
    PROVE  /\ Marked(r) \in Records \cup {NoRun} /\ (Marked(r) = NoRun <=> rec[r] = NoRun)
           /\ rec[r] # NoRun =>
                /\ Marked(r).objs = rec[r].objs /\ Marked(r).job = rec[r].job
                /\ Marked(r).status \notin Busy
                /\ Marked(r).status = "removed" => rec[r].status = "removed"
                /\ rec[r].byHand \/ rec[r].status = "building" =>
                     Marked(r).byHand \/ rec[r].status = "removing"
  <1> SUFFICES ASSUME rec[r] # NoRun PROVE
                /\ Marked(r) \in Records /\ Marked(r) # NoRun
                /\ Marked(r).objs = rec[r].objs /\ Marked(r).job = rec[r].job
                /\ Marked(r).status \notin Busy
                /\ Marked(r).status = "removed" => rec[r].status = "removed"
                /\ rec[r].byHand \/ rec[r].status = "building" =>
                     Marked(r).byHand \/ rec[r].status = "removing"
    BY DEF Marked
  <1> DEFINE x == rec[r]
             s == CASE x.status = "building" -> "failed"
                    [] x.status = "removing" -> "remove-failed"
                    [] OTHER -> x.status
             b == IF x.status = "removing" THEN FALSE
                  ELSE x.byHand \/ x.status = "building"
  <1>1. x \in Records /\ x.status \in Statuses /\ x.byHand \in BOOLEAN
    BY RecordOf
  <1>2. /\ s \in Statuses /\ s \notin Busy /\ b \in BOOLEAN
        /\ s = "removed" => x.status = "removed"
        /\ x.byHand \/ x.status = "building" => b \/ x.status = "removing"
    BY <1>1 DEF Statuses, Busy
  <1>3. Marked(r) = [x EXCEPT !.status = s, !.byHand = b]
    BY DEF Marked
  <1> HIDE DEF x, s, b
  <1>4. /\ [x EXCEPT !.status = s, !.byHand = b] \in Records
        /\ [x EXCEPT !.status = s, !.byHand = b].objs = x.objs
        /\ [x EXCEPT !.status = s, !.byHand = b].job = x.job
        /\ [x EXCEPT !.status = s, !.byHand = b].status = s
        /\ [x EXCEPT !.status = s, !.byHand = b].byHand = b
    BY <1>1, <1>2 DEF Records
  <1>5. /\ Marked(r) \in Records /\ Marked(r) # NoRun
        /\ Marked(r).objs = x.objs /\ Marked(r).job = x.job
        /\ Marked(r).status = s /\ Marked(r).byHand = b
    BY <1>3, <1>4, NoRunIsNoRecord
  <1>6. /\ Marked(r).status \notin Busy
        /\ Marked(r).status = "removed" => x.status = "removed"
        /\ x.byHand \/ x.status = "building" => Marked(r).byHand \/ x.status = "removing"
    BY <1>2, <1>5
  <1> QED
    BY <1>5, <1>6 DEF x

LEMMA IdleOf ==
    /\ Idle \in Ops /\ Idle.step = "idle" /\ Idle.run = NoRun /\ Idle.named = {}
    /\ Idle.objs = <<>> /\ DOMAIN Idle.objs = {} /\ Idle.tried = {} /\ Idle.cleared = NoNet
  BY EmptyList DEF Idle, Ops, Steps, ObjMaps

LEMMA ThingsAndRuns == /\ \A o \in Things : o \notin Runs
                       /\ \A o \in Objects : o \in Things \/ o \in Runs
  BY DeskAssumption DEF Things, Objects

LEMMA InitDeskInv == Init => DeskInv
  <1> SUFFICES ASSUME Init PROVE DeskInv
    OBVIOUS
  <1>1. /\ \A r \in Runs : rec[r] = NoRun /\ srv[r] = "idle" /\ demo[r] = "none"
        /\ \A h \in Handlers : op[h] = Idle
        /\ portal = {} /\ swept = {} /\ lock = "free"
    BY DEF Init
  <1>2. DeskTypeOK
    BY <1>1, IdleOf, DeskAssumption DEF Init, DeskTypeOK, DemoStatuses, Things
  <1>3. LockIsExclusive /\ BuildsAreAlone /\ RemovesAreAlone
    BY <1>1, IdleOf, DeskAssumption
    DEF LockIsExclusive, BuildsAreAlone, RemovesAreAlone, Builder, Remover
  <1>4. RequestsFit
    BY <1>1, IdleOf DEF RequestsFit, RequestFits, Honest, HonestOf
  <1>5. RecordsFit /\ MadeIsFound /\ NetworksHold
    BY <1>1 DEF RecordsFit, MadeIsFound, NetworksHold
  <1>6. BusyHasAWorker
    BY <1>1 DEF BusyHasAWorker, BusyRuns
  <1> QED
    BY <1>2, <1>3, <1>4, <1>5, <1>6 DEF DeskInv

-----------------------------------------------------------------------------
LEMMA Types ==
    ASSUME DeskInv
    PROVE  /\ rec \in [Runs -> Records \cup {NoRun}]
           /\ \A r \in Runs : rec[r] # NoRun => rec[r] \in Records
           /\ portal \subseteq Things /\ inside \in [Addrs -> Nets \cup {NoNet}]
           /\ maker \in [Things -> Runs \cup {Person, Nobody}]
           /\ op \in [Handlers -> Ops]
           /\ srv \in [Runs -> {"idle", "starting", "noting", "working"}]
           /\ demo \in [Runs -> DemoStatuses] /\ lock \in {"free", "held", "stale"}
           /\ unsaved \subseteq Runs /\ reported \subseteq Things
           /\ late \subseteq Addrs /\ swept \subseteq Addrs
           /\ lock = "held" <=> \/ \E r \in Runs : srv[r] = "working"
                                \/ \E h \in Handlers : op[h].step = "teardown"
  BY DEF DeskInv, DeskTypeOK

\* One request moves; the others stay.
LEMMA OneMoves ==
    ASSUME DeskInv, NEW h \in Handlers, NEW o \in Ops, Goto(h, o)
    PROVE  /\ op' \in [Handlers -> Ops] /\ op'[h] = o
           /\ \A g \in Handlers : g # h => op'[g] = op[g]
  BY Types DEF Goto

\* A request that goes on, or ends, without touching the ledger or a server.
MovesOn(q, o) ==
    /\ o.step = "idle" => o.run = NoRun
    /\ o.step # "idle" => o.run \in Runs /\ rec[o.run] # NoRun
    /\ o.cleared # NoNet =>
         o.step = "remove" /\ \A a \in Addrs \cap portal' : inside[a] = o.cleared => a \in late
    /\ o.step = "asked" => /\ o.tried = {} /\ rec[o.run].status \notin Busy
                           /\ DOMAIN rec[o.run].objs # {}
    /\ \A x \in o.tried : x \in DOMAIN o.objs /\ o.objs[x] # "created"
    /\ \A x \in o.named : maker[x] # Nobody
    /\ HonestOf(portal', o.objs, o.run)
    /\ o.step \notin {"teardown", "serve"} /\ q.step # "teardown"
    /\ o.step \in {"build", "record"} <=> q.step \in {"build", "record"}
    /\ o.step \in {"build", "record"} => o.run = q.run /\ q.named \cap portal' \subseteq o.named
    /\ o.step = "remove" <=> q.step = "remove"
    /\ o.step = "remove" => o.run = q.run /\ DOMAIN o.objs = DOMAIN q.objs

(* Requests move on, and things are deleted with all that is in them.      *)
LEMMA MovesKeep ==
    ASSUME DeskInv, NEW S \in SUBSET Things, NEW T \in SUBSET late,
           portal' = portal \ Taken(S), swept' = swept \cup T,
           op' \in [Handlers -> Ops],
           \A h \in Handlers : op'[h] = op[h] \/ MovesOn(op[h], op'[h]),
           UNCHANGED <<rec, inside, maker, srv, demo, lock, unsaved, reported, late>>
    PROVE  DeskInv'
  <1>1. portal' \subseteq portal
    OBVIOUS
  <1>2. \A x, r : Honest(x, r) => HonestOf(portal', x, r)
    BY <1>1 DEF Honest, HonestOf
  <1>3. DeskTypeOK'
    <2>1. \A h \in Handlers : op'[h].step = "teardown" <=> op[h].step = "teardown"
      BY DEF MovesOn
    <2>2. swept' \subseteq Addrs
      BY Types
    <2> QED
      BY <1>1, <2>1, <2>2, Types DEF DeskTypeOK
  <1>4. LockIsExclusive'
    BY DEF DeskInv, LockIsExclusive, MovesOn
  <1>5. RequestsFit'
    <2> SUFFICES ASSUME NEW h \in Handlers PROVE RequestFits(h)'
      BY DEF RequestsFit
    <2>1. CASE op'[h] = op[h]
      <3>1. HonestOf(portal', op[h].objs, op[h].run)
        BY <1>2 DEF DeskInv, RequestsFit, RequestFits
      <3>2. Honest(op[h].objs, op[h].run)'
        BY <2>1, <3>1 DEF Honest, HonestOf
      <3> QED
        BY <2>1, <3>2 DEF DeskInv, RequestsFit, RequestFits, Pending
    <2>2. CASE MovesOn(op[h], op'[h])
      <3>1. Honest(op[h].objs, op[h].run)'
        BY <2>2 DEF MovesOn, Honest, HonestOf
      <3> QED
        BY <2>2, <3>1 DEF MovesOn, RequestFits
    <2> QED
      BY <2>1, <2>2
  <1>6. RecordsFit'
    <2>1. \A r \in Runs : Honest(rec[r].objs, r)' <=> HonestOf(portal', rec[r].objs, r)
      BY DEF Honest, HonestOf
    <2> QED
      BY <1>2, <2>1 DEF DeskInv, RecordsFit
  <1>7. \A h \in Handlers, r \in Runs :
          /\ Builder(h, r)' <=> Builder(h, r)
          /\ op'[h].step = "remove" /\ op'[h].run = r <=> op[h].step = "remove" /\ op[h].run = r
          /\ Remover(h, r)' <=> Remover(h, r)
          /\ op'[h].step = "serve" => op'[h] = op[h]
    BY DEF MovesOn, Builder, Remover

  <1>8. BuildsAreAlone'
    <2>1. ASSUME NEW h \in Handlers, NEW r \in Runs, Builder(h, r)'
          PROVE  /\ rec[r].status = "building" /\ rec[r].objs = <<>>
                 /\ srv[r] = "idle" /\ demo[r] = "none"
                 /\ \A g \in Handlers : op'[g].run = r => g = h
      <3>1. /\ rec[r].status = "building" /\ rec[r].objs = <<>>
            /\ srv[r] = "idle" /\ demo[r] = "none"
            /\ \A g \in Handlers : op[g].run = r => g = h
        BY <1>7, <2>1 DEF DeskInv, BuildsAreAlone
      <3>2. ASSUME NEW g \in Handlers, op'[g].run = r PROVE op[g].run = r
        <4>1. r # NoRun /\ rec[r].status \in Busy
          BY <3>1, DeskAssumption DEF Busy
        <4> QED
          BY <3>2, <4>1, RequestOf, Types DEF MovesOn, Steps
      <3> QED
        BY <3>1, <3>2
    <2>2. ASSUME NEW h \in Handlers, NEW r \in Runs, op'[h].run = r, op'[h].step = "serve"
          PROVE  /\ rec[r].job = "kit" /\ srv[r] = "idle" /\ demo[r] = "none"
                 /\ \A g \in Handlers : op'[g].run = r /\ op'[g].step = "serve" => g = h
      BY <1>7, <2>2 DEF DeskInv, BuildsAreAlone
    <2>3. \A r \in Runs :
            /\ srv[r] # "idle" => rec[r] # NoRun /\ rec[r].job = "kit"
            /\ srv[r] = "starting" => demo[r] = "none"
            /\ srv[r] = "working" => demo[r] = "building"
            /\ rec[r] = NoRun => demo[r] = "none"
      BY DEF DeskInv, BuildsAreAlone
    <2> QED
      BY <2>1, <2>2, <2>3 DEF BuildsAreAlone
  <1>9. RemovesAreAlone'
    BY <1>7 DEF DeskInv, RemovesAreAlone
  <1>10. MadeIsFound'
    <2>1. ASSUME NEW o \in portal' \ reported, NEW r \in Runs, maker[o] = r
          PROVE  /\ \A h \in Handlers : /\ Builder(h, r)' => o \in op'[h].named
                                        /\ Remover(h, r)' => o \in DOMAIN op'[h].objs
                 /\ (\A h \in Handlers : ~Builder(h, r)') =>
                      \/ o \in DOMAIN rec[r].objs
                      \/ Unlisted(rec[r]) /\ Quiet(r)'
      <3>1. /\ \A h \in Handlers : /\ Builder(h, r) => o \in op[h].named
                                   /\ Remover(h, r) => o \in DOMAIN op[h].objs
            /\ (\A h \in Handlers : ~Builder(h, r)) =>
                 \/ o \in DOMAIN rec[r].objs
                 \/ Unlisted(rec[r]) /\ Quiet(r)
        BY <1>1, <2>1 DEF DeskInv, MadeIsFound
      <3>2. ASSUME NEW h \in Handlers, Builder(h, r)' PROVE o \in op'[h].named
        BY <1>7, <2>1, <3>1, <3>2 DEF MovesOn, Builder
      <3>3. ASSUME NEW h \in Handlers, Remover(h, r)' PROVE o \in DOMAIN op'[h].objs
        BY <1>7, <3>1, <3>3 DEF MovesOn, Remover
      <3>4. ASSUME Unlisted(rec[r]), Quiet(r) PROVE Quiet(r)'
        <4>1. ASSUME NEW h \in Handlers, op'[h].run = r PROVE op[h].run = r
          <5>1. r # NoRun /\ DOMAIN rec[r].objs = {}
            BY <3>4, EmptyList, DeskAssumption DEF Unlisted
          <5> QED
            BY <4>1, <5>1, RequestOf, Types DEF MovesOn, Steps
        <4> QED
          BY <3>4, <4>1 DEF Quiet
      <3> QED
        BY <1>7, <3>1, <3>2, <3>3, <3>4
    <2>2. \A o \in portal' : maker[o] # Nobody /\ (maker[o] \in Runs => rec[maker[o]] # NoRun)
      BY <1>1 DEF DeskInv, MadeIsFound
    <2>3. /\ portal' \ reported' = portal' \ reported /\ maker' = maker /\ rec' = rec
      OBVIOUS
    <2> QED
      BY <2>1, <2>2, <2>3 DEF MadeIsFound
  <1>11. NetworksHold'
    <2>1. ASSUME NEW a \in Addrs \cap portal', inside[a] \in Nets PROVE inside[a] \in portal'
      <3>1. inside[a] \in portal
        BY <1>1, <2>1 DEF DeskInv, NetworksHold
      <3>2. ASSUME inside[a] \in Taken(S) PROVE FALSE
        <4>1. inside[a] \in S
          BY <2>1, <3>2, DeskAssumption DEF Taken, Within
        <4>2. a \in Taken(S)
          BY <2>1, <4>1 DEF Taken, Within
        <4> QED
          BY <4>2
      <3> QED
        BY <3>1, <3>2
    <2>2. ASSUME NEW h \in Handlers, NEW a \in Addrs \cap portal',
                 op'[h].cleared # NoNet, inside[a] = op'[h].cleared
          PROVE  a \in late
      BY <1>1, <2>2 DEF DeskInv, NetworksHold, MovesOn
    <2>3. swept' \subseteq late
      BY DEF DeskInv, NetworksHold
    <2> QED
      BY <2>1, <2>2, <2>3 DEF NetworksHold
  <1>12. BusyHasAWorker'
    <2>1. BusyRuns' = BusyRuns
      BY DEF BusyRuns
    <2>2. ASSUME NEW r \in BusyRuns \ unsaved
          PROVE  \/ \E h \in Handlers : Builder(h, r)' \/ Remover(h, r)'
                 \/ srv[r] \in {"starting", "noting"}
      BY <1>7, <2>2 DEF DeskInv, BusyHasAWorker, BusyRuns
    <2> QED
      BY <2>1, <2>2 DEF BusyHasAWorker
  <1> QED
    BY <1>3, <1>4, <1>5, <1>6, <1>8, <1>9, <1>10, <1>11, <1>12 DEF DeskInv

(* One object of a Remove's list is done, or could not be.                 *)
LEMMA TriedMovesOn ==
    ASSUME DeskInv, NEW h \in Handlers, op[h].step = "remove", NEW x \in Pending(h),
           NEW s \in {"failed", "gone", "removed"}, portal' \subseteq portal,
           s # "failed" => x \notin portal' /\ (x \in Runs => demo[x] = "removed")
    PROVE  Tried(op[h], x, s) \in Ops /\ MovesOn(op[h], Tried(op[h], x, s))
  <1> DEFINE q == op[h]
             o == Tried(q, x, s)
  <1>1. q \in Ops /\ x \in DOMAIN q.objs /\ s \in ObjectStates
    BY Types DEF Pending, ObjectStates
  <1>2. /\ q.run \in Runs /\ rec[q.run] # NoRun
        /\ \A y \in q.tried : y \in DOMAIN q.objs /\ q.objs[y] # "created"
        /\ \A y \in q.named : maker[y] # Nobody
        /\ HonestOf(portal, q.objs, q.run)
    BY DEF DeskInv, RequestsFit, RequestFits, Honest
  <1> HIDE DEF q
  <1>3. /\ o \in Ops /\ o.step = "remove" /\ o.run = q.run /\ o.named = q.named
        /\ o.tried = q.tried \cup {x} /\ o.cleared = NoNet
        /\ DOMAIN o.objs = DOMAIN q.objs /\ o.objs[x] = s
        /\ \A p \in DOMAIN q.objs \ {x} : o.objs[p] = q.objs[p]
    BY <1>1, TriedOf
  <1> HIDE DEF o
  <1>4. HonestOf(portal', o.objs, o.run)
    BY <1>2, <1>3 DEF HonestOf
  <1>5. \A y \in o.tried : y \in DOMAIN o.objs /\ o.objs[y] # "created"
    BY <1>1, <1>2, <1>3
  <1>6. MovesOn(q, o)
    BY <1>2, <1>3, <1>4, <1>5 DEF MovesOn, q
  <1> QED
    BY <1>3, <1>6 DEF q, o

\* A request that stops without having made or removed anything more.
LEMMA IdleMovesOn ==
    ASSUME NEW q, q.step \notin {"build", "record", "remove", "teardown"}
    PROVE  MovesOn(q, Idle)
  BY IdleOf DEF MovesOn, HonestOf

LEMMA BuildOkKeeps == DeskInv /\ (\E h \in Handlers : BuildOk(h)) => DeskInv'
  <1> SUFFICES ASSUME DeskInv, NEW h \in Handlers, BuildOk(h) PROVE DeskInv'
    OBVIOUS
  <1> DEFINE q == op[h]
             o == [q EXCEPT !.step = "record", !.ok = TRUE]
  <1>1. q.step = "build" /\ Goto(h, o) /\ UNCHANGED <<rec, infoblox, srv, demo, lock, history>>
    BY DEF BuildOk
  <1>2. q \in Ops /\ RequestFits(h)
    BY Types DEF DeskInv, RequestsFit
  <1> HIDE DEF q
  <1>3. /\ o \in Ops /\ o.step = "record" /\ o.run = q.run /\ o.named = q.named
        /\ o.objs = q.objs /\ o.tried = q.tried /\ o.cleared = q.cleared
    BY <1>2 DEF Ops, Steps
  <1> HIDE DEF o
  <1>4. MovesOn(q, o)
    BY <1>1, <1>2, <1>3 DEF MovesOn, RequestFits, Honest, HonestOf, infoblox, q
  <1>5. /\ op' \in [Handlers -> Ops]
        /\ \A g \in Handlers : op'[g] = op[g] \/ MovesOn(op[g], op'[g])
    BY <1>1, <1>3, <1>4, OneMoves DEF q
  <1>6. portal' = portal \ Taken({}) /\ swept' = swept \cup {}
    BY <1>1 DEF infoblox, history, Taken
  <1> QED
    BY <1>1, <1>5, <1>6, MovesKeep DEF infoblox, history

LEMMA BuildFailsKeeps == DeskInv /\ (\E h \in Handlers : BuildFails(h)) => DeskInv'
  <1> SUFFICES ASSUME DeskInv, NEW h \in Handlers, BuildFails(h) PROVE DeskInv'
    OBVIOUS
  <1> DEFINE q == op[h]
  <1>1. PICK back \in SUBSET q.named :
          /\ q.step = "build" /\ portal' = portal \ Taken(back)
          /\ Goto(h, [q EXCEPT !.step = "record", !.named = q.named \ back])
          /\ UNCHANGED <<rec, inside, maker, srv, demo, lock, history>>
    BY DEF BuildFails
  <1> DEFINE n == q.named \ back
             o == [q EXCEPT !.step = "record", !.named = n]
  <1>2. q \in Ops /\ RequestFits(h) /\ n \in SUBSET Things /\ back \in SUBSET Things
    BY <1>1, Types, RequestOf DEF DeskInv, RequestsFit
  <1>3. q.named \cap portal' \subseteq n
    BY <1>1 DEF Taken
  <1> HIDE DEF q, n
  <1>4. /\ o \in Ops /\ o.step = "record" /\ o.run = q.run /\ o.named = n
        /\ o.objs = q.objs /\ o.tried = q.tried /\ o.cleared = q.cleared
    BY <1>2 DEF Ops, Steps
  <1>5. Goto(h, o)
    BY <1>1 DEF n
  <1> HIDE DEF o
  <1>6. portal' \subseteq portal /\ n \subseteq q.named
    BY <1>1 DEF n
  <1>7. MovesOn(q, o)
    BY <1>1, <1>2, <1>3, <1>4, <1>6 DEF MovesOn, RequestFits, Honest, HonestOf, q
  <1>8. /\ op' \in [Handlers -> Ops]
        /\ \A g \in Handlers : op'[g] = op[g] \/ MovesOn(op[g], op'[g])
    BY <1>4, <1>5, <1>7, OneMoves DEF q
  <1>9. /\ swept' = swept \cup {} /\ {} \in SUBSET late
        /\ UNCHANGED <<rec, inside, maker, srv, demo, lock, unsaved, reported, late>>
    BY <1>1 DEF history
  <1> QED
    BY <1>1, <1>2, <1>8, <1>9, MovesKeep

LEMMA PersonDeletesKeeps == DeskInv /\ (\E o \in Things : PersonDeletes(o)) => DeskInv'
  <1> SUFFICES ASSUME DeskInv, NEW o \in Things, PersonDeletes(o) PROVE DeskInv'
    OBVIOUS
  <1>1. /\ portal' = portal \ Taken({o}) /\ swept' = swept \cup {}
        /\ UNCHANGED <<rec, inside, maker, op, srv, demo, lock, unsaved, reported, late>>
    BY DEF PersonDeletes, history
  <1>2. {o} \in SUBSET Things /\ {} \in SUBSET late
    OBVIOUS
  <1>3. /\ op' \in [Handlers -> Ops]
        /\ \A g \in Handlers : op'[g] = op[g] \/ MovesOn(op[g], op'[g])
    BY <1>1, Types
  <1> QED
    BY <1>1, <1>2, <1>3, MovesKeep

(* A request moves on alone.                                               *)
LEMMA OneMoveKeeps ==
    ASSUME DeskInv, NEW h \in Handlers, NEW o \in Ops, Goto(h, o), MovesOn(op[h], o),
           NEW S \in SUBSET Things, NEW T \in SUBSET late,
           portal' = portal \ Taken(S), swept' = swept \cup T,
           UNCHANGED <<rec, inside, maker, srv, demo, lock, unsaved, reported, late>>
    PROVE  DeskInv'
  <1>1. /\ op' \in [Handlers -> Ops]
        /\ \A g \in Handlers : op'[g] = op[g] \/ MovesOn(op[g], op'[g])
    BY OneMoves
  <1> QED
    BY <1>1, MovesKeep

LEMMA QuietMoveKeeps ==
    ASSUME DeskInv, NEW h \in Handlers, NEW o \in Ops, Goto(h, o), MovesOn(op[h], o),
           UNCHANGED <<rec, infoblox, srv, demo, lock, history>>
    PROVE  DeskInv'
  <1>1. /\ portal' = portal \ Taken({}) /\ swept' = swept \cup {}
        /\ {} \in SUBSET Things /\ {} \in SUBSET late
        /\ UNCHANGED <<rec, inside, maker, srv, demo, lock, unsaved, reported, late>>
    BY DEF infoblox, history, Taken
  <1> QED
    BY <1>1, OneMoveKeeps

LEMMA AskRemoveKeeps ==
    DeskInv /\ (\E h \in Handlers, r \in Runs : AskRemove(h, r)) => DeskInv'
  <1> SUFFICES ASSUME DeskInv, NEW h \in Handlers, NEW r \in Runs, AskRemove(h, r) PROVE DeskInv'
    OBVIOUS
  <1> DEFINE o == [Idle EXCEPT !.step = "asked", !.run = r]
  <1>1. /\ op[h].step = "idle" /\ rec[r] # NoRun
        /\ rec[r].status \notin Busy /\ DOMAIN rec[r].objs # {}
        /\ Goto(h, o) /\ UNCHANGED <<rec, infoblox, srv, demo, lock, history>>
    BY DEF AskRemove
  <1>2. /\ o \in Ops /\ o.step = "asked" /\ o.run = r /\ o.named = {}
        /\ DOMAIN o.objs = {} /\ o.tried = {} /\ o.cleared = NoNet
    BY IdleOf DEF Ops, Steps
  <1> HIDE DEF o
  <1>3. MovesOn(op[h], o)
    BY <1>1, <1>2 DEF MovesOn, HonestOf
  <1> QED
    BY <1>1, <1>2, <1>3, QuietMoveKeeps

LEMMA CheckNetKeeps ==
    DeskInv /\ (\E h \in Handlers, n \in Nets : CheckNet(h, n)) => DeskInv'
  <1> SUFFICES ASSUME DeskInv, NEW h \in Handlers, NEW n \in Nets, CheckNet(h, n) PROVE DeskInv'
    OBVIOUS
  <1> DEFINE q == op[h]
             o == [q EXCEPT !.cleared = n]
  <1>1. /\ q.step = "remove" /\ n \in Pending(h)
        /\ \/ (n \in portal => Within(n) \cap portal = {}) /\ Goto(h, o)
           \/ Goto(h, Tried(q, n, "failed"))
        /\ UNCHANGED <<rec, infoblox, srv, demo, lock, history>>
    BY DEF CheckNet, Turn, Outcome
  <1>2. q \in Ops /\ RequestFits(h)
    BY Types DEF DeskInv, RequestsFit
  <1>3. CASE (n \in portal => Within(n) \cap portal = {}) /\ Goto(h, o)
    <2>1. \A a \in Addrs \cap portal : inside[a] # n
      BY <1>3 DEF DeskInv, NetworksHold, Within
    <2> HIDE DEF q
    <2>2. /\ o \in Ops /\ o.step = q.step /\ o.run = q.run /\ o.named = q.named
          /\ o.objs = q.objs /\ o.tried = q.tried /\ o.cleared = n
      BY <1>2 DEF Ops
    <2> HIDE DEF o
    <2>3. MovesOn(q, o)
      BY <1>1, <1>2, <2>1, <2>2 DEF MovesOn, RequestFits, Honest, HonestOf, infoblox, q
    <2> QED
      BY <1>1, <1>3, <2>2, <2>3, QuietMoveKeeps DEF q
  <1>4. CASE Goto(h, Tried(q, n, "failed"))
    <2>1. portal' \subseteq portal
      BY <1>1 DEF infoblox
    <2> QED
      BY <1>1, <1>4, <2>1, TriedMovesOn, QuietMoveKeeps
  <1> QED
    BY <1>1, <1>3, <1>4

LEMMA DeleteKeeps ==
    ASSUME DeskInv, NEW h \in Handlers, NEW o \in Things, op[h].step = "remove",
           o \in Pending(h), o \in Nets => op[h].cleared = o, Delete(h, o)
    PROVE  DeskInv'
  <1> DEFINE S == IF portal' = portal THEN {} ELSE {o}
             T == (portal \ portal') \ {o}
  <1>1. /\ portal' \in {portal, portal \ Taken({o})}
        /\ \E s \in {"failed", "gone", "removed"} :
              Goto(h, Tried(op[h], o, s)) /\ (s # "failed" => o \notin portal')
        /\ swept' = swept \cup T
        /\ UNCHANGED <<rec, inside, maker, srv, demo, lock, unsaved, reported, late>>
    BY DEF Delete, Outcome, Taken
  <1>2. portal' = portal \ Taken(S) /\ S \in SUBSET Things /\ portal' \subseteq portal
    BY <1>1 DEF Taken
  <1>3. T \subseteq late
    <2> SUFFICES ASSUME NEW x \in portal, x \notin portal', x # o PROVE x \in late
      OBVIOUS
    <2>1. o \in Nets /\ x \in Within(o)
      BY <1>1 DEF Taken
    <2> QED
      BY <2>1, DeskAssumption DEF DeskInv, NetworksHold, Within
  <1>4. PICK s \in {"failed", "gone", "removed"} :
            Goto(h, Tried(op[h], o, s)) /\ (s # "failed" => o \notin portal')
    BY <1>1
  <1>5. o \notin Runs
    BY ThingsAndRuns
  <1>6. Tried(op[h], o, s) \in Ops /\ MovesOn(op[h], Tried(op[h], o, s))
    BY <1>2, <1>4, <1>5, TriedMovesOn
  <1> HIDE DEF S, T
  <1> QED
    BY <1>1, <1>2, <1>3, <1>4, <1>6, OneMoveKeeps

LEMMA RemoveThingKeeps ==
    ASSUME DeskInv, NEW h \in Handlers,
           (\E a \in Addrs : RemoveAddr(h, a)) \/ (\E n \in Nets : RemoveNet(h, n))
    PROVE  DeskInv'
  <1>1. ASSUME NEW a \in Addrs, RemoveAddr(h, a) PROVE DeskInv'
    BY <1>1, DeleteKeeps, DeskAssumption DEF RemoveAddr, Turn, Things
  <1>2. ASSUME NEW n \in Nets, RemoveNet(h, n) PROVE DeskInv'
    BY <1>2, DeleteKeeps DEF RemoveNet, Turn, Things
  <1> QED
    BY <1>1, <1>2

-----------------------------------------------------------------------------
(* One entry of the ledger changes, or the save is lost.                   *)
LEMMA OneSaved ==
    ASSUME DeskInv, NEW r \in Runs, NEW x \in Records, Saves(r, x)
    PROVE  /\ rec' \in [Runs -> Records \cup {NoRun}] /\ rec'[r] = x /\ rec'[r] # NoRun
           /\ \A s \in Runs : s # r => rec'[s] = rec[s]
           /\ unsaved' = unsaved \ {r}
  BY Types, RecordOf DEF Saves

\* A new request stands alone on a run that the ledger did not know.
LEMMA DeskRunKeeps ==
    DeskInv /\ (\E h \in Handlers, r \in Runs, job \in Jobs : DeskRun(h, r, job)) => DeskInv'
  <1> SUFFICES ASSUME DeskInv, NEW h \in Handlers, NEW r \in Runs, NEW job \in Jobs,
                      DeskRun(h, r, job)
               PROVE  DeskInv'
    OBVIOUS
  <1> DEFINE o == [Idle EXCEPT !.step = "build", !.run = r]
             x == [status |-> "building", job |-> job, byHand |-> FALSE, objs |-> <<>>]
  <1>1. /\ op[h].step = "idle" /\ rec[r] = NoRun /\ rec' = [rec EXCEPT ![r] = x]
        /\ Goto(h, o) /\ UNCHANGED <<portal, inside, maker, srv, demo, lock, unsaved,
                                     reported, late, swept>>
    BY DEF DeskRun, infoblox, history
  <1>2. /\ o \in Ops /\ o.step = "build" /\ o.run = r /\ o.named = {}
        /\ DOMAIN o.objs = {} /\ o.tried = {} /\ o.cleared = NoNet
    BY IdleOf DEF Ops, Steps
  <1>3. /\ x \in Records /\ x # NoRun /\ x.status = "building" /\ x.objs = <<>>
        /\ DOMAIN x.objs = {}
    <2>1. x \in Records
      BY EmptyList DEF Records, ObjMaps, Statuses
    <2> QED
      BY <2>1, EmptyList, RecordOf
  <1> HIDE DEF o, x
  <1>4. /\ op' \in [Handlers -> Ops] /\ op'[h] = o /\ \A g \in Handlers : g # h => op'[g] = op[g]
    BY <1>1, <1>2, OneMoves
  <1>5. /\ rec' \in [Runs -> Records \cup {NoRun}] /\ rec'[r] = x
        /\ \A s \in Runs : s # r => rec'[s] = rec[s]
    BY <1>1, <1>3, Types
  <1>6. /\ srv[r] = "idle" /\ demo[r] = "none"
        /\ \A g \in Handlers : op[g].run # r
        /\ op[h].run = NoRun /\ NoRun # r
    <2>1. \A g \in Handlers : RequestFits(g)
      BY DEF DeskInv, RequestsFit
    <2> QED
      BY <1>1, <2>1, DeskAssumption DEF DeskInv, BuildsAreAlone, RequestFits
  <1>7. DeskTypeOK'
    <2>1. op[h].step # "teardown" /\ o.step # "teardown"
      BY <1>1, <1>2
    <2>2. \A g \in Handlers : op'[g].step = "teardown" <=> op[g].step = "teardown"
      BY <1>4, <2>1
    <2> QED
      BY <1>1, <1>4, <1>5, <2>2, Types DEF DeskTypeOK
  <1>8. LockIsExclusive'
    BY <1>1, <1>2, <1>4 DEF DeskInv, LockIsExclusive
  <1>9. RequestsFit'
    <2> SUFFICES ASSUME NEW g \in Handlers PROVE RequestFits(g)'
      BY DEF RequestsFit
    <2>1. CASE g = h
      BY <1>2, <1>3, <1>4, <1>5, <2>1 DEF RequestFits, Honest, HonestOf
    <2>2. CASE g # h
      <3>1. RequestFits(g) /\ op'[g] = op[g]
        BY <1>4, <2>2 DEF DeskInv, RequestsFit
      <3> QED
        BY <1>1, <1>3, <1>5, <1>6, <3>1 DEF RequestFits, Honest, HonestOf, Pending
    <2> QED
      BY <2>1, <2>2
  <1>10. RecordsFit'
    BY <1>1, <1>3, <1>5 DEF DeskInv, RecordsFit, Honest, HonestOf
  <1>11. BuildsAreAlone'
    BY <1>1, <1>2, <1>3, <1>4, <1>5, <1>6 DEF DeskInv, BuildsAreAlone, Builder
  <1>12. RemovesAreAlone'
    BY <1>1, <1>2, <1>4, <1>5, <1>6 DEF DeskInv, RemovesAreAlone, Remover
  <1>13. MadeIsFound'
    <2>1. \A y \in portal : maker[y] # r
      BY <1>1 DEF DeskInv, MadeIsFound
    <2>2. \A y \in portal : maker[y] # Nobody /\ (maker[y] \in Runs => rec'[maker[y]] # NoRun)
      BY <1>1, <1>3, <1>5 DEF DeskInv, MadeIsFound
    <2>3. ASSUME NEW y \in portal \ reported, NEW s \in Runs, maker[y] = s
          PROVE  /\ \A g \in Handlers : /\ Builder(g, s)' => y \in op'[g].named
                                        /\ Remover(g, s)' => y \in DOMAIN op'[g].objs
                 /\ (\A g \in Handlers : ~Builder(g, s)') =>
                      \/ y \in DOMAIN rec'[s].objs
                      \/ Unlisted(rec'[s]) /\ Quiet(s)'
      <3>1. s # r /\ rec'[s] = rec[s]
        BY <1>5, <2>1, <2>3
      <3>2. \A g \in Handlers : op'[g].run = s => op'[g] = op[g]
        BY <1>2, <1>4, <3>1
      <3>3. \A g \in Handlers : op[g].run = s => op'[g] = op[g]
        BY <1>4, <1>6, <2>3, DeskAssumption
      <3> QED
        BY <1>1, <2>3, <3>1, <3>2, <3>3 DEF DeskInv, MadeIsFound, Builder, Remover, Quiet
    <2> QED
      BY <1>1, <2>2, <2>3 DEF MadeIsFound
  <1>14. NetworksHold'
    BY <1>1, <1>2, <1>4 DEF DeskInv, NetworksHold
  <1>15. BusyHasAWorker'
    <2> SUFFICES ASSUME NEW s \in Runs, rec'[s] # NoRun, rec'[s].status \in Busy, s \notin unsaved
                 PROVE  \/ \E g \in Handlers : Builder(g, s)' \/ Remover(g, s)'
                        \/ srv[s] \in {"starting", "noting"}
      BY <1>1 DEF BusyHasAWorker, BusyRuns
    <2>1. CASE s = r
      BY <1>2, <1>4, <2>1 DEF Builder
    <2>2. CASE s # r
      <3>1. \/ \E g \in Handlers : Builder(g, s) \/ Remover(g, s)
            \/ srv[s] \in {"starting", "noting"}
        BY <1>5, <2>2 DEF DeskInv, BusyHasAWorker, BusyRuns
      <3>2. \A g \in Handlers : op[g].run = s => op'[g] = op[g]
        BY <1>4, <1>6, DeskAssumption
      <3> QED
        BY <3>1, <3>2 DEF Builder, Remover
    <2> QED
      BY <2>1, <2>2
  <1> QED
    BY <1>7, <1>8, <1>9, <1>10, <1>11, <1>12, <1>13, <1>14, <1>15 DEF DeskInv

(* A request writes its run's entry, or tries to, and goes on or ends; x   *)
(* is what the entry then holds.                                           *)
LedgerMove(h, r, o, x) ==
    /\ op[h].run = r /\ op[h].step \in {"record", "serve", "asked", "remove"} /\ Goto(h, o)
    /\ rec' \in [Runs -> Records \cup {NoRun}] /\ rec'[r] = x
    /\ \A s \in Runs : s # r => rec'[s] = rec[s]
    /\ x.job = rec[r].job
    /\ HonestOf(portal, x.objs, r) /\ HonestOf(portal, o.objs, o.run)
    /\ x.status = "removed" => \A y \in DOMAIN x.objs : x.objs[y] \notin Left
    /\ o.step \in {"idle", "serve", "remove"}
    /\ o.run = IF o.step = "idle" THEN NoRun ELSE r
    /\ o.cleared = NoNet /\ o.tried = {} /\ \A y \in o.named : maker[y] # Nobody
    /\ o.step = "serve" => op[h].step = "record" /\ x.job = "kit"
    /\ o.step = "remove" =>
         op[h].step = "asked" /\ rec[r].status \notin Busy /\ x.status = "removing"
    /\ op[h].step = "asked" => x.status = rec[r].status \/ rec[r].status \notin Busy
    /\ srv' \in [Runs -> {"idle", "starting", "noting", "working"}]
    /\ \A s \in Runs : s # r => srv'[s] = srv[s]
    /\ srv'[r] = srv[r] \/ (srv'[r] = "starting" /\ op[h].step = "serve")
    /\ unsaved' \subseteq Runs /\ unsaved' \ {r} = unsaved \ {r}
    /\ x.status \in Busy /\ r \notin unsaved' => o.step = "remove" \/ srv'[r] = "starting"
    /\ reported \subseteq reported' /\ reported' \subseteq Things
    /\ \A y \in portal \ reported' : maker[y] = r =>
         y \in DOMAIN x.objs /\ (o.step = "remove" => y \in DOMAIN o.objs)
    /\ UNCHANGED <<infoblox, demo, lock, late, swept>>

LEMMA LedgerMoveKeeps ==
    ASSUME DeskInv, NEW h \in Handlers, NEW r \in Runs, NEW o \in Ops, NEW x \in Records,
           LedgerMove(h, r, o, x)
    PROVE  DeskInv'
  <1> USE DEF LedgerMove
  <1>1. /\ op' \in [Handlers -> Ops] /\ op'[h] = o /\ \A g \in Handlers : g # h => op'[g] = op[g]
    BY OneMoves
  <1>2. UNCHANGED <<portal, inside, maker, demo, lock, late, swept>>
    BY DEF infoblox
  <1>3. r # NoRun /\ x # NoRun /\ rec[r] # NoRun
    <2>1. RequestFits(h)
      BY DEF DeskInv, RequestsFit
    <2> QED
      BY <2>1, RecordOf, DeskAssumption DEF RequestFits
  <1>4. /\ \A g \in Handlers : Builder(g, r) => g = h
        /\ \A g \in Handlers : ~Builder(g, r)'
        /\ \A g \in Handlers, s \in Runs \ {r} : (Builder(g, s)' <=> Builder(g, s))
                                                /\ (Remover(g, s)' <=> Remover(g, s))
    <2>1. \A g \in Handlers : Builder(g, r) => g = h
      BY DEF DeskInv, BuildsAreAlone
    <2> QED
      BY <1>1, <1>3, <2>1, DeskAssumption DEF Builder, Remover
  <1>5. op[h].step # "teardown" /\ o.step # "teardown"
    OBVIOUS
  <1>6. \A s \in Runs : srv'[s] = "working" <=> srv[s] = "working"
    <2>1. op[h].step = "serve" => srv[r] = "idle"
      BY DEF DeskInv, BuildsAreAlone
    <2> QED
      BY <2>1
  <1>7. DeskTypeOK'
    <2>1. \A g \in Handlers : op'[g].step = "teardown" <=> op[g].step = "teardown"
      BY <1>1, <1>5
    <2> QED
      BY <1>1, <1>2, <1>6, <2>1, Types DEF DeskTypeOK
  <1>8. LockIsExclusive'
    BY <1>1, <1>5, <1>6 DEF DeskInv, LockIsExclusive
  <1>9. RequestsFit'
    <2> SUFFICES ASSUME NEW g \in Handlers PROVE RequestFits(g)'
      BY DEF RequestsFit
    <2>1. CASE g = h
      BY <1>1, <1>2, <1>3, <1>5, <2>1, IdleOf DEF RequestFits, Honest, HonestOf
    <2>2. CASE g # h
      <3>1. RequestFits(g) /\ op'[g] = op[g]
        BY <1>1, <2>2 DEF DeskInv, RequestsFit
      <3>2. \A s \in Runs : rec[s] # NoRun => rec'[s] # NoRun
        BY <1>3
      <3> QED
        BY <1>2, <3>1, <3>2 DEF RequestFits, Honest, HonestOf, Pending
    <2> QED
      BY <2>1, <2>2
  <1>10. RecordsFit'
    BY <1>2 DEF DeskInv, RecordsFit, Honest, HonestOf
  <1>11. BuildsAreAlone'
    <2>1. ASSUME NEW g \in Handlers, NEW s \in Runs, Builder(g, s)'
          PROVE  /\ rec'[s].status = "building" /\ rec'[s].objs = <<>>
                 /\ srv'[s] = "idle" /\ demo[s] = "none"
                 /\ \A f \in Handlers : op'[f].run = s => f = g
      <3>1. s # r /\ Builder(g, s)
        BY <1>4, <2>1
      <3> QED
        BY <1>1, <1>3, <3>1, DeskAssumption DEF DeskInv, BuildsAreAlone
    <2>2. ASSUME NEW g \in Handlers, NEW s \in Runs, op'[g].run = s, op'[g].step = "serve"
          PROVE  /\ rec'[s].job = "kit" /\ srv'[s] = "idle" /\ demo[s] = "none"
                 /\ \A f \in Handlers : op'[f].run = s /\ op'[f].step = "serve" => f = g
      <3>1. CASE g = h
        <4>1. s = r /\ Builder(h, r) /\ o.step = "serve"
          BY <1>1, <1>3, <2>2, <3>1 DEF Builder
        <4> QED
          BY <1>1, <3>1, <4>1 DEF DeskInv, BuildsAreAlone
      <3>2. CASE g # h
        <4>1. op[g].run = s /\ op[g].step = "serve"
          BY <1>1, <2>2, <3>2
        <4>2. s = r => op[h].step \notin {"record", "serve"}
          BY <3>2, <4>1 DEF DeskInv, BuildsAreAlone, Builder
        <4> QED
          BY <1>1, <3>2, <4>1, <4>2 DEF DeskInv, BuildsAreAlone
      <3> QED
        BY <3>1, <3>2
    <2>3. ASSUME NEW s \in Runs
          PROVE  /\ srv'[s] # "idle" => rec'[s] # NoRun /\ rec'[s].job = "kit"
                 /\ srv'[s] = "starting" => demo[s] = "none"
                 /\ srv'[s] = "working" => demo[s] = "building"
                 /\ rec'[s] = NoRun => demo[s] = "none"
      BY <1>3 DEF DeskInv, BuildsAreAlone
    <2> QED
      BY <1>2, <2>1, <2>2, <2>3 DEF BuildsAreAlone
  <1>12. RemovesAreAlone'
    <2> SUFFICES ASSUME NEW g \in Handlers, NEW s \in Runs, Remover(g, s)', rec'[s].job # "kit"
                 PROVE  /\ rec'[s].status = "removing"
                        /\ \A f \in Handlers : Remover(f, s)' => f = g
      BY DEF RemovesAreAlone
    <2>1. CASE s # r
      BY <1>1, <1>3, <1>4, <2>1 DEF DeskInv, RemovesAreAlone
    <2>2. CASE s = r /\ o.step = "remove"
      <3>1. \A f \in Handlers : f # h => ~Remover(f, r)'
        BY <1>1, <2>2 DEF DeskInv, RemovesAreAlone, Remover, Busy
      <3> QED
        BY <1>1, <2>2, <3>1
    <2>3. CASE s = r /\ o.step # "remove"
      <3>1. g # h /\ Remover(g, r)
        BY <1>1, <2>3 DEF Remover
      <3>2. rec[r].status = "removing" /\ \A f \in Handlers : Remover(f, r) => f = g
        BY <2>3, <3>1 DEF DeskInv, RemovesAreAlone
      <3>3. op[h].step = "asked"
        BY <2>3, <3>1, <3>2 DEF DeskInv, BuildsAreAlone, Builder, Remover
      <3> QED
        BY <1>1, <2>3, <3>2, <3>3 DEF Remover, Busy
    <2> QED
      BY <2>1, <2>2, <2>3
  <1>13. MadeIsFound'
    <2>1. \A y \in portal : maker[y] # Nobody /\ (maker[y] \in Runs => rec'[maker[y]] # NoRun)
      BY <1>3 DEF DeskInv, MadeIsFound
    <2>2. ASSUME NEW y \in portal \ reported', NEW s \in Runs, maker[y] = s
          PROVE  /\ \A g \in Handlers : /\ Builder(g, s)' => y \in op'[g].named
                                        /\ Remover(g, s)' => y \in DOMAIN op'[g].objs
                 /\ (\A g \in Handlers : ~Builder(g, s)') =>
                      \/ y \in DOMAIN rec'[s].objs
                      \/ Unlisted(rec'[s]) /\ Quiet(s)'
      <3>1. /\ \A g \in Handlers : /\ Builder(g, s) => y \in op[g].named
                                   /\ Remover(g, s) => y \in DOMAIN op[g].objs
            /\ (\A g \in Handlers : ~Builder(g, s)) =>
                 \/ y \in DOMAIN rec[s].objs
                 \/ Unlisted(rec[s]) /\ Quiet(s)
        BY <2>2 DEF DeskInv, MadeIsFound
      <3>2. CASE s = r
        <4>1. y \in DOMAIN rec'[s].objs /\ (o.step = "remove" => y \in DOMAIN o.objs)
          BY <2>2, <3>2
        <4> QED
          BY <1>1, <1>4, <3>1, <3>2, <4>1 DEF Remover
      <3>3. CASE s # r
        <4>1. \A g \in Handlers : op'[g].run = s <=> op[g].run = s
          BY <1>1, <1>3, <3>3, DeskAssumption
        <4>2. \A g \in Handlers : op'[g].run = s => op'[g] = op[g]
          BY <1>1, <3>3, <4>1
        <4> QED
          BY <3>1, <3>3, <4>1, <4>2 DEF Builder, Remover, Quiet
      <3> QED
        BY <3>2, <3>3
    <2> QED
      BY <1>2, <2>1, <2>2 DEF MadeIsFound
  <1>14. NetworksHold'
    BY <1>1, <1>2 DEF DeskInv, NetworksHold
  <1>15. BusyHasAWorker'
    <2> SUFFICES ASSUME NEW s \in Runs, rec'[s] # NoRun, rec'[s].status \in Busy, s \notin unsaved'
                 PROVE  \/ \E g \in Handlers : Builder(g, s)' \/ Remover(g, s)'
                        \/ srv'[s] \in {"starting", "noting"}
      BY DEF BusyHasAWorker, BusyRuns
    <2>1. CASE s = r
      <3>1. o.step = "remove" \/ srv'[r] = "starting"
        BY <2>1
      <3> QED
        BY <1>1, <2>1, <3>1 DEF Remover
    <2>2. CASE s # r
      <3>1. \/ \E g \in Handlers : Builder(g, s) \/ Remover(g, s)
            \/ srv[s] \in {"starting", "noting"}
        BY <2>2 DEF DeskInv, BusyHasAWorker, BusyRuns
      <3> QED
        BY <1>4, <2>2, <3>1
    <2> QED
      BY <2>1, <2>2
  <1> QED
    BY <1>7, <1>8, <1>9, <1>10, <1>11, <1>12, <1>13, <1>14, <1>15 DEF DeskInv

\* What a request that is not idle may rely on.
LEMMA AtWork ==
    ASSUME DeskInv, NEW h \in Handlers, op[h].step # "idle"
    PROVE  /\ op[h] \in Ops /\ op[h].run \in Runs /\ rec[op[h].run] \in Records
           /\ Honest(op[h].objs, op[h].run) /\ Honest(rec[op[h].run].objs, op[h].run)
           /\ \A y \in op[h].tried : y \in DOMAIN op[h].objs /\ op[h].objs[y] # "created"
           /\ \A y \in op[h].named : maker[y] # Nobody
           /\ op[h].cleared # NoNet => op[h].step \in {"remove", "teardown"}
           /\ op[h].step = "asked" => op[h].tried = {}
           /\ rec[op[h].run].status = "removed" =>
                \A y \in DOMAIN rec[op[h].run].objs : rec[op[h].run].objs[y] \notin Left
  BY Types DEF DeskInv, RequestsFit, RequestFits, RecordsFit

\* What exists of a run that somebody works on is in the list they go by.
LEMMA FoundAtWork ==
    ASSUME DeskInv, NEW h \in Handlers, op[h].step # "idle", NEW y \in portal \ reported,
           maker[y] = op[h].run
    PROVE  /\ op[h].step \in {"build", "record"} => y \in op[h].named
           /\ op[h].step \in {"remove", "teardown"} => y \in DOMAIN op[h].objs
           /\ (\A g \in Handlers : ~Builder(g, op[h].run)) => y \in DOMAIN rec[op[h].run].objs
  BY AtWork DEF DeskInv, MadeIsFound, Builder, Remover, Quiet

LEMMA RecordBuildKeeps == DeskInv /\ (\E h \in Handlers : RecordBuild(h)) => DeskInv'
  <1> SUFFICES ASSUME DeskInv, NEW h \in Handlers, RecordBuild(h) PROVE DeskInv'
    OBVIOUS
  <1> DEFINE q == op[h]
             r == q.run
             s == [Idle EXCEPT !.step = "serve", !.run = r]
             x == Recorded(rec[r], q)
  <1>1. /\ q.step = "record" /\ UNCHANGED <<infoblox, srv, demo, lock, late, swept>>
        /\ \/ /\ Saves(r, x) /\ UNCHANGED reported
              /\ Goto(h, IF q.ok /\ rec[r].job = "kit" THEN s ELSE Idle)
           \/ /\ LosesSave(r) /\ reported' = reported \cup q.named
              /\ Goto(h, Idle)
    BY DEF RecordBuild
  <1>2. /\ q \in Ops /\ r \in Runs /\ rec[r] \in Records
        /\ \A y \in q.named : maker[y] # Nobody
        /\ Honest(rec[r].objs, r)
        /\ rec[r].status = "removed" => \A y \in DOMAIN rec[r].objs : rec[r].objs[y] \notin Left
    BY <1>1, AtWork
  <1>3. q.named \subseteq Things
    BY <1>2, RequestOf
  <1>4. \A y \in portal \ reported : maker[y] = r => y \in q.named
    BY <1>1, FoundAtWork
  <1>5. Builder(h, r)
    BY <1>1 DEF Builder
  <1>6. srv \in [Runs -> {"idle", "starting", "noting", "working"}] /\ unsaved \subseteq Runs
        /\ reported \subseteq Things /\ rec \in [Runs -> Records \cup {NoRun}]
    BY Types
  <1>7. /\ s \in Ops /\ s.step = "serve" /\ s.run = r /\ s.cleared = NoNet /\ s.tried = {}
        /\ s.named = {} /\ s.objs = <<>>
    BY <1>2, IdleOf DEF Ops, Steps
  <1>8. \A z : HonestOf(portal, <<>>, z)
    BY EmptyList DEF HonestOf
  <1> HIDE DEF s
  <1>9. CASE Saves(r, x) /\ UNCHANGED reported /\ Goto(h, IF q.ok /\ rec[r].job = "kit" THEN s ELSE Idle)
    <2> DEFINE o == IF q.ok /\ rec[r].job = "kit" THEN s ELSE Idle
    <2>1. /\ x \in Records /\ x.job = rec[r].job /\ DOMAIN x.objs = q.named
          /\ \A y \in q.named : x.objs[y] = "created"
          /\ x.status \in {"built", "failed"}
      BY <1>2, RecordedOf
    <2>2. HonestOf(portal, x.objs, r)
      BY <1>2, <1>3, <2>1, ThingsAndRuns DEF HonestOf
    <2>3. /\ o \in Ops /\ o.step \in {"idle", "serve"} /\ o.cleared = NoNet /\ o.tried = {}
          /\ o.named = {} /\ o.run = IF o.step = "idle" THEN NoRun ELSE r
          /\ o.objs = <<>> /\ (o.step = "serve" => rec[r].job = "kit")
      BY <1>7, IdleOf
    <2>4. HonestOf(portal, o.objs, o.run)
      BY <1>8, <2>3
    <2> HIDE DEF o, x
    <2>5. Goto(h, o) /\ Saves(r, x) /\ UNCHANGED reported
      BY <1>9 DEF o
    <2>6. /\ rec' \in [Runs -> Records \cup {NoRun}] /\ rec'[r] = x
          /\ \A z \in Runs : z # r => rec'[z] = rec[z]
          /\ unsaved' = unsaved \ {r}
      BY <1>2, <2>1, <2>5, OneSaved
    <2>7. x.status \notin Busy /\ x.status # "removed"
      BY <2>1 DEF Busy
    <2>8. LedgerMove(h, r, o, x)
      BY <1>1, <1>2, <1>4, <1>6, <2>1, <2>2, <2>3, <2>4, <2>5, <2>6, <2>7 DEF LedgerMove
    <2> QED
      BY <1>2, <2>1, <2>8, LedgerMoveKeeps, <2>3
  <1>10. CASE LosesSave(r) /\ reported' = reported \cup q.named /\ Goto(h, Idle)
    <2>1. /\ rec' = rec /\ unsaved' = unsaved \cup {r} /\ Goto(h, Idle)
          /\ reported' = reported \cup q.named
      BY <1>10 DEF LosesSave
    <2>2. HonestOf(portal, Idle.objs, Idle.run) /\ HonestOf(portal, rec[r].objs, r)
      BY <1>2, <1>8, IdleOf DEF Honest
    <2>3. \A y \in portal \ reported' : maker[y] # r
      BY <1>4, <2>1
    <2>4. /\ unsaved' \subseteq Runs /\ unsaved' \ {r} = unsaved \ {r} /\ r \in unsaved'
          /\ reported \subseteq reported' /\ reported' \subseteq Things
      BY <1>2, <1>3, <1>6, <2>1
    <2>5. srv' = srv /\ UNCHANGED <<infoblox, demo, lock, late, swept>>
      BY <1>1
    <2>6. LedgerMove(h, r, Idle, rec[r])
      BY <1>1, <1>2, <1>6, <2>1, <2>2, <2>3, <2>4, <2>5, IdleOf DEF LedgerMove
    <2> QED
      BY <1>2, <2>1, <2>6, LedgerMoveKeeps, IdleOf
  <1> QED
    BY <1>1, <1>9, <1>10

LEMMA StartKitServerKeeps == DeskInv /\ (\E h \in Handlers : StartKitServer(h)) => DeskInv'
  <1> SUFFICES ASSUME DeskInv, NEW h \in Handlers, StartKitServer(h) PROVE DeskInv'
    OBVIOUS
  <1> DEFINE r == op[h].run
             x == [rec[r] EXCEPT !.status = "building"]
  <1>1. /\ op[h].step = "serve" /\ Goto(h, Idle)
        /\ UNCHANGED <<infoblox, demo, lock, reported, late, swept>>
        /\ \/ Saves(r, x) /\ srv' = [srv EXCEPT ![r] = "starting"]
           \/ UNCHANGED <<rec, srv, unsaved>>
    BY DEF StartKitServer
  <1>2. r \in Runs /\ rec[r] \in Records /\ Honest(rec[r].objs, r)
    BY <1>1, AtWork
  <1>3. CASE UNCHANGED <<rec, srv, unsaved>>
    BY <1>1, <1>3, IdleMovesOn, IdleOf, QuietMoveKeeps DEF history
  <1>4. CASE Saves(r, x) /\ srv' = [srv EXCEPT ![r] = "starting"]
    <2>1. /\ x \in Records /\ x.job = rec[r].job /\ x.objs = rec[r].objs
          /\ x.status = "building"
      BY <1>2, StatusOf DEF Statuses
    <2>2. HonestOf(portal, x.objs, r) /\ HonestOf(portal, Idle.objs, Idle.run)
      BY <1>2, <2>1, IdleOf DEF Honest, HonestOf
    <2>3. \A y \in portal \ reported : maker[y] = r => y \in DOMAIN x.objs
      <3>1. \A g \in Handlers : ~Builder(g, r)
        BY <1>1, <1>2 DEF DeskInv, BuildsAreAlone, Builder
      <3> QED
        BY <1>1, <2>1, <3>1, FoundAtWork
    <2>4. /\ srv' \in [Runs -> {"idle", "starting", "noting", "working"}]
          /\ srv'[r] = "starting" /\ \A s \in Runs : s # r => srv'[s] = srv[s]
      BY <1>2, <1>4, Types
    <2> HIDE DEF x
    <2>5. /\ rec' \in [Runs -> Records \cup {NoRun}] /\ rec'[r] = x
          /\ \A z \in Runs : z # r => rec'[z] = rec[z]
          /\ unsaved' = unsaved \ {r}
      BY <1>2, <1>4, <2>1, OneSaved
    <2>6. unsaved' \subseteq Runs /\ unsaved' \ {r} = unsaved \ {r}
      BY <2>5, Types
    <2>7. reported \subseteq reported' /\ reported' \subseteq Things /\ reported' = reported
      BY <1>1, Types
    <2>8. LedgerMove(h, r, Idle, x)
      BY <1>1, <1>2, <2>1, <2>2, <2>3, <2>4, <2>5, <2>6, <2>7, IdleOf DEF LedgerMove
    <2> QED
      BY <1>2, <2>1, <2>8, LedgerMoveKeeps, IdleOf
  <1> QED
    BY <1>1, <1>3, <1>4

LEMMA MarkRemovingKeeps == DeskInv /\ (\E h \in Handlers : MarkRemoving(h)) => DeskInv'
  <1> SUFFICES ASSUME DeskInv, NEW h \in Handlers, MarkRemoving(h) PROVE DeskInv'
    OBVIOUS
  <1> DEFINE q == op[h]
             r == q.run
             x == [rec[r] EXCEPT !.status = "removing"]
             l == rec[r].objs
  <1>1. /\ q.step = "asked" /\ UNCHANGED <<infoblox, srv, demo, lock, reported, late, swept>>
        /\ \/ rec[r].status \notin Busy /\ Saves(r, x) /\ Goto(h, Copied(h))
           \/ Goto(h, Idle) /\ UNCHANGED <<rec, unsaved>>
    BY DEF MarkRemoving
  <1>2. /\ q \in Ops /\ r \in Runs /\ rec[r] \in Records /\ Honest(l, r) /\ q.tried = {}
        /\ q.cleared = NoNet
        /\ \A y \in q.named : maker[y] # Nobody
    BY <1>1, AtWork
  <1>3. CASE Goto(h, Idle) /\ UNCHANGED <<rec, unsaved>>
    BY <1>1, <1>3, IdleMovesOn, IdleOf, QuietMoveKeeps DEF history
  <1>4. CASE rec[r].status \notin Busy /\ Saves(r, x) /\ Goto(h, Copied(h))
    <2>1. /\ x \in Records /\ x.job = rec[r].job /\ x.objs = l
          /\ x.status = "removing"
      BY <1>2, StatusOf DEF Statuses
    <2> DEFINE o == [q EXCEPT !.step = "remove", !.objs = l]
    <2>2. Copied(h) = o
      BY DEF Copied
    <2>3. l \in ObjMaps
      BY <1>2, RecordOf
    <2> HIDE DEF q, l
    <2>4. /\ o \in Ops /\ o.step = "remove" /\ o.run = q.run /\ o.objs = l
          /\ o.tried = q.tried /\ o.cleared = q.cleared /\ o.named = q.named
      BY <1>2, <2>3 DEF Ops, Steps, ObjMaps
    <2> HIDE DEF o
    <2>5. /\ o.step \in {"idle", "serve", "remove"} /\ o.step # "serve" /\ o.step # "idle"
          /\ o.run = (IF o.step = "idle" THEN NoRun ELSE r)
          /\ o.cleared = NoNet /\ o.tried = {} /\ \A y \in o.named : maker[y] # Nobody
          /\ HonestOf(portal, o.objs, o.run)
      BY <1>2, <2>4 DEF Honest
    <2>6. HonestOf(portal, x.objs, r)
      BY <1>2, <2>1 DEF Honest
    <2>7. \A y \in portal \ reported : maker[y] = r => y \in DOMAIN x.objs /\ y \in DOMAIN o.objs
      <3>1. \A g \in Handlers : ~Builder(g, r)
        BY <1>2, <1>4 DEF DeskInv, BuildsAreAlone, Busy
      <3>2. \A y \in portal \ reported : maker[y] = r => y \in DOMAIN l
        BY <1>1, <3>1, FoundAtWork DEF q, l
      <3> QED
        BY <2>1, <2>4, <3>2
    <2> HIDE DEF x
    <2>8. Saves(r, x) /\ Goto(h, o) /\ rec[r].status \notin Busy /\ op[h].run = r
      BY <1>4, <2>2 DEF q
    <2> HIDE DEF r
    <2>9. /\ rec' \in [Runs -> Records \cup {NoRun}] /\ rec'[r] = x
          /\ \A z \in Runs : z # r => rec'[z] = rec[z]
          /\ unsaved' = unsaved \ {r}
      BY <1>2, <2>1, <2>8, OneSaved
    <2>10. /\ unsaved' \subseteq Runs /\ unsaved' \ {r} = unsaved \ {r}
           /\ srv' \in [Runs -> {"idle", "starting", "noting", "working"}] /\ srv' = srv
           /\ reported \subseteq reported' /\ reported' \subseteq Things /\ reported' = reported
      BY <1>1, <2>9, Types
    <2>11. op[h].step = "asked"
      BY <1>1 DEF q
    <2>12. LedgerMove(h, r, o, x)
      BY <1>1, <1>2, <2>1, <2>4, <2>5, <2>6, <2>7, <2>8, <2>9, <2>10, <2>11 DEF LedgerMove
    <2> QED
      BY <1>2, <2>1, <2>12, LedgerMoveKeeps, <2>4
  <1> QED
    BY <1>1, <1>3, <1>4

LEMMA SaveRemoveKeeps == DeskInv /\ (\E h \in Handlers : SaveRemove(h)) => DeskInv'
  <1> SUFFICES ASSUME DeskInv, NEW h \in Handlers, SaveRemove(h) PROVE DeskInv'
    OBVIOUS
  <1> DEFINE q == op[h]
             r == q.run
             x == Removed(rec[r], q)
  <1>1. /\ q.step = "remove" /\ Pending(h) = {} /\ Goto(h, Idle)
        /\ Saves(r, x) \/ LosesSave(r)
        /\ UNCHANGED <<infoblox, srv, demo, lock, reported, late, swept>>
    BY DEF SaveRemove
  <1>2. /\ q \in Ops /\ r \in Runs /\ rec[r] \in Records
        /\ Honest(q.objs, r) /\ Honest(rec[r].objs, r)
        /\ \A y \in q.tried : y \in DOMAIN q.objs /\ q.objs[y] # "created"
        /\ rec[r].status = "removed" => \A y \in DOMAIN rec[r].objs : rec[r].objs[y] \notin Left
    BY <1>1, AtWork
  <1>3. \A g \in Handlers : ~Builder(g, r)
    BY <1>1, <1>2 DEF DeskInv, BuildsAreAlone, Builder
  <1>4. \A y \in portal \ reported : maker[y] = r => y \in DOMAIN q.objs /\ y \in DOMAIN rec[r].objs
    BY <1>1, <1>3, FoundAtWork
  <1>5. /\ srv' \in [Runs -> {"idle", "starting", "noting", "working"}] /\ srv' = srv
        /\ reported \subseteq reported' /\ reported' \subseteq Things /\ reported' = reported
        /\ unsaved \subseteq Runs /\ rec \in [Runs -> Records \cup {NoRun}]
    BY <1>1, Types
  <1>6. /\ Idle \in Ops /\ Idle.step = "idle" /\ Idle.run = NoRun /\ Idle.cleared = NoNet
        /\ Idle.tried = {} /\ (\A y \in Idle.named : maker[y] # Nobody)
        /\ HonestOf(portal, Idle.objs, Idle.run)
    BY IdleOf DEF HonestOf
  <1>7. CASE Saves(r, x)
    <2>1. /\ x \in Records /\ x.job = rec[r].job /\ x.objs = q.objs
          /\ x.status = IF \A o \in q.tried : q.objs[o] # "failed" THEN "removed" ELSE "remove-failed"
      BY <1>2, RemovedOf
    <2>2. x.status = "removed" => \A y \in DOMAIN x.objs : x.objs[y] \notin Left
      BY <1>1, <1>2, <2>1 DEF Pending, Left
    <2>3. HonestOf(portal, x.objs, r)
      BY <1>2, <2>1 DEF Honest
    <2> HIDE DEF x
    <2>4. /\ rec' \in [Runs -> Records \cup {NoRun}] /\ rec'[r] = x
          /\ \A z \in Runs : z # r => rec'[z] = rec[z]
          /\ unsaved' = unsaved \ {r}
      BY <1>2, <1>7, <2>1, OneSaved
    <2>5. unsaved' \subseteq Runs /\ unsaved' \ {r} = unsaved \ {r}
      BY <1>5, <2>4
    <2>6. x.status \notin Busy
      BY <2>1 DEF Busy
    <2>7. LedgerMove(h, r, Idle, x)
      BY <1>1, <1>2, <1>4, <1>5, <1>6, <2>1, <2>2, <2>3, <2>4, <2>5, <2>6 DEF LedgerMove
    <2> QED
      BY <1>2, <2>1, <2>7, LedgerMoveKeeps, IdleOf
  <1>8. CASE LosesSave(r)
    <2>1. rec' = rec /\ unsaved' = unsaved \cup {r}
      BY <1>8 DEF LosesSave
    <2>2. HonestOf(portal, rec[r].objs, r)
      BY <1>2 DEF Honest
    <2>3. unsaved' \subseteq Runs /\ unsaved' \ {r} = unsaved \ {r} /\ r \in unsaved'
      BY <1>2, <1>5, <2>1
    <2>4. LedgerMove(h, r, Idle, rec[r])
      BY <1>1, <1>2, <1>4, <1>5, <1>6, <2>1, <2>2, <2>3 DEF LedgerMove
    <2> QED
      BY <1>2, <2>1, <2>4, LedgerMoveKeeps, IdleOf
  <1> QED
    BY <1>1, <1>7, <1>8

-----------------------------------------------------------------------------
(* The demo server of one run starts, ends or is torn down by the page.    *)
LEMMA ServerMoveKeeps ==
    ASSUME DeskInv, NEW r \in Runs,
           demo' \in [Runs -> DemoStatuses], \A s \in Runs : s # r => demo'[s] = demo[s],
           \/ demo'[r] = demo[r]
           \/ /\ demo'[r] # "none" /\ demo[r] # "removed"
              /\ demo[r] = "none" => srv[r] = "starting"
              /\ \A h \in Handlers : op[h].step # "teardown",
           srv' \in [Runs -> {"idle", "starting", "noting", "working"}],
           \A s \in Runs : s # r => srv'[s] = srv[s],
           srv[r] = "idle" => srv'[r] = "idle",
           srv'[r] = "starting" => srv[r] = "starting" /\ demo'[r] = demo[r],
           srv'[r] = "working" => demo'[r] = "building" /\ (srv[r] = "working" \/ lock = "free"),
           lock' \in {"free", "held", "stale"},
           lock' = "held" <=> \/ \E s \in Runs : srv'[s] = "working"
                              \/ \E h \in Handlers : op[h].step = "teardown",
           rec' \in [Runs -> Records \cup {NoRun}], \A s \in Runs : s # r => rec'[s] = rec[s],
           \/ rec'[r] = rec[r]
           \/ /\ srv[r] # "idle" /\ rec'[r] # NoRun /\ rec'[r].job = rec[r].job
              /\ Honest(rec[r].objs, r)' /\ rec'[r].status = "built"
              /\ DOMAIN rec[r].objs \subseteq DOMAIN rec'[r].objs,
           unsaved' \subseteq Runs, unsaved' \ {r} = unsaved \ {r},
           rec'[r] # NoRun /\ rec'[r].status \in Busy /\ r \notin unsaved' =>
               \/ srv'[r] \in {"starting", "noting"}
               \/ rec'[r] = rec[r] /\ r \notin unsaved /\ srv[r] \notin {"starting", "noting"},
           UNCHANGED <<infoblox, op, reported, late, swept>>
    PROVE  DeskInv'
  <1>1. UNCHANGED <<portal, inside, maker, op, late, swept, reported>>
    BY DEF infoblox
  <1>2. \A s \in Runs : /\ demo[s] # "none" => demo'[s] # "none"
                        /\ demo[s] = "removed" => demo'[s] = "removed"
    OBVIOUS
  <1>3. \A x, s : HonestOf(portal, x, s) => HonestOf(portal, x, s)'
    BY <1>1, <1>2 DEF HonestOf
  <1>4. DeskTypeOK'
    BY <1>1, Types DEF DeskTypeOK
  <1>5. LockIsExclusive'
    <2>1. srv'[r] = "working" => srv[r] = "working"
                               \/ /\ \A s \in Runs : srv[s] # "working"
                                  /\ \A h \in Handlers : op[h].step # "teardown"
      BY Types
    <2> QED
      BY <1>1, <2>1 DEF DeskInv, LockIsExclusive
  <1>6. RequestsFit'
    <2> SUFFICES ASSUME NEW h \in Handlers PROVE RequestFits(h)'
      BY DEF RequestsFit
    <2>1. RequestFits(h) /\ op'[h] = op[h]
      BY <1>1 DEF DeskInv, RequestsFit
    <2>2. HonestOf(portal, op[h].objs, op[h].run)'
      BY <1>1, <1>3, <2>1 DEF RequestFits, Honest
    <2>3. op[h].step = "teardown" => demo'[op[h].run] = demo[op[h].run]
      BY <2>1 DEF RequestFits
    <2> QED
      BY <1>1, <2>1, <2>2, <2>3 DEF RequestFits, Honest, Pending
  <1>7. RecordsFit'
    <2> SUFFICES ASSUME NEW s \in Runs, rec'[s] # NoRun
                 PROVE  /\ Honest(rec[s].objs, s)'
                        /\ rec'[s].status = "removed" =>
                             \A o \in DOMAIN rec'[s].objs : rec'[s].objs[o] \notin Left
      BY DEF RecordsFit
    <2>1. CASE rec'[s] = rec[s]
      <3>1. /\ HonestOf(portal, rec[s].objs, s)
            /\ rec[s].status = "removed" => \A o \in DOMAIN rec[s].objs : rec[s].objs[o] \notin Left
        BY <2>1 DEF DeskInv, RecordsFit, Honest
      <3>2. HonestOf(portal, rec[s].objs, s)'
        BY <1>1, <1>2, <2>1, <3>1 DEF HonestOf
      <3> QED
        BY <2>1, <3>1, <3>2 DEF Honest
    <2>2. CASE rec'[s] # rec[s]
      BY <2>2
    <2> QED
      BY <2>1, <2>2
  <1>8. BuildsAreAlone'
    <2>1. ASSUME NEW h \in Handlers, NEW s \in Runs, srv[s] = "idle", demo[s] = "none"
          PROVE  rec'[s] = rec[s] /\ srv'[s] = "idle" /\ demo'[s] = "none"
      BY <2>1
    <2>2. \A s \in Runs :
            /\ srv'[s] # "idle" => rec'[s] # NoRun /\ rec'[s].job = "kit"
            /\ srv'[s] = "starting" => demo'[s] = "none"
            /\ srv'[s] = "working" => demo'[s] = "building"
            /\ rec'[s] = NoRun => demo'[s] = "none"
      BY DEF DeskInv, BuildsAreAlone
    <2> QED
      BY <1>1, <2>1, <2>2 DEF DeskInv, BuildsAreAlone, Builder
  <1>9. RemovesAreAlone'
    <2>1. \A s \in Runs : rec'[s].job = rec[s].job /\ (rec[s].job # "kit" => rec'[s] = rec[s])
      BY DEF DeskInv, BuildsAreAlone
    <2> QED
      BY <1>1, <2>1 DEF DeskInv, RemovesAreAlone, Remover
  <1>10. MadeIsFound'
    <2>1. \A y \in portal : maker[y] # Nobody /\ (maker[y] \in Runs => rec'[maker[y]] # NoRun)
      BY DEF DeskInv, MadeIsFound
    <2>2. \A s \in Runs : Quiet(s) => rec'[s] = rec[s] /\ Quiet(s)'
      BY <1>1 DEF Quiet
    <2>3. \A s \in Runs : \A y \in DOMAIN rec[s].objs : y \in DOMAIN rec'[s].objs
      OBVIOUS
    <2> QED
      BY <1>1, <2>1, <2>2, <2>3 DEF DeskInv, MadeIsFound, Builder, Remover
  <1>11. NetworksHold'
    BY <1>1 DEF DeskInv, NetworksHold
  <1>12. BusyHasAWorker'
    <2> SUFFICES ASSUME NEW s \in Runs, rec'[s] # NoRun, rec'[s].status \in Busy, s \notin unsaved'
                 PROVE  \/ \E h \in Handlers : Builder(h, s)' \/ Remover(h, s)'
                        \/ srv'[s] \in {"starting", "noting"}
      BY DEF BusyHasAWorker, BusyRuns
    <2>1. \A h \in Handlers : (Builder(h, s)' <=> Builder(h, s)) /\ (Remover(h, s)' <=> Remover(h, s))
      BY <1>1 DEF Builder, Remover
    <2>2. CASE s # r
      BY <2>1, <2>2 DEF DeskInv, BusyHasAWorker, BusyRuns
    <2>3. CASE s = r
      BY <2>1, <2>3 DEF DeskInv, BusyHasAWorker, BusyRuns
    <2> QED
      BY <2>2, <2>3
  <1> QED
    BY <1>4, <1>5, <1>6, <1>7, <1>8, <1>9, <1>10, <1>11, <1>12 DEF DeskInv

LEMMA ServerRefusedKeeps == DeskInv /\ (\E r \in Runs : ServerRefused(r)) => DeskInv'
  <1> SUFFICES ASSUME DeskInv, NEW r \in Runs, ServerRefused(r) PROVE DeskInv'
    OBVIOUS
  <1>1. /\ srv[r] = "starting" /\ srv' = [srv EXCEPT ![r] = "noting"]
        /\ UNCHANGED <<rec, infoblox, op, demo, lock, unsaved, reported, late, swept>>
    BY DEF ServerRefused, history
  <1>2. /\ srv' \in [Runs -> {"idle", "starting", "noting", "working"}] /\ srv'[r] = "noting"
        /\ \A s \in Runs : s # r => srv'[s] = srv[s]
        /\ \A s \in Runs : srv'[s] = "working" <=> srv[s] = "working"
    BY <1>1, Types
  <1>3. /\ demo' \in [Runs -> DemoStatuses] /\ lock' \in {"free", "held", "stale"}
        /\ rec' \in [Runs -> Records \cup {NoRun}] /\ unsaved' \subseteq Runs
        /\ lock' = "held" <=> \/ \E s \in Runs : srv'[s] = "working"
                              \/ \E h \in Handlers : op[h].step = "teardown"
    BY <1>1, <1>2, Types
  <1> QED
    BY <1>1, <1>2, <1>3, ServerMoveKeeps

LEMMA ServerStartedKeeps == DeskInv /\ (\E r \in Runs : ServerStarted(r)) => DeskInv'
  <1> SUFFICES ASSUME DeskInv, NEW r \in Runs, ServerStarted(r) PROVE DeskInv'
    OBVIOUS
  <1> DEFINE x == WithServer(rec[r], r)
  <1>1. /\ srv[r] = "starting" /\ lock = "free"
        /\ \/ /\ Saves(r, x)
              /\ srv' = [srv EXCEPT ![r] = "working"]
              /\ demo' = [demo EXCEPT ![r] = "building"] /\ lock' = "held"
           \/ /\ srv' = [srv EXCEPT ![r] = "noting"]
              /\ demo' = [demo EXCEPT ![r] = "failed"]
              /\ UNCHANGED <<rec, unsaved, lock>>
        /\ UNCHANGED <<infoblox, op, reported, late, swept>>
    BY DEF ServerStarted
  <1>2. /\ demo[r] = "none" /\ rec[r] # NoRun /\ rec[r] \in Records
        /\ Honest(rec[r].objs, r)
        /\ \A h \in Handlers : op[h].step # "teardown"
        /\ \A s \in Runs : srv[s] # "working"
    BY <1>1, Types DEF DeskInv, BuildsAreAlone, RecordsFit
  <1>3. CASE /\ Saves(r, x) /\ srv' = [srv EXCEPT ![r] = "working"]
             /\ demo' = [demo EXCEPT ![r] = "building"] /\ lock' = "held"
    <2>1. /\ x \in Records /\ x.job = rec[r].job /\ x.status = "built"
          /\ DOMAIN x.objs = DOMAIN rec[r].objs \cup {r} /\ x.objs[r] = "created"
          /\ \A o \in DOMAIN rec[r].objs \ {r} : x.objs[o] = rec[r].objs[o]
      BY <1>2, WithServerOf
    <2> HIDE DEF x
    <2>2. /\ srv' \in [Runs -> {"idle", "starting", "noting", "working"}] /\ srv'[r] = "working"
          /\ \A s \in Runs : s # r => srv'[s] = srv[s]
          /\ demo' \in [Runs -> DemoStatuses] /\ demo'[r] = "building"
          /\ \A s \in Runs : s # r => demo'[s] = demo[s]
      BY <1>3, Types DEF DemoStatuses
    <2>3. /\ rec' \in [Runs -> Records \cup {NoRun}] /\ rec'[r] = x /\ rec'[r] # NoRun
          /\ \A s \in Runs : s # r => rec'[s] = rec[s]
          /\ unsaved' = unsaved \ {r}
      BY <1>2, <1>3, <2>1, OneSaved
    <2>4. unsaved' \subseteq Runs /\ unsaved' \ {r} = unsaved \ {r}
      BY <2>3, Types
    <2>5. Honest(rec[r].objs, r)'
      BY <1>1, <1>2, <2>1, <2>2, <2>3, ThingsAndRuns DEF Honest, HonestOf, infoblox
    <2>6. rec'[r].status \notin Busy
      BY <2>1, <2>3 DEF Busy
    <2>7. lock' \in {"free", "held", "stale"} /\ \E s \in Runs : srv'[s] = "working"
      BY <1>3, <2>2
    <2> QED
      BY <1>1, <1>2, <1>3, <2>1, <2>2, <2>3, <2>4, <2>5, <2>6, <2>7, ServerMoveKeeps
  <1>4. CASE /\ srv' = [srv EXCEPT ![r] = "noting"] /\ demo' = [demo EXCEPT ![r] = "failed"]
             /\ UNCHANGED <<rec, unsaved, lock>>
    <2>1. /\ srv' \in [Runs -> {"idle", "starting", "noting", "working"}] /\ srv'[r] = "noting"
          /\ \A s \in Runs : s # r => srv'[s] = srv[s]
          /\ demo' \in [Runs -> DemoStatuses] /\ demo'[r] = "failed"
          /\ \A s \in Runs : s # r => demo'[s] = demo[s]
      BY <1>4, Types DEF DemoStatuses
    <2>2. \A s \in Runs : srv'[s] # "working"
      BY <1>2, <2>1
    <2>3. /\ lock' = "free" /\ lock' \in {"free", "held", "stale"} /\ unsaved' \subseteq Runs
          /\ rec' \in [Runs -> Records \cup {NoRun}]
      BY <1>1, <1>4, Types
    <2> QED
      BY <1>1, <1>2, <1>4, <2>1, <2>2, <2>3, ServerMoveKeeps
  <1> QED
    BY <1>1, <1>3, <1>4

LEMMA ServerNotedKeeps == DeskInv /\ (\E r \in Runs : ServerNoted(r)) => DeskInv'
  <1> SUFFICES ASSUME DeskInv, NEW r \in Runs, ServerNoted(r) PROVE DeskInv'
    OBVIOUS
  <1> DEFINE x == [rec[r] EXCEPT !.status = "built"]
  <1>1. /\ srv[r] = "noting" /\ srv' = [srv EXCEPT ![r] = "idle"]
        /\ Saves(r, x) \/ LosesSave(r)
        /\ UNCHANGED <<infoblox, op, demo, lock, reported, late, swept>>
    BY DEF ServerNoted
  <1>2. rec[r] # NoRun /\ rec[r] \in Records /\ Honest(rec[r].objs, r)
    BY <1>1, Types DEF DeskInv, BuildsAreAlone, RecordsFit
  <1>3. /\ srv' \in [Runs -> {"idle", "starting", "noting", "working"}] /\ srv'[r] = "idle"
        /\ \A s \in Runs : s # r => srv'[s] = srv[s]
        /\ \A s \in Runs : srv'[s] = "working" <=> srv[s] = "working"
    BY <1>1, Types
  <1>4. /\ demo' \in [Runs -> DemoStatuses] /\ lock' \in {"free", "held", "stale"}
        /\ lock' = "held" <=> \/ \E s \in Runs : srv'[s] = "working"
                              \/ \E h \in Handlers : op[h].step = "teardown"
    BY <1>1, <1>3, Types
  <1>5. CASE Saves(r, x)
    <2>1. x \in Records /\ x.job = rec[r].job /\ x.objs = rec[r].objs /\ x.status = "built"
      BY <1>2, StatusOf DEF Statuses
    <2> HIDE DEF x
    <2>2. /\ rec' \in [Runs -> Records \cup {NoRun}] /\ rec'[r] = x /\ rec'[r] # NoRun
          /\ \A s \in Runs : s # r => rec'[s] = rec[s]
          /\ unsaved' = unsaved \ {r}
      BY <1>2, <1>5, <2>1, OneSaved
    <2>3. unsaved' \subseteq Runs /\ unsaved' \ {r} = unsaved \ {r}
      BY <2>2, Types
    <2>4. Honest(rec[r].objs, r)'
      BY <1>1, <1>2, <2>1, <2>2 DEF Honest, HonestOf, infoblox
    <2>5. rec'[r].status \notin Busy
      BY <2>1, <2>2 DEF Busy
    <2> QED
      BY <1>1, <1>3, <1>4, <2>1, <2>2, <2>3, <2>4, <2>5, ServerMoveKeeps
  <1>6. CASE LosesSave(r)
    <2>1. /\ rec' = rec /\ rec' \in [Runs -> Records \cup {NoRun}] /\ unsaved' \subseteq Runs
          /\ r \in unsaved' /\ unsaved' \ {r} = unsaved \ {r}
      BY <1>6, Types DEF LosesSave
    <2> QED
      BY <1>1, <1>3, <1>4, <2>1, ServerMoveKeeps
  <1> QED
    BY <1>1, <1>5, <1>6

LEMMA ServerEndsKeeps == DeskInv /\ (\E r \in Runs : ServerEnds(r)) => DeskInv'
  <1> SUFFICES ASSUME DeskInv, NEW r \in Runs, ServerEnds(r) PROVE DeskInv'
    OBVIOUS
  <1>1. PICK s \in {"ready", "failed"} :
          /\ srv[r] = "working" /\ srv' = [srv EXCEPT ![r] = "idle"] /\ lock' = "free"
          /\ demo' = [demo EXCEPT ![r] = s]
          /\ UNCHANGED <<rec, infoblox, op, unsaved, reported, late, swept>>
    BY DEF ServerEnds, history
  <1>2. /\ demo[r] = "building" /\ \A h \in Handlers : op[h].step # "teardown"
        /\ \A t \in Runs : srv[t] = "working" => t = r
    BY <1>1 DEF DeskInv, BuildsAreAlone, LockIsExclusive
  <1>3. /\ srv' \in [Runs -> {"idle", "starting", "noting", "working"}] /\ srv'[r] = "idle"
        /\ \A t \in Runs : t # r => srv'[t] = srv[t]
        /\ demo' \in [Runs -> DemoStatuses] /\ demo'[r] = s
        /\ \A t \in Runs : t # r => demo'[t] = demo[t]
    BY <1>1, Types DEF DemoStatuses
  <1>4. \A t \in Runs : srv'[t] # "working"
    BY <1>2, <1>3
  <1>5. /\ lock' \in {"free", "held", "stale"} /\ unsaved' \subseteq Runs
        /\ rec' \in [Runs -> Records \cup {NoRun}]
    BY <1>1, Types
  <1> QED
    BY <1>1, <1>2, <1>3, <1>4, <1>5, ServerMoveKeeps

LEMMA DemoPageKeeps == DeskInv /\ (\E r \in Runs : DemoPageTeardown(r)) => DeskInv'
  <1> SUFFICES ASSUME DeskInv, NEW r \in Runs, DemoPageTeardown(r) PROVE DeskInv'
    OBVIOUS
  <1>1. PICK s \in {"removed", "remove-failed"} :
          /\ demo[r] \notin {"none", "removed"} /\ lock = "free"
          /\ demo' = [demo EXCEPT ![r] = s]
          /\ UNCHANGED <<rec, infoblox, op, srv, lock, unsaved, reported, late, swept>>
    BY DEF DemoPageTeardown, history
  <1>2. /\ \A h \in Handlers : op[h].step # "teardown"
        /\ \A t \in Runs : srv[t] # "working"
        /\ srv[r] # "starting"
    BY <1>1, Types DEF DeskInv, BuildsAreAlone
  <1>3. /\ demo' \in [Runs -> DemoStatuses] /\ demo'[r] = s
        /\ \A t \in Runs : t # r => demo'[t] = demo[t]
    BY <1>1, Types DEF DemoStatuses
  <1>4. /\ lock' \in {"free", "held", "stale"} /\ unsaved' \subseteq Runs
        /\ srv' \in [Runs -> {"idle", "starting", "noting", "working"}]
        /\ rec' \in [Runs -> Records \cup {NoRun}]
    BY <1>1, Types
  <1> QED
    BY <1>1, <1>2, <1>3, <1>4, ServerMoveKeeps

LEMMA LockAgesKeeps == DeskInv /\ LockAges => DeskInv'
  <1> SUFFICES ASSUME DeskInv, LockAges PROVE DeskInv'
    OBVIOUS
  <1>1. /\ lock = "stale" /\ lock' = "free"
        /\ UNCHANGED <<rec, portal, inside, maker, op, srv, demo, unsaved, reported, late, swept>>
    BY DEF LockAges, infoblox, history
  <1>2. DeskTypeOK'
    BY <1>1, Types DEF DeskTypeOK
  <1>3. LockIsExclusive' /\ RequestsFit' /\ RecordsFit' /\ BuildsAreAlone' /\ RemovesAreAlone'
    BY <1>1 DEF DeskInv, LockIsExclusive, RequestsFit, RequestFits, RecordsFit, BuildsAreAlone,
                RemovesAreAlone, Builder, Remover, Pending, Honest, HonestOf
  <1>4. MadeIsFound' /\ NetworksHold' /\ BusyHasAWorker'
    BY <1>1 DEF DeskInv, MadeIsFound, NetworksHold, BusyHasAWorker, BusyRuns, Builder, Remover,
                Quiet
  <1> QED
    BY <1>2, <1>3, <1>4 DEF DeskInv

(* A Remove starts or ends the teardown of its run's demo server.          *)
LEMMA TeardownKeeps ==
    ASSUME DeskInv, NEW h \in Handlers, NEW r \in Runs, op[h].run = r,
           NEW o \in Ops, Goto(h, o),
           op[h].step \in {"remove", "teardown"}, o.step \in {"remove", "teardown"},
           o.run = r, o.named = op[h].named, DOMAIN o.objs = DOMAIN op[h].objs,
           o.cleared \in {NoNet, op[h].cleared},
           \A x \in o.tried : x \in DOMAIN o.objs /\ o.objs[x] # "created",
           demo[r] \notin {"none", "removed"},
           demo' \in [Runs -> DemoStatuses], demo'[r] # "none",
           \A s \in Runs : s # r => demo'[s] = demo[s],
           \A y \in DOMAIN o.objs : o.objs[y] \in {"gone", "removed"} =>
               IF y = r THEN demo'[r] = "removed" ELSE o.objs[y] = op[h].objs[y],
           \A g \in Handlers : g # h => op[g].step # "teardown",
           \A s \in Runs : srv[s] # "working",
           o.step = "teardown" => /\ r \in DOMAIN o.objs /\ o.objs[r] \in Left /\ r \notin o.tried
                                  /\ demo'[r] = "removing",
           lock' = IF o.step = "teardown" THEN "held" ELSE "free",
           UNCHANGED <<rec, infoblox, srv, history>>
    PROVE  DeskInv'
  <1>1. /\ op' \in [Handlers -> Ops] /\ op'[h] = o /\ \A g \in Handlers : g # h => op'[g] = op[g]
    BY OneMoves
  <1>2. UNCHANGED <<rec, portal, inside, maker, srv, unsaved, reported, late, swept>>
    BY DEF infoblox, history
  <1>3. \A s \in Runs : /\ demo[s] # "none" => demo'[s] # "none"
                        /\ demo[s] = "removed" => demo'[s] = "removed"
    OBVIOUS
  <1>4. \A x, s : HonestOf(portal, x, s) => HonestOf(portal, x, s)'
    BY <1>2, <1>3 DEF HonestOf
  <1>5. \A g \in Handlers, s \in Runs : (Builder(g, s)' <=> Builder(g, s))
                                       /\ (Remover(g, s)' <=> Remover(g, s))
    BY <1>1 DEF Builder, Remover
  <1>6. DeskTypeOK'
    <2>1. lock' = "held" <=> \E g \in Handlers : op'[g].step = "teardown"
      BY <1>1
    <2> QED
      BY <1>1, <1>2, <2>1, Types DEF DeskTypeOK
  <1>7. LockIsExclusive'
    BY <1>1, <1>2 DEF LockIsExclusive
  <1>8. RequestsFit'
    <2> SUFFICES ASSUME NEW g \in Handlers PROVE RequestFits(g)'
      BY DEF RequestsFit
    <2>1. CASE g = h
      <3>1. RequestFits(h)
        BY DEF DeskInv, RequestsFit
      <3>2. Honest(op[h].objs, r)'
        <4>1. HonestOf(portal, op[h].objs, r)
          BY <3>1 DEF RequestFits, Honest
        <4>2. \A y \in DOMAIN o.objs : y \in Runs => y = r
          BY <4>1 DEF HonestOf
        <4>3. r \notin portal
          BY Types, ThingsAndRuns
        <4>4. op'[h].objs = o.objs /\ portal' = portal /\ maker' = maker
          BY <1>1, <1>2
        <4> SUFFICES ASSUME NEW y \in DOMAIN o.objs
                     PROVE  /\ y \in Things => maker[y] # Nobody
                            /\ y \in Runs => y = r /\ demo'[y] # "none"
                            /\ o.objs[y] \in {"gone", "removed"} =>
                                 y \notin portal /\ (y \in Runs => demo'[y] = "removed")
          BY <4>4 DEF Honest, HonestOf
        <4>5. /\ y \in Things => maker[y] # Nobody
              /\ y \in Runs => y = r /\ demo'[y] # "none"
          BY <4>1 DEF HonestOf
        <4>6. ASSUME o.objs[y] \in {"gone", "removed"}
              PROVE  y \notin portal /\ (y \in Runs => demo'[y] = "removed")
          BY <4>1, <4>2, <4>3, <4>6 DEF HonestOf
        <4> QED
          BY <4>5, <4>6
      <3>3. o.step = "teardown" => (r \in Pending(h))'
        BY <1>1 DEF Pending
      <3>4. rec'[r] # NoRun /\ \A y \in o.named : maker'[y] # Nobody
        BY <1>2, <3>1 DEF RequestFits
      <3>5. /\ op'[g].step # "idle" /\ op'[g].run = r /\ op'[g].step # "asked"
            /\ op'[g].step \in {"remove", "teardown"}
        BY <1>1, <2>1
      <3> QED
        BY <1>1, <2>1, <3>2, <3>3, <3>4, <3>5 DEF RequestFits
    <2>2. CASE g # h
      <3>1. RequestFits(g) /\ op'[g] = op[g] /\ op[g].step # "teardown"
        BY <1>1, <2>2 DEF DeskInv, RequestsFit
      <3>2. HonestOf(portal, op[g].objs, op[g].run)'
        BY <1>1, <1>2, <1>3, <2>2, <3>1 DEF RequestFits, Honest, HonestOf
      <3> QED
        BY <1>2, <3>1, <3>2 DEF RequestFits, Honest
    <2> QED
      BY <2>1, <2>2
  <1>9. RecordsFit'
    BY <1>2, <1>3 DEF DeskInv, RecordsFit, Honest, HonestOf
  <1>10. BuildsAreAlone'
    <2>1. \A s \in Runs : demo[s] = "none" => demo'[s] = "none"
      OBVIOUS
    <2>2. srv[r] # "starting"
      BY DEF DeskInv, BuildsAreAlone
    <2>3. /\ \A g \in Handlers : op'[g].run = op[g].run
          /\ \A g \in Handlers : op'[g].step = "serve" <=> op[g].step = "serve"
      BY <1>1
    <2> QED
      BY <1>2, <1>5, <2>1, <2>2, <2>3 DEF DeskInv, BuildsAreAlone
  <1>11. RemovesAreAlone'
    BY <1>2, <1>5 DEF DeskInv, RemovesAreAlone
  <1>12. MadeIsFound'
    <2>1. \A s \in Runs : Quiet(s) => Quiet(s)'
      BY <1>1, <1>2 DEF Quiet
    <2>2. \A g \in Handlers : op'[g].named = op[g].named /\ DOMAIN op'[g].objs = DOMAIN op[g].objs
      BY <1>1
    <2> QED
      BY <1>2, <1>5, <2>1, <2>2 DEF DeskInv, MadeIsFound
  <1>13. NetworksHold'
    BY <1>1, <1>2 DEF DeskInv, NetworksHold
  <1>14. BusyHasAWorker'
    BY <1>2, <1>5 DEF DeskInv, BusyHasAWorker, BusyRuns
  <1> QED
    BY <1>6, <1>7, <1>8, <1>9, <1>10, <1>11, <1>12, <1>13, <1>14 DEF DeskInv

LEMMA RemoveServerKeeps ==
    DeskInv /\ (\E h \in Handlers, r \in Runs : RemoveServer(h, r)) => DeskInv'
  <1> SUFFICES ASSUME DeskInv, NEW h \in Handlers, NEW r \in Runs, RemoveServer(h, r) PROVE DeskInv'
    OBVIOUS
  <1> DEFINE q == op[h]
             o == [q EXCEPT !.step = "teardown"]
  <1>1. /\ q.step = "remove" /\ r \in Pending(h)
        /\ \/ Goto(h, Tried(q, r, "failed")) /\ UNCHANGED <<demo, lock>>
           \/ /\ demo[r] = "removed"
              /\ Goto(h, Tried(q, r, "removed")) /\ UNCHANGED <<demo, lock>>
           \/ /\ demo[r] \notin {"building", "removed"} /\ lock = "free"
              /\ demo' = [demo EXCEPT ![r] = "removing"] /\ lock' = "held"
              /\ Goto(h, o)
        /\ UNCHANGED <<rec, infoblox, srv, history>>
    BY DEF RemoveServer, Turn, Outcome
  <1>2. /\ q \in Ops /\ Honest(q.objs, q.run)
        /\ \A y \in q.tried : y \in DOMAIN q.objs /\ q.objs[y] # "created"
        /\ r \in DOMAIN q.objs /\ q.objs[r] \in Left /\ r \notin q.tried
    BY <1>1, AtWork DEF Pending
  <1>3. /\ r = q.run /\ demo[r] # "none" /\ r \notin Things /\ r \notin portal
        /\ portal' \subseteq portal
    BY <1>1, <1>2, Types, ThingsAndRuns DEF Honest, HonestOf, infoblox
  <1>4. CASE Goto(h, Tried(q, r, "failed")) /\ UNCHANGED <<demo, lock>>
    BY <1>1, <1>3, <1>4, TriedMovesOn, QuietMoveKeeps
  <1>5. CASE /\ demo[r] = "removed"
             /\ Goto(h, Tried(q, r, "removed")) /\ UNCHANGED <<demo, lock>>
    BY <1>1, <1>3, <1>5, TriedMovesOn, QuietMoveKeeps
  <1>6. CASE /\ demo[r] \notin {"building", "removed"} /\ lock = "free"
             /\ demo' = [demo EXCEPT ![r] = "removing"] /\ lock' = "held"
             /\ Goto(h, o)
    <2>1. /\ o \in Ops /\ o.step = "teardown" /\ o.run = q.run /\ o.named = q.named
          /\ o.objs = q.objs /\ o.tried = q.tried /\ o.cleared = q.cleared
      BY <1>2 DEF Ops, Steps
    <2>2. /\ demo' \in [Runs -> DemoStatuses] /\ demo'[r] = "removing"
          /\ \A s \in Runs : s # r => demo'[s] = demo[s]
      BY <1>6, Types DEF DemoStatuses
    <2>3. /\ \A g \in Handlers : op[g].step # "teardown"
          /\ \A s \in Runs : srv[s] # "working"
      BY <1>6, Types
    <2>4. \A y \in DOMAIN q.objs : q.objs[y] \in {"gone", "removed"} => y # r
      BY <1>2 DEF Left
    <2> HIDE DEF o
    <2> QED
      BY <1>1, <1>2, <1>3, <1>6, <2>1, <2>2, <2>3, <2>4, TeardownKeeps
  <1> QED
    BY <1>1, <1>4, <1>5, <1>6

LEMMA TeardownEndsKeeps ==
    DeskInv /\ (\E h \in Handlers, r \in Runs : TeardownEnds(h, r)) => DeskInv'
  <1> SUFFICES ASSUME DeskInv, NEW h \in Handlers, NEW r \in Runs, TeardownEnds(h, r) PROVE DeskInv'
    OBVIOUS
  <1> DEFINE q == op[h]
  <1>1. /\ q.step = "teardown" /\ r \in Pending(h)
        /\ \/ demo' = [demo EXCEPT ![r] = "removed"] /\ Goto(h, Tried(q, r, "removed"))
           \/ demo' = [demo EXCEPT ![r] = "remove-failed"] /\ Goto(h, Tried(q, r, "failed"))
        /\ lock' = "free"
        /\ UNCHANGED <<rec, infoblox, srv, history>>
    BY DEF TeardownEnds, Outcome
  <1>2. PICK s \in {"removed", "failed"}, d \in {"removed", "remove-failed"} :
          /\ s = "removed" => d = "removed"
          /\ demo' = [demo EXCEPT ![r] = d] /\ Goto(h, Tried(q, r, s))
    BY <1>1
  <1>3. /\ q \in Ops /\ Honest(q.objs, q.run)
        /\ \A y \in q.tried : y \in DOMAIN q.objs /\ q.objs[y] # "created"
        /\ r \in DOMAIN q.objs
    BY <1>1, AtWork DEF Pending
  <1>4. r = q.run /\ demo[r] = "removing"
    BY <1>1, <1>3 DEF DeskInv, RequestsFit, RequestFits, Honest, HonestOf
  <1>5. s \in ObjectStates /\ s # "created"
    BY DEF ObjectStates
  <1> DEFINE o == Tried(q, r, s)
  <1>6. /\ o \in Ops /\ o.step = "remove" /\ o.run = q.run /\ o.named = q.named
        /\ o.tried = q.tried \cup {r} /\ o.cleared = NoNet
        /\ DOMAIN o.objs = DOMAIN q.objs /\ o.objs[r] = s
        /\ \A p \in DOMAIN q.objs \ {r} : o.objs[p] = q.objs[p]
    BY <1>3, <1>5, TriedOf
  <1> HIDE DEF o
  <1>7. /\ \A y \in o.tried : y \in DOMAIN o.objs /\ o.objs[y] # "created"
        /\ \A y \in DOMAIN o.objs : o.objs[y] \in {"gone", "removed"} =>
              IF y = r THEN d = "removed" ELSE o.objs[y] = q.objs[y]
    BY <1>2, <1>3, <1>5, <1>6
  <1>8. /\ demo' \in [Runs -> DemoStatuses] /\ demo'[r] = d /\ d # "none"
        /\ \A t \in Runs : t # r => demo'[t] = demo[t]
    BY <1>2, Types DEF DemoStatuses
  <1>9. /\ \A g \in Handlers : g # h => op[g].step # "teardown"
        /\ \A t \in Runs : srv[t] # "working"
    BY <1>1 DEF DeskInv, LockIsExclusive
  <1>10. Goto(h, o)
    BY <1>2 DEF o
  <1> QED
    BY <1>1, <1>4, <1>6, <1>7, <1>8, <1>9, <1>10, TeardownKeeps

-----------------------------------------------------------------------------
(* Something new appears in Infoblox, made by a run's Build or a person.   *)
LEMMA CreateKeeps ==
    ASSUME DeskInv, NEW o \in Things, maker[o] = Nobody, NEW m \in Runs \cup {Person},
           portal' = portal \cup {o}, maker' = [maker EXCEPT ![o] = m],
           op' \in [Handlers -> Ops],
           \A h \in Handlers :
               /\ op'[h].step = op[h].step /\ op'[h].run = op[h].run /\ op'[h].objs = op[h].objs
               /\ op'[h].tried = op[h].tried /\ op'[h].cleared = op[h].cleared
               /\ op'[h].named \in {op[h].named, op[h].named \cup {o}},
           reported \subseteq reported', reported' \subseteq Things,
           m \in Runs => \E h \in Handlers :
               Builder(h, m) /\ (o \in reported' \/ o \in op'[h].named),
           inside' \in [Addrs -> Nets \cup {NoNet}],
           \A a \in Addrs : a # o => inside'[a] = inside[a],
           o \in Addrs => inside'[o] \in portal,
           late \subseteq late', late' \subseteq Addrs,
           o \in Addrs /\ (\E h \in Handlers : op[h].cleared = inside'[o]) => o \in late',
           UNCHANGED <<rec, srv, demo, lock, unsaved, swept>>
    PROVE  DeskInv'
  <1>1. o \notin portal /\ portal \subseteq portal'
    BY DEF DeskInv, MadeIsFound
  <1>2. /\ maker' \in [Things -> Runs \cup {Person, Nobody}] /\ maker'[o] = m /\ m # Nobody
        /\ \A y \in Things : y # o => maker'[y] = maker[y]
        /\ \A y \in Things : maker[y] # Nobody => maker'[y] # Nobody
    BY Types, DeskAssumption
  <1>3. \A x, r : HonestOf(portal, x, r) /\ DOMAIN x \subseteq Objects =>
          \A y \in DOMAIN x : /\ y \in Things => maker'[y] # Nobody
                              /\ y \in Runs => y = r /\ demo[y] # "none"
                              /\ x[y] \in {"gone", "removed"} =>
                                   y \notin portal' /\ (y \in Runs => demo[y] = "removed")
    <2> SUFFICES ASSUME NEW x, NEW r, HonestOf(portal, x, r), DOMAIN x \subseteq Objects,
                        NEW y \in DOMAIN x
                 PROVE  /\ y \in Things => maker'[y] # Nobody
                        /\ y \in Runs => y = r /\ demo[y] # "none"
                        /\ x[y] \in {"gone", "removed"} =>
                             y \notin portal' /\ (y \in Runs => demo[y] = "removed")
      OBVIOUS
    <2>1. y # o
      BY ThingsAndRuns DEF HonestOf
    <2> QED
      BY <1>2, <2>1 DEF HonestOf
  <1>4. \A h \in Handlers : DOMAIN op[h].objs \subseteq Objects
    BY Types, RequestOf, ListOf
  <1>5. \A r \in Runs : rec[r] # NoRun => DOMAIN rec[r].objs \subseteq Objects
    BY Types, RecordOf, ListOf
  <1>6. \A h \in Handlers, r \in Runs : (Builder(h, r)' <=> Builder(h, r))
                                       /\ (Remover(h, r)' <=> Remover(h, r))
    BY DEF Builder, Remover
  <1>7. DeskTypeOK'
    <2>1. portal' \subseteq Things /\ swept' \subseteq Addrs
      BY Types
    <2> QED
      BY <1>2, <2>1, Types DEF DeskTypeOK
  <1>8. LockIsExclusive'
    BY DEF DeskInv, LockIsExclusive
  <1>9. RequestsFit'
    <2> SUFFICES ASSUME NEW h \in Handlers PROVE RequestFits(h)'
      BY DEF RequestsFit
    <2>1. RequestFits(h)
      BY DEF DeskInv, RequestsFit
    <2>2. HonestOf(portal, op[h].objs, op[h].run)'
      <3>1. HonestOf(portal, op[h].objs, op[h].run)
        BY <2>1 DEF RequestFits, Honest
      <3>2. \A y \in DOMAIN op[h].objs :
              /\ y \in Things => maker'[y] # Nobody
              /\ y \in Runs => y = op[h].run /\ demo[y] # "none"
              /\ op[h].objs[y] \in {"gone", "removed"} =>
                   y \notin portal' /\ (y \in Runs => demo[y] = "removed")
        BY <1>3, <1>4, <3>1
      <3> QED
        BY <3>2 DEF HonestOf
    <2>3. \A y \in op'[h].named : maker'[y] # Nobody
      <3>1. op[h].named \subseteq Things
        BY Types, RequestOf
      <3> QED
        BY <1>2, <2>1, <3>1 DEF RequestFits
    <2>4. Pending(h)' = Pending(h)
      BY DEF Pending
    <2>5. Honest(op[h].objs, op[h].run)'
      BY <2>2 DEF Honest
    <2> QED
      BY <2>1, <2>3, <2>4, <2>5 DEF RequestFits
  <1>10. RecordsFit'
    <2> SUFFICES ASSUME NEW r \in Runs, rec[r] # NoRun
                 PROVE  /\ Honest(rec[r].objs, r)'
                        /\ rec[r].status = "removed" =>
                             \A y \in DOMAIN rec[r].objs : rec[r].objs[y] \notin Left
      BY DEF RecordsFit
    <2>1. /\ HonestOf(portal, rec[r].objs, r)
          /\ rec[r].status = "removed" =>
                             \A y \in DOMAIN rec[r].objs : rec[r].objs[y] \notin Left
      BY DEF DeskInv, RecordsFit, Honest
    <2>2. \A y \in DOMAIN rec[r].objs :
            /\ y \in Things => maker'[y] # Nobody
            /\ y \in Runs => y = r /\ demo[y] # "none"
            /\ rec[r].objs[y] \in {"gone", "removed"} =>
                 y \notin portal' /\ (y \in Runs => demo[y] = "removed")
      BY <1>3, <1>5, <2>1
    <2> QED
      BY <2>1, <2>2 DEF Honest, HonestOf
  <1>11. BuildsAreAlone'
    BY <1>6 DEF DeskInv, BuildsAreAlone
  <1>12. RemovesAreAlone'
    BY <1>6 DEF DeskInv, RemovesAreAlone
  <1>13. MadeIsFound'
    <2>1. m \in Runs => rec[m] # NoRun
      BY DEF DeskInv, RequestsFit, RequestFits, Builder
    <2>2. \A y \in portal' : maker'[y] # Nobody /\ (maker'[y] \in Runs => rec[maker'[y]] # NoRun)
      BY <1>2, <2>1, Types DEF DeskInv, MadeIsFound
    <2>3. ASSUME NEW y \in portal' \ reported', NEW r \in Runs, maker'[y] = r
          PROVE  /\ \A h \in Handlers : /\ Builder(h, r)' => y \in op'[h].named
                                        /\ Remover(h, r)' => y \in DOMAIN op'[h].objs
                 /\ (\A h \in Handlers : ~Builder(h, r)') =>
                      \/ y \in DOMAIN rec[r].objs
                      \/ Unlisted(rec[r]) /\ Quiet(r)'
      <3>1. CASE y = o
        <4>1. r = m /\ \E h \in Handlers : Builder(h, r) /\ o \in op'[h].named
          BY <1>2, <2>3, <3>1
        <4>2. PICK h \in Handlers : Builder(h, r) /\ o \in op'[h].named
          BY <4>1
        <4>3. \A g \in Handlers : op[g].run = r => g = h
          BY <4>2 DEF DeskInv, BuildsAreAlone
        <4> QED
          BY <1>6, <3>1, <4>2, <4>3 DEF Builder, Remover
      <3>2. CASE y # o
        <4>1. y \in portal \ reported /\ maker[y] = r
          BY <1>2, <2>3, <3>2, Types
        <4>2. Quiet(r) => Quiet(r)'
          BY DEF Quiet
        <4> QED
          BY <1>6, <4>1, <4>2 DEF DeskInv, MadeIsFound
      <3> QED
        BY <3>1, <3>2
    <2> QED
      BY <2>2, <2>3 DEF MadeIsFound
  <1>14. NetworksHold'
    <2>1. \A a \in Addrs \cap portal' : inside'[a] \in Nets => inside'[a] \in portal'
      BY <1>1 DEF DeskInv, NetworksHold
    <2>2. ASSUME NEW h \in Handlers, NEW a \in Addrs \cap portal', op'[h].cleared # NoNet,
                 inside'[a] = op'[h].cleared
          PROVE  a \in late'
      <3>1. CASE a = o
        BY <2>2, <3>1
      <3>2. CASE a # o
        BY <2>2, <3>2 DEF DeskInv, NetworksHold
      <3> QED
        BY <3>1, <3>2
    <2>3. swept' \subseteq late'
      BY DEF DeskInv, NetworksHold
    <2> QED
      BY <2>1, <2>2, <2>3 DEF NetworksHold
  <1>15. BusyHasAWorker'
    BY <1>6 DEF DeskInv, BusyHasAWorker, BusyRuns
  <1> QED
    BY <1>7, <1>8, <1>9, <1>10, <1>11, <1>12, <1>13, <1>14, <1>15 DEF DeskInv

\* What a Build's create does to the requests and the answers.
LEMMA CreateMoves ==
    ASSUME DeskInv, NEW h \in Handlers, NEW o \in Things, Creates(h, o)
    PROVE  /\ maker[o] = Nobody /\ op[h].run \in Runs
           /\ portal' = portal \cup {o} /\ maker' = [maker EXCEPT ![o] = op[h].run]
           /\ op' \in [Handlers -> Ops]
           /\ \A g \in Handlers :
                /\ op'[g].step = op[g].step /\ op'[g].run = op[g].run /\ op'[g].objs = op[g].objs
                /\ op'[g].tried = op[g].tried /\ op'[g].cleared = op[g].cleared
                /\ op'[g].named \in {op[g].named, op[g].named \cup {o}}
           /\ reported \subseteq reported' /\ reported' \subseteq Things
           /\ Builder(h, op[h].run) /\ (o \in reported' \/ o \in op'[h].named)
           /\ UNCHANGED <<rec, srv, demo, lock, unsaved, swept>>
  <1> DEFINE q == op[h]
             n == q.named \cup {o}
             x == [q EXCEPT !.named = n]
  <1>1. /\ q.step = "build" /\ maker[o] = Nobody
        /\ portal' = portal \cup {o} /\ maker' = [maker EXCEPT ![o] = q.run]
        /\ \/ Goto(h, x) /\ UNCHANGED reported
           \/ UNCHANGED op /\ reported' = reported \cup {o}
        /\ UNCHANGED <<rec, srv, demo, lock, unsaved, swept>>
    BY DEF Creates
  <1>2. q \in Ops /\ q.run \in Runs /\ n \in SUBSET Things
    BY <1>1, AtWork, RequestOf
  <1>3. op \in [Handlers -> Ops] /\ reported \subseteq Things
    BY Types
  <1>4. Builder(h, q.run)
    BY <1>1 DEF Builder
  <1>5. CASE Goto(h, x) /\ UNCHANGED reported
    <2> HIDE DEF q, n
    <2>1. /\ x \in Ops /\ x.step = q.step /\ x.run = q.run /\ x.named = n
          /\ x.objs = q.objs /\ x.tried = q.tried /\ x.cleared = q.cleared
      BY <1>2 DEF Ops
    <2> HIDE DEF x
    <2>2. op' \in [Handlers -> Ops] /\ op'[h] = x /\ \A g \in Handlers : g # h => op'[g] = op[g]
      BY <1>5, <2>1, OneMoves
    <2>3. \A g \in Handlers :
            /\ op'[g].step = op[g].step /\ op'[g].run = op[g].run /\ op'[g].objs = op[g].objs
            /\ op'[g].tried = op[g].tried /\ op'[g].cleared = op[g].cleared
            /\ op'[g].named \in {op[g].named, op[g].named \cup {o}}
      BY <2>1, <2>2 DEF q, n
    <2>4. o \in op'[h].named
      BY <2>1, <2>2 DEF n
    <2> QED
      BY <1>1, <1>2, <1>3, <1>4, <1>5, <2>2, <2>3, <2>4 DEF q
  <1>6. CASE UNCHANGED op /\ reported' = reported \cup {o}
    BY <1>1, <1>2, <1>3, <1>4, <1>6
  <1> QED
    BY <1>1, <1>5, <1>6

LEMMA MakeNetKeeps == DeskInv /\ (\E h \in Handlers, n \in Nets : MakeNet(h, n)) => DeskInv'
  <1> SUFFICES ASSUME DeskInv, NEW h \in Handlers, NEW n \in Nets, MakeNet(h, n) PROVE DeskInv'
    OBVIOUS
  <1>1. n \in Things /\ n \notin Addrs
    BY DeskAssumption DEF Things
  <1>2. Creates(h, n) /\ UNCHANGED <<inside, late>>
    BY DEF MakeNet
  <1>3. inside' \in [Addrs -> Nets \cup {NoNet}] /\ late \subseteq late' /\ late' \subseteq Addrs
    BY <1>2, Types
  <1> DEFINE m == op[h].run
  <1>4. /\ maker[n] = Nobody /\ m \in Runs \cup {Person}
        /\ portal' = portal \cup {n} /\ maker' = [maker EXCEPT ![n] = m]
        /\ op' \in [Handlers -> Ops]
        /\ \A g \in Handlers :
             /\ op'[g].step = op[g].step /\ op'[g].run = op[g].run /\ op'[g].objs = op[g].objs
             /\ op'[g].tried = op[g].tried /\ op'[g].cleared = op[g].cleared
             /\ op'[g].named \in {op[g].named, op[g].named \cup {n}}
        /\ reported \subseteq reported' /\ reported' \subseteq Things
        /\ Builder(h, m) /\ (n \in reported' \/ n \in op'[h].named)
        /\ UNCHANGED <<rec, srv, demo, lock, unsaved, swept>>
    BY <1>1, <1>2, CreateMoves
  <1> HIDE DEF m
  <1> QED
    BY <1>1, <1>2, <1>3, <1>4, CreateKeeps

\* Where an address arrives.
LEMMA ArrivesThere ==
    ASSUME DeskInv, NEW a \in Addrs, NEW n \in Nets, Arrives(a, n)
    PROVE  /\ inside' \in [Addrs -> Nets \cup {NoNet}] /\ inside'[a] \in portal
           /\ \A b \in Addrs : b # a => inside'[b] = inside[b]
           /\ late \subseteq late' /\ late' \subseteq Addrs
           /\ (\E h \in Handlers : op[h].cleared = inside'[a]) => a \in late'
  BY Types DEF Arrives

LEMMA MakeAddrKeeps ==
    DeskInv /\ (\E h \in Handlers, a \in Addrs, n \in Nets : MakeAddr(h, a, n)) => DeskInv'
  <1> SUFFICES ASSUME DeskInv, NEW h \in Handlers, NEW a \in Addrs, NEW n \in Nets,
                      MakeAddr(h, a, n)
               PROVE  DeskInv'
    OBVIOUS
  <1>1. a \in Things
    BY DEF Things
  <1>2. Creates(h, a) /\ Arrives(a, n)
    BY DEF MakeAddr
  <1> DEFINE m == op[h].run
  <1>3. /\ inside' \in [Addrs -> Nets \cup {NoNet}] /\ inside'[a] \in portal
        /\ \A b \in Addrs : b # a => inside'[b] = inside[b]
        /\ late \subseteq late' /\ late' \subseteq Addrs
        /\ (\E g \in Handlers : op[g].cleared = inside'[a]) => a \in late'
    BY <1>2, ArrivesThere
  <1>4. /\ maker[a] = Nobody /\ m \in Runs \cup {Person}
        /\ portal' = portal \cup {a} /\ maker' = [maker EXCEPT ![a] = m]
        /\ op' \in [Handlers -> Ops]
        /\ \A g \in Handlers :
             /\ op'[g].step = op[g].step /\ op'[g].run = op[g].run /\ op'[g].objs = op[g].objs
             /\ op'[g].tried = op[g].tried /\ op'[g].cleared = op[g].cleared
             /\ op'[g].named \in {op[g].named, op[g].named \cup {a}}
        /\ reported \subseteq reported' /\ reported' \subseteq Things
        /\ Builder(h, m) /\ (a \in reported' \/ a \in op'[h].named)
        /\ UNCHANGED <<rec, srv, demo, lock, unsaved, swept>>
    BY <1>1, <1>2, CreateMoves
  <1> HIDE DEF m
  <1> QED
    BY <1>1, <1>3, <1>4, CreateKeeps

LEMMA PersonAddsKeeps ==
    DeskInv /\ (\E a \in Addrs, n \in Nets : PersonAdds(a, n)) => DeskInv'
  <1> SUFFICES ASSUME DeskInv, NEW a \in Addrs, NEW n \in Nets, PersonAdds(a, n) PROVE DeskInv'
    OBVIOUS
  <1>1. a \in Things /\ Person \notin Runs /\ Person \in Runs \cup {Person}
    BY DeskAssumption DEF Things
  <1>2. /\ maker[a] = Nobody /\ Arrives(a, n)
        /\ maker' = [maker EXCEPT ![a] = Person] /\ portal' = portal \cup {a}
        /\ UNCHANGED <<rec, op, srv, demo, lock, unsaved, reported, swept>>
    BY DEF PersonAdds
  <1>3. /\ inside' \in [Addrs -> Nets \cup {NoNet}] /\ inside'[a] \in portal
        /\ \A b \in Addrs : b # a => inside'[b] = inside[b]
        /\ late \subseteq late' /\ late' \subseteq Addrs
        /\ (\E g \in Handlers : op[g].cleared = inside'[a]) => a \in late'
    BY <1>2, ArrivesThere
  <1>4. /\ op' \in [Handlers -> Ops]
        /\ \A g \in Handlers :
             /\ op'[g].step = op[g].step /\ op'[g].run = op[g].run /\ op'[g].objs = op[g].objs
             /\ op'[g].tried = op[g].tried /\ op'[g].cleared = op[g].cleared
             /\ op'[g].named \in {op[g].named, op[g].named \cup {a}}
        /\ reported \subseteq reported' /\ reported' \subseteq Things
    BY <1>2, Types
  <1> QED
    BY <1>1, <1>2, <1>3, <1>4, CreateKeeps

-----------------------------------------------------------------------------
(* The server starts again: every request and goroutine is gone.           *)
LEMMA RestartKeeps == DeskInv /\ Restart => DeskInv'
  <1> SUFFICES ASSUME DeskInv, Restart PROVE DeskInv'
    OBVIOUS
  <1>1. /\ \A h \in Handlers : op'[h] = Idle
        /\ op' \in [Handlers -> Ops]
        /\ \A r \in Runs : srv'[r] = "idle"
        /\ srv' \in [Runs -> {"idle", "starting", "noting", "working"}]
        /\ lock' \in {"free", "stale"}
        /\ UNCHANGED <<portal, inside, maker, demo, reported, late, swept>>
    BY IdleOf, Types DEF Restart, infoblox
  <1>2. /\ rec' \in [Runs -> Records \cup {NoRun}] /\ unsaved' \subseteq Runs
        /\ \A r \in Runs :
             /\ rec'[r] = NoRun <=> rec[r] = NoRun
             /\ rec[r] # NoRun =>
                  /\ rec'[r].objs = rec[r].objs
                  /\ rec'[r].status = "removed" => rec[r].status = "removed"
                  /\ rec'[r].status \in Busy => r \in unsaved'
                  /\ Unlisted(rec[r]) => Unlisted(rec'[r])
    <2>1. CASE rec' = [r \in Runs |-> Marked(r)] /\ unsaved' = {}
      <3>1. ASSUME NEW r \in Runs
            PROVE  /\ rec'[r] = Marked(r) /\ Marked(r) \in Records \cup {NoRun}
                   /\ Marked(r) = NoRun <=> rec[r] = NoRun
                   /\ rec[r] # NoRun =>
                        /\ Marked(r).objs = rec[r].objs
                        /\ Marked(r).status \notin Busy
                        /\ Marked(r).status = "removed" => rec[r].status = "removed"
                        /\ Unlisted(rec[r]) => Unlisted(Marked(r))
        <4>1. rec'[r] = Marked(r) /\ rec[r] \in Records \cup {NoRun}
          BY <2>1, Types
        <4>2. /\ Marked(r) \in Records \cup {NoRun} /\ (Marked(r) = NoRun <=> rec[r] = NoRun)
              /\ rec[r] # NoRun =>
                   /\ Marked(r).objs = rec[r].objs
                   /\ Marked(r).status \notin Busy
                   /\ Marked(r).status = "removed" => rec[r].status = "removed"
                   /\ rec[r].byHand \/ rec[r].status = "building" =>
                        Marked(r).byHand \/ rec[r].status = "removing"
          BY <4>1, MarkedOf
        <4>3. rec[r] # NoRun /\ Unlisted(rec[r]) => Unlisted(Marked(r))
          BY <4>2 DEF Unlisted, Busy
        <4> QED
          BY <4>1, <4>2, <4>3
      <3>2. rec' \in [Runs -> Records \cup {NoRun}]
        BY <2>1, <3>1
      <3> QED
        BY <2>1, <3>1, <3>2
    <2>2. CASE rec' = rec /\ unsaved' = BusyRuns
      BY <2>2, Types DEF BusyRuns
    <2> QED
      BY <2>1, <2>2 DEF Restart
  <1>3. /\ \A h \in Handlers, r \in Runs : op'[h].run # r
        /\ \A h \in Handlers : op'[h].step = "idle"
    BY <1>1, IdleOf, DeskAssumption
  <1>4. DeskTypeOK'
    <2>1. /\ portal' \subseteq Things /\ inside' \in [Addrs -> Nets \cup {NoNet}]
          /\ maker' \in [Things -> Runs \cup {Person, Nobody}] /\ demo' \in [Runs -> DemoStatuses]
          /\ reported' \subseteq Things /\ late' \subseteq Addrs /\ swept' \subseteq Addrs
      BY <1>1, Types
    <2>2. /\ lock' # "held" /\ lock' \in {"free", "held", "stale"}
          /\ \A r \in Runs : srv'[r] # "working"
          /\ \A h \in Handlers : op'[h].step # "teardown"
      BY <1>1, <1>3
    <2> QED
      BY <1>1, <1>2, <2>1, <2>2 DEF DeskTypeOK
  <1>5. LockIsExclusive' /\ RemovesAreAlone' /\ BuildsAreAlone'
    <2>1. LockIsExclusive'
      BY <1>1, <1>3 DEF LockIsExclusive
    <2>2. RemovesAreAlone'
      BY <1>3 DEF RemovesAreAlone, Remover
    <2>3. \A r \in Runs : rec'[r] = NoRun => demo'[r] = "none"
      BY <1>1, <1>2 DEF DeskInv, BuildsAreAlone
    <2>4. \A h \in Handlers, r \in Runs : ~Builder(h, r)'
      BY <1>3 DEF Builder
    <2> QED
      BY <1>1, <1>3, <2>1, <2>2, <2>3, <2>4 DEF BuildsAreAlone
  <1>6. RequestsFit'
    BY <1>1, IdleOf DEF RequestsFit, RequestFits, Honest, HonestOf
  <1>7. RecordsFit'
    BY <1>1, <1>2 DEF DeskInv, RecordsFit, Honest, HonestOf
  <1>8. MadeIsFound'
    <2>1. \A y \in portal : maker[y] # Nobody /\ (maker[y] \in Runs => rec'[maker[y]] # NoRun)
      BY <1>2 DEF DeskInv, MadeIsFound
    <2>2. ASSUME NEW y \in portal \ reported, NEW r \in Runs, maker[y] = r
          PROVE  y \in DOMAIN rec'[r].objs \/ Unlisted(rec'[r])
      <3>1. rec[r] # NoRun
        BY <2>2 DEF DeskInv, MadeIsFound
      <3>2. CASE \E h \in Handlers : Builder(h, r)
        <4>1. Unlisted(rec[r])
          BY <3>2 DEF DeskInv, BuildsAreAlone, Unlisted
        <4> QED
          BY <1>2, <3>1, <4>1
      <3>3. CASE \A h \in Handlers : ~Builder(h, r)
        <4>1. y \in DOMAIN rec[r].objs \/ Unlisted(rec[r])
          BY <2>2, <3>3 DEF DeskInv, MadeIsFound
        <4> QED
          BY <1>2, <3>1, <4>1
      <3> QED
        BY <3>2, <3>3
    <2>3. /\ \A h \in Handlers, r \in Runs : ~Builder(h, r)' /\ ~Remover(h, r)'
          /\ \A r \in Runs : Quiet(r)'
      BY <1>1, <1>3 DEF Builder, Remover, Quiet
    <2>4. portal' = portal /\ reported' = reported /\ maker' = maker
      BY <1>1
    <2> QED
      BY <2>1, <2>2, <2>3, <2>4 DEF MadeIsFound
  <1>9. NetworksHold'
    BY <1>1, IdleOf DEF DeskInv, NetworksHold
  <1>10. BusyHasAWorker'
    BY <1>2 DEF BusyHasAWorker, BusyRuns
  <1> QED
    BY <1>4, <1>5, <1>6, <1>7, <1>8, <1>9, <1>10 DEF DeskInv

LEMMA StepDeskInv == DeskInv /\ [Next]_vars => DeskInv'
  <1> SUFFICES ASSUME DeskInv, [Next]_vars PROVE DeskInv'
    OBVIOUS
  <1>1. ASSUME NEW h \in Handlers, BuildStep(h) PROVE DeskInv'
    BY <1>1, DeskRunKeeps, MakeNetKeeps, MakeAddrKeeps, BuildOkKeeps, BuildFailsKeeps,
       RecordBuildKeeps, StartKitServerKeeps DEF BuildStep
  <1>2. ASSUME NEW h \in Handlers, RemoveStep(h) PROVE DeskInv'
    BY <1>2, AskRemoveKeeps, RemoveServerKeeps, TeardownEndsKeeps, MarkRemovingKeeps,
       SaveRemoveKeeps, RemoveThingKeeps, CheckNetKeeps DEF RemoveStep
  <1>3. ASSUME NEW r \in Runs, ServerStep(r) PROVE DeskInv'
    BY <1>3, ServerRefusedKeeps, ServerStartedKeeps, ServerNotedKeeps, ServerEndsKeeps
    DEF ServerStep
  <1>4. CASE UNCHANGED vars
    <2>1. /\ UNCHANGED <<rec, portal, inside, maker, op, srv, demo, lock>>
          /\ UNCHANGED <<unsaved, reported, late, swept>>
      BY <1>4 DEF vars, infoblox, history
    <2>2. DeskTypeOK' /\ LockIsExclusive' /\ RequestsFit' /\ RecordsFit'
      BY <2>1 DEF DeskInv, DeskTypeOK, LockIsExclusive, RequestsFit, RequestFits, RecordsFit,
                  Pending, Honest, HonestOf
    <2>3. BuildsAreAlone' /\ RemovesAreAlone' /\ MadeIsFound' /\ NetworksHold' /\ BusyHasAWorker'
      BY <2>1 DEF DeskInv, BuildsAreAlone, RemovesAreAlone, MadeIsFound, NetworksHold,
                  BusyHasAWorker, BusyRuns, Builder, Remover, Quiet
    <2> QED
      BY <2>2, <2>3 DEF DeskInv
  <1> QED
    BY <1>1, <1>2, <1>3, <1>4, DemoPageKeeps, PersonDeletesKeeps, PersonAddsKeeps, RestartKeeps,
       LockAgesKeeps DEF Next

(* DeskInv holds throughout: requests, runs and demo servers stay in step, *)
(* and what a run made stays in sight (the desk's handlers and runs.Open). *)
THEOREM DeskInductive == Spec => []DeskInv
  <1> QED
    BY InitDeskInv, StepDeskInv, PTL DEF Spec

\* Without a demo server, at most one request works on a run.
LEMMA OneWorker == DeskInv => OneWorkerPerRun
  <1> SUFFICES ASSUME DeskInv, NEW r \in Runs, rec[r] # NoRun, rec[r].job # "kit"
               PROVE  Cardinality({h \in Handlers : Builder(h, r) \/ Remover(h, r)}) <= 1
    BY DEF OneWorkerPerRun
  <1> DEFINE W == {h \in Handlers : Builder(h, r) \/ Remover(h, r)}
  <1>1. \A h, g \in W : g = h
    <2>1. \A h, g \in Handlers : Builder(h, r) /\ (Builder(g, r) \/ Remover(g, r)) => g = h
      BY DEF DeskInv, BuildsAreAlone, Builder, Remover
    <2>2. \A h, g \in Handlers : Remover(h, r) /\ Remover(g, r) => g = h
      BY DEF DeskInv, RemovesAreAlone
    <2> QED
      BY <2>1, <2>2
  <1> SUFFICES Cardinality(W) <= 1
    OBVIOUS
  <1> HIDE DEF W
  <1>2. CASE W = {}
    BY <1>2, FS_EmptySet
  <1>3. CASE W # {}
    <2>1. PICK g \in W : W = {g}
      BY <1>1, <1>3
    <2>2. Cardinality({g}) = 1
      BY FS_Singleton
    <2> QED
      BY <2>1, <2>2
  <1> QED
    BY <1>2, <1>3

(* RunsAreWorked: a run that reads building or removing has a worker or is *)
(* put right at the next start, and never two without a demo server.       *)
THEOREM RunsAlwaysWorked == Spec => []RunsAreWorked
  <1>1. DeskInv => RunsAreWorked
    BY OneWorker DEF DeskInv, RunsAreWorked
  <1> QED
    BY <1>1, DeskInductive, PTL

\* What still exists is not listed as gone.
LEMMA ListedIsLeft ==
    ASSUME DeskInv, NEW r \in Runs, rec[r] # NoRun, NEW o \in portal, o \in DOMAIN rec[r].objs
    PROVE  rec[r].objs[o] \in Left
  <1>1. rec[r].objs[o] \in ObjectStates
    BY Types, RecordOf, ListOf
  <1>2. rec[r].objs[o] \notin {"gone", "removed"}
    BY DEF DeskInv, RecordsFit, Honest, HonestOf
  <1> QED
    BY <1>1, <1>2 DEF ObjectStates, Left

(* LedgerAccounts: the ledger says gone only of what is gone, whatever a   *)
(* run made and still exists is in sight, and deleting a network takes     *)
(* along only what arrived after its check.                                *)
THEOREM LedgerAlwaysAccounts == Spec => []LedgerAccounts
  <1>1. DeskInv => GoneIsGone
    BY DEF DeskInv, RecordsFit, Honest, HonestOf, GoneIsGone
  <1>2. DeskInv => NothingUnaccounted
    <2> SUFFICES ASSUME DeskInv, NEW o \in portal, maker[o] \in Runs, o \notin reported,
                        \A h \in Handlers : ~Builder(h, maker[o])
                 PROVE  \/ o \in DOMAIN rec[maker[o]].objs /\ rec[maker[o]].objs[o] \in Left
                        \/ /\ rec[maker[o]].objs = <<>>
                           /\ rec[maker[o]].byHand \/ rec[maker[o]].status = "building"
      BY DEF NothingUnaccounted
    <2>1. rec[maker[o]] # NoRun
      BY DEF DeskInv, MadeIsFound
    <2>2. o \in DOMAIN rec[maker[o]].objs \/ Unlisted(rec[maker[o]])
      BY DEF DeskInv, MadeIsFound
    <2> QED
      BY <2>1, <2>2, ListedIsLeft DEF Unlisted
  <1>3. DeskInv => SweptArrivedLate
    BY DEF DeskInv, NetworksHold, SweptArrivedLate
  <1>4. DeskInv => LedgerAccounts
    BY <1>1, <1>2, <1>3 DEF LedgerAccounts
  <1> QED
    BY <1>4, DeskInductive, PTL

=============================================================================
