----------------------------- MODULE Provision -----------------------------
(***************************************************************************)
(* Building a site from a template, undoing a build that failed, and       *)
(* tearing a site down (internal/provision), by requests that run at the   *)
(* same time against one Infoblox account.                                 *)
(*                                                                         *)
(* Infoblox is a map from what an object is (the subnet in a slot of the   *)
(* address block, the DHCP range in it, a zone by name, a host by name) to *)
(* who made it; the pair of the two is the object's ID, as a thing deleted *)
(* and made again has a new one.  A create can be refused, succeed, succeed*)
(* without giving the ID back, or succeed without its answer arriving.     *)
(* RevOf names the reverse zone of a slot's addresses: slots of one /24    *)
(* share theirs (CidrToReverseZone).                                       *)
(***************************************************************************)
EXTENDS Naturals, Sequences, FiniteSets

CONSTANTS
    Builders, Teardowns,    \* requests
    Sites, Slots, RevZones, RevOf,
    Template,               \* what each subnet of a site's template has
    MaxWrong,               \* bound: answers that are refusals, lost or without an ID
    Customer, Free, NoSite, NoSlot

ASSUME ProvisionAssumption ==
    /\ Template \in [Sites -> Seq(SUBSET {"range", "reverse", "host"}) \ {<<>>}]
    /\ MaxWrong \in Nat
    /\ RevOf \in [Slots -> RevZones]
    /\ {Customer, Free} \cap Builders = {} /\ Customer # Free
    /\ NoSite \notin Sites /\ NoSlot \notin Slots
    /\ Sites \cap RevZones = {}

Subnet(n) == <<"subnet", n>>
DhcpRange(n) == <<"range", n>>
Zone(z) == <<"zone", z>>
Host(s, i) == <<"host", s, i>>
Hosts(s) == {Host(s, i) : i \in DOMAIN Template[s]}

Refs == {Subnet(n) : n \in Slots} \cup {DhcpRange(n) : n \in Slots}
        \cup {Zone(z) : z \in Sites \cup RevZones}
        \cup UNION {Hosts(s) : s \in Sites}
Owners == Builders \cup {Customer, Free}
Ids == Refs \X Owners

VARIABLES
    portal,     \* who made what is there now: [Refs -> Owners]
    tag,        \* the Site tag of the subnet in each slot
    build,      \* the site builds in progress or over
    down,       \* the teardowns in progress or over
    wrong,      \* how many answers went wrong, up to MaxWrong
    unanswered  \* history: objects made by a create whose answer was lost

vars == <<portal, tag, build, down, wrong, unanswered>>

BuildSteps == {"idle", "check", "subnet", "tag", "range", "findrev", "makerev",
               "findzone", "makezone", "host", "rollback", "built", "failed", "skipped"}
Fresh == [step |-> "idle", site |-> NoSite, i |-> 1, slot |-> NoSlot,
          made |-> {}, unknown |-> {}, residual |-> {}]
NotDown == [step |-> "idle", site |-> NoSite, todo |-> {}, record |-> {}, saw |-> {}, amid |-> {}]
Customers(zones) == [r \in Refs |-> IF r \in {Zone(z) : z \in zones} THEN Customer ELSE Free]

Init ==
    /\ \E zones \in SUBSET RevZones : portal = Customers(zones)
    /\ tag = [n \in Slots |-> NoSite] /\ wrong = 0
    /\ build = [b \in Builders |-> Fresh]
    /\ down = [t \in Teardowns |-> NotDown]
    /\ unanswered = {}

Right == UNCHANGED wrong
Wrong == wrong < MaxWrong /\ wrong' = wrong + 1

Plans(b) == Len(Template[build[b].site])
Wants(b, what) == what \in Template[build[b].site][build[b].i]

Goto(b, x) == Right /\ build' = [build EXCEPT ![b] = x]
GoWrong(b, x) == Wrong /\ build' = [build EXCEPT ![b] = x]
Aborted(b) == [build[b] EXCEPT !.step = "rollback", !.i = 1, !.slot = NoSlot]
Fails(b) == GoWrong(b, Aborted(b))
Refused(b) == Goto(b, Aborted(b))
Exists(id) == portal[id[1]] = id[2] /\ id[2] # Free

\* Deleting a network takes its tags and the DHCP range in it along.
WithContents(ref) == IF ref[1] = "subnet" THEN {ref, DhcpRange(ref[2])} ELSE {ref}
Erase(ref) ==
    /\ portal' = [r \in Refs |-> IF r \in WithContents(ref) THEN Free ELSE portal[r]]
    /\ tag' = [n \in Slots |-> IF ref = Subnet(n) THEN NoSite ELSE tag[n]]

-----------------------------------------------------------------------------
\* A build.

StartBuild(b, s) ==
    /\ build[b].step = "idle"
    /\ Goto(b, [Fresh EXCEPT !.step = "check", !.site = s])
    /\ UNCHANGED <<portal, tag, down, unanswered>>

TaggedSlots(s) == {n \in Slots : tag[n] = s}

\* findExistingSite and the reads before the first write: a site that is there
\* is skipped (if_not_exists) or an error; failing here has nothing to undo.
CheckSite(b) ==
    /\ build[b].step = "check"
    /\ \/ TaggedSlots(build[b].site) = {} /\ Goto(b, [build[b] EXCEPT !.step = "subnet"])
       \/ TaggedSlots(build[b].site) # {} /\ Goto(b, [build[b] EXCEPT !.step = "skipped"])
       \/ TaggedSlots(build[b].site) # {} /\ Refused(b)
       \/ Fails(b)
    /\ UNCHANGED <<portal, tag, down, unanswered>>

Makes(b, ref) == portal[ref] = Free /\ portal' = [portal EXCEPT ![ref] = b]

\* A create that succeeds, with its ID (known) or without it (idUnknown).
Answered(b, ref, next) ==
    /\ Makes(b, ref)
    /\ \/ Goto(b, [next EXCEPT !.made = @ \cup {<<ref, b>>}])
       \/ GoWrong(b, [next EXCEPT !.unknown = @ \cup {<<ref, b>>}])
    /\ UNCHANGED unanswered

\* A create that fails or whose answer is lost after it was done; or that is
\* refused because the object is there by now.
Errs(b, ref) ==
    /\ Fails(b)
    /\ \/ UNCHANGED <<portal, unanswered>>
       \/ Makes(b, ref) /\ unanswered' = unanswered \cup {<<ref, b>>}
Unmade(b, ref) ==
    \/ portal[ref] # Free /\ Refused(b) /\ UNCHANGED <<portal, unanswered>>
    \/ Errs(b, ref)

\* Recorded the moment it exists, before it is tagged.  An answer that does
\* not name the subnet reads as "no free subnet": as good as no answer.
CreateSubnet(b) ==
    /\ build[b].step = "subnet"
    /\ \/ Fails(b) /\ UNCHANGED <<portal, unanswered>>
       \/ /\ \A n \in Slots : portal[Subnet(n)] # Free
          /\ Refused(b) /\ UNCHANGED <<portal, unanswered>>
       \/ \E n \in Slots :
            /\ Makes(b, Subnet(n))
            /\ \/ /\ Goto(b, [build[b] EXCEPT !.step = "tag", !.slot = n,
                                              !.made = @ \cup {<<Subnet(n), b>>}])
                  /\ UNCHANGED unanswered
               \/ Fails(b) /\ unanswered' = unanswered \cup {<<Subnet(n), b>>}
    /\ UNCHANGED <<tag, down>>

TagSubnet(b) ==
    LET tagged == [tag EXCEPT ![build[b].slot] = build[b].site] IN
    /\ build[b].step = "tag"
    /\ Exists(<<Subnet(build[b].slot), b>>)
    /\ \/ tag' = tagged /\ Goto(b, [build[b] EXCEPT !.step = "range"])
       \/ tag' \in {tag, tagged} /\ Fails(b)
    /\ UNCHANGED <<portal, down, unanswered>>

\* A range that is not wanted, or does not fit its subnet, is skipped.
CreateRange(b) ==
    LET next == [build[b] EXCEPT !.step = "findrev"]
        ref == DhcpRange(build[b].slot)
    IN
    /\ build[b].step = "range"
    /\ \/ ~ Wants(b, "range") /\ Goto(b, next) /\ UNCHANGED <<portal, unanswered>>
       \/ Wants(b, "range") /\ (Answered(b, ref, next) \/ Unmade(b, ref))
    /\ UNCHANGED <<tag, down>>

SubnetDone(b, x) ==
    IF x.i < Plans(b) THEN [x EXCEPT !.step = "subnet", !.i = @ + 1, !.slot = NoSlot]
    ELSE [x EXCEPT !.step = "findzone", !.i = 1, !.slot = NoSlot]

RevRef(b) == Zone(RevOf[build[b].slot])

\* An existing reverse zone is reused, and not recorded as made.
FindReverseZone(b) ==
    /\ build[b].step = "findrev"
    /\ \/ /\ ~ Wants(b, "reverse") \/ portal[RevRef(b)] # Free
          /\ Goto(b, SubnetDone(b, build[b]))
       \/ /\ Wants(b, "reverse") /\ portal[RevRef(b)] = Free
          /\ Goto(b, [build[b] EXCEPT !.step = "makerev"])
       \/ Wants(b, "reverse") /\ Fails(b)
    /\ UNCHANGED <<portal, tag, down, unanswered>>

MakeReverseZone(b) ==
    /\ build[b].step = "makerev"
    /\ Answered(b, RevRef(b), SubnetDone(b, build[b])) \/ Unmade(b, RevRef(b))
    /\ UNCHANGED <<tag, down>>

FindZone(b) ==
    /\ build[b].step = "findzone"
    /\ \/ portal[Zone(build[b].site)] # Free /\ Goto(b, [build[b] EXCEPT !.step = "host"])
       \/ portal[Zone(build[b].site)] = Free /\ Goto(b, [build[b] EXCEPT !.step = "makezone"])
       \/ Fails(b)
    /\ UNCHANGED <<portal, tag, down, unanswered>>

\* A forward zone without an ID ends the build: hosts would be bound to none.
MakeZone(b) ==
    LET ref == Zone(build[b].site) IN
    /\ build[b].step = "makezone"
    /\ \/ /\ Makes(b, ref) /\ UNCHANGED unanswered
          /\ \/ Goto(b, [build[b] EXCEPT !.step = "host", !.made = @ \cup {<<ref, b>>}])
             \/ GoWrong(b, [build[b] EXCEPT !.step = "rollback", !.unknown = @ \cup {<<ref, b>>}])
       \/ Unmade(b, ref)
    /\ UNCHANGED <<tag, down>>

HostDone(b) ==
    IF build[b].i < Plans(b) THEN [build[b] EXCEPT !.i = @ + 1]
    ELSE [Fresh EXCEPT !.step = "built", !.site = build[b].site]

\* One host: none wanted or one that was already there (409), or it is made.
CreateHost(b) ==
    LET ref == Host(build[b].site, build[b].i) IN
    /\ build[b].step = "host"
    /\ \/ /\ ~ Wants(b, "host") \/ portal[ref] # Free
          /\ Goto(b, HostDone(b)) /\ UNCHANGED <<portal, unanswered>>
       \/ Wants(b, "host") /\ Answered(b, ref, HostDone(b))
       \/ Wants(b, "host") /\ Errs(b, ref)
    /\ UNCHANGED <<tag, down>>

-----------------------------------------------------------------------------
\* rollback: hosts, the forward zone, reverse zones, ranges, subnets.

UndoRank(id) == CASE id[1][1] = "host" -> 1
                  [] id[1][1] = "zone" /\ id[1][2] \in Sites -> 2
                  [] id[1][1] = "zone" -> 3
                  [] id[1][1] = "range" -> 4
                  [] id[1][1] = "subnet" -> 5

ToUndo(b) == build[b].made \cup build[b].unknown
NextToUndo(b, id) == id \in ToUndo(b) /\ \A o \in ToUndo(b) : UndoRank(id) <= UndoRank(o)

\* One DELETE by ID: 404 if it is not there, and it may be done without an answer.
DeleteDone(id) == Exists(id) /\ Erase(id[1])
DeleteFails(id) ==
    \/ ~ Exists(id) /\ Right /\ UNCHANGED <<portal, tag>>
    \/ Wrong /\ (DeleteDone(id) \/ UNCHANGED <<portal, tag>>)

Undo(b, id) ==
    LET rest == [build[b] EXCEPT !.made = @ \ {id}, !.unknown = @ \ {id}]
        left == [rest EXCEPT !.residual = @ \cup {id}]
    IN
    /\ build[b].step = "rollback" /\ NextToUndo(b, id)
    /\ \/ id \in build[b].unknown /\ Goto(b, left) /\ UNCHANGED <<portal, tag>>
       \/ id \in build[b].made /\ DeleteDone(id) /\ Goto(b, rest)
       \/ id \in build[b].made /\ DeleteFails(id) /\ build' = [build EXCEPT ![b] = left]
    /\ UNCHANGED <<down, unanswered>>

RolledBack(b) ==
    /\ build[b].step = "rollback" /\ ToUndo(b) = {}
    /\ Goto(b, [build[b] EXCEPT !.step = "failed"])
    /\ UNCHANGED <<portal, tag, down, unanswered>>

-----------------------------------------------------------------------------
\* A teardown: plan, record, delete; the first failed delete ends it.

There == {r \in Refs : portal[r] # Free}
IdOf(ref) == <<ref, portal[ref]>>
RangesOf(s) ==      \* ranges carry their site's tag from their creation
    {n \in Slots : portal[DhcpRange(n)] \in Builders /\ build[portal[DhcpRange(n)]].site = s}

\* What the reads find: one entry per subnet for its reverse zone, whoever
\* made it, so a zone two subnets share is planned twice.
Plan(s) ==
    {<<"zone", IdOf(r)>> : r \in {Zone(s)} \cap There}
    \cup {<<"range", IdOf(DhcpRange(n))>> : n \in RangesOf(s)}
    \cup {<<"reverse", IdOf(Zone(RevOf[n])), n>> :
            n \in {m \in TaggedSlots(s) : Zone(RevOf[m]) \in There}}
    \cup {<<"subnet", IdOf(Subnet(n))>> : n \in TaggedSlots(s)}
    \cup {<<"host", IdOf(r)>> : r \in Hosts(s) \cap There}

Planned(todo) == {e[2] : e \in todo}

\* History: the builds a teardown has to account for are those it finds
\* complete, and that no teardown was started into while they ran.
BuiltOf(s) == {b \in Builders : build[b].step = "built" /\ build[b].site = s}
UnderWay(s) == {b \in Builders : build[b].step # "built" /\ build[b].site = s}
TornInto == UNION {down[t].amid : t \in Teardowns}

StartTeardown(t, s) ==
    /\ \/ down[t].step = "idle"
       \/ down[t].step = "incomplete" /\ down[t].site = s
    /\ Right /\ down' = [down EXCEPT ![t] = [
            step |-> "record", site |-> s, todo |-> Plan(s), record |-> {},
            saw |-> IF down[t].step = "idle" THEN BuiltOf(s) \ TornInto ELSE down[t].saw,
            amid |-> down[t].amid \cup UnderWay(s)]]
    /\ UNCHANGED <<portal, tag, build, unanswered>>

\* The mutant: a record that cannot be written is a warning.
WriteRecordOrWarn(t) ==
    /\ down[t].step = "record"
    /\ Right /\ \E r \in {{}, Planned(down[t].todo)} :
         down' = [down EXCEPT ![t].step = "delete", ![t].record = r]
    /\ UNCHANGED <<portal, tag, build, unanswered>>

WriteRecord(t) ==
    /\ down[t].step = "record"
    /\ \/ Right /\ down' = [down EXCEPT ![t].step = "delete", ![t].record = Planned(down[t].todo)]
       \/ Wrong /\ down' = [down EXCEPT ![t].step = "incomplete", ![t].todo = {}]
    /\ UNCHANGED <<portal, tag, build, unanswered>>

\* The mutant: subnets go before the reverse zones that are found through them.
DownRankSubnetsFirst(e) ==
    CASE e[1] = "zone" -> 1 [] e[1] = "range" -> 2 [] e[1] = "reverse" -> 4
      [] e[1] = "subnet" -> 3 [] e[1] = "host" -> 5

DownRank(e) ==
    CASE e[1] = "zone" -> 1 [] e[1] = "range" -> 2 [] e[1] = "reverse" -> 3
      [] e[1] = "subnet" -> 4 [] e[1] = "host" -> 5

NextToDelete(t, e) ==
    /\ down[t].step = "delete" /\ e \in down[t].todo
    /\ \A o \in down[t].todo : DownRank(e) <= DownRank(o)

TakeDown(t, e) ==
    /\ NextToDelete(t, e)
    /\ \/ DeleteDone(e[2]) /\ Right /\ down' = [down EXCEPT ![t].todo = @ \ {e}]
       \/ DeleteFails(e[2]) /\ down' = [down EXCEPT ![t].step = "incomplete", ![t].todo = {}, ![t].record = {}]
    /\ UNCHANGED <<build, unanswered>>

TakenDown(t) ==
    /\ down[t].step = "delete" /\ down[t].todo = {}
    /\ Right /\ down' = [down EXCEPT ![t].step = "done", ![t].record = {}]
    /\ UNCHANGED <<portal, tag, build, unanswered>>

BuildStep(b) ==
    \/ \E s \in Sites : StartBuild(b, s)
    \/ CheckSite(b) \/ CreateSubnet(b) \/ TagSubnet(b) \/ CreateRange(b)
    \/ FindReverseZone(b) \/ MakeReverseZone(b) \/ FindZone(b) \/ MakeZone(b) \/ CreateHost(b)
    \/ \E id \in ToUndo(b) : Undo(b, id)
    \/ RolledBack(b)

TeardownStep(t) ==
    \/ \E s \in Sites : StartTeardown(t, s)
    \/ WriteRecord(t) \/ TakenDown(t)
    \/ \E e \in down[t].todo : TakeDown(t, e)

Next == (\E b \in Builders : BuildStep(b)) \/ (\E t \in Teardowns : TeardownStep(t))
Spec == Init /\ [][Next]_vars

-----------------------------------------------------------------------------
\* Every variable keeps its type, and a build's record only ever names objects
\* it has made.
Builds == [step : BuildSteps, site : Sites \cup {NoSite}, i : Nat \ {0}, slot : Slots \cup {NoSlot},
           made : SUBSET Ids, unknown : SUBSET Ids, residual : SUBSET Ids]
Entries == ({"zone", "range", "subnet", "host"} \X Ids) \cup ({"reverse"} \X Ids \X Slots)
Downs == [step : {"idle", "record", "delete", "incomplete", "done"}, site : Sites \cup {NoSite},
          todo : SUBSET Entries, record : SUBSET Ids, saw : SUBSET Builders, amid : SUBSET Builders]
ProvisionTypeOK ==
    /\ portal \in [Refs -> Owners] /\ tag \in [Slots -> Sites \cup {NoSite}]
    /\ build \in [Builders -> Builds] /\ down \in [Teardowns -> Downs]
    /\ wrong \in 0 .. MaxWrong /\ unanswered \subseteq Ids
    /\ \A b \in Builders :
           build[b].made \cup build[b].unknown \cup build[b].residual \subseteq Refs \X {b}

Gone(r) == portal[r] # Free /\ portal'[r] = Free
\* What a step deletes by ID: not the ranges that go with their network.
Deleted == {r \in Refs : Gone(r)} \ {DhcpRange(n) : n \in {m \in Slots : Gone(Subnet(m))}}

\* A build that failed has undone, or names as left over, everything it made
\* and heard back about ("nothing could ever find it again", createSubnet).
FailedBuildAccounts ==
    \A b \in Builders : build[b].step = "failed" =>
        \A r \in Refs : portal[r] = b => <<r, b>> \in build[b].residual \cup unanswered

\* A rollback deletes nothing another build or the customer made: a reused
\* zone, a host that was already there (createReverseZone, rollback).
RollbackTakesOnlyItsOwn ==
    [][\A b \in Builders : build'[b] # build[b] =>
         \A r \in Deleted : portal[r] = b]_vars

\* A site that was built whole can be found again by its tag, which is how a
\* teardown finds it.
BuiltSitesAreTagged ==
    \A b \in Builders : build[b].step = "built" =>
        \A n \in Slots : portal[Subnet(n)] = b => tag[n] = build[b].site

\* A teardown that reports success leaves nothing of the builds that were
\* complete when it was first started, over its attempts and whatever other
\* teardowns do; a build that was torn into while it ran can leave a reverse
\* zone that no subnet leads to any more.
TeardownLeavesNothing ==
    \A t \in Teardowns : down[t].step = "done" =>
        \A b \in down[t].saw : \A r \in Refs : portal[r] # b

\* "A failure to record STOPS the teardown": what a teardown deletes is in the
\* record this attempt wrote.
NothingDeletedUnrecorded ==
    [][\A t \in Teardowns : down'[t] # down[t] =>
         \A r \in Deleted : IdOf(r) \in down[t].record]_vars

\* "Nothing else is touched" (docs/TABS.md): a teardown deletes only what the
\* builds of its own site made.
TeardownTouchesOnlyItsSite ==
    [][\A t \in Teardowns : down'[t] # down[t] =>
         \A r \in Deleted : portal[r] \in Builders /\ build[portal[r]].site = down[t].site]_vars

\* BuildsAccount: a failed build names what it left, a built site is tagged,
\* and a teardown that says it is done left nothing (site.go, decommission.go).
BuildsAccount ==
    ProvisionTypeOK /\ FailedBuildAccounts /\ BuiltSitesAreTagged /\ TeardownLeavesNothing

\* DeletesAreOwnAndRecorded: a rollback deletes only what its build made, and a
\* teardown only what it recorded first (site.go rollback, decommission.go
\* recordPlan).
DeletesAreOwnAndRecorded == RollbackTakesOnlyItsOwn /\ NothingDeletedUnrecorded
=============================================================================
