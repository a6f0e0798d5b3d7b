-------------------------- MODULE ProvisionProofs --------------------------
(***************************************************************************)
(* Theorems about Provision, for any builds, teardowns, templates and      *)
(* bounds: a failed build accounts for what it made, a built site can be   *)
(* found by its tag, a teardown that says it is done left nothing, a       *)
(* rollback takes only its own and a teardown only what it recorded.       *)
(*                                                                         *)
(* They rest on what a build can have made at each step, and on how a      *)
(* reverse zone is found again: through a subnet of the build that made    *)
(* it, which a teardown deletes only after the zone.  That fails for a     *)
(* build that a teardown was started into while it ran (TornInto).         *)
(*                                                                         *)
(* And, in the second half, about AuditLog, for any keys and bounds: a log *)
(* that only the server wrote is not accused, and a log that is called     *)
(* intact holds what its seal was made of.  The first rests on every       *)
(* sealed head being of a prefix of the file as long as nobody else wrote  *)
(* it.  The second holds whoever wrote it: an entry that is still what it  *)
(* was hashed with is the same wherever its id occurs, so the chain        *)
(* carries the last sealed id back to the first entry.                     *)
(***************************************************************************)
EXTENDS Provision, AuditLog, SequenceTheorems, WellFoundedInduction, TLAPS

OnSubnet == {"tag", "range", "findrev", "makerev"}
OnTemplate == {"check", "subnet", "findzone", "makezone", "host"} \cup OnSubnet
OwnsNothing == {"idle", "check", "skipped"}

(* What a build holds where it is: its site, its place in the template and *)
(* the subnet it is at.                                                    *)
BuildFits(k) ==
    /\ k.step # "idle" => k.site \in Sites
    /\ k.step \in OnTemplate => k.i \in DOMAIN Template[k.site]
    /\ k.step \in OnSubnet => k.slot \in Slots
    /\ k.step \in OwnsNothing \cup {"failed"} => k.made = {} /\ k.unknown = {}

(* The objects a build of a site can have made.                            *)
RefsOf(s) == {Subnet(n) : n \in Slots} \cup {DhcpRange(n) : n \in Slots}
             \cup {Zone(z) : z \in RevZones \cup {s}} \cup Hosts(s)

(* What a build made is of its site and, until the site is complete, in    *)
(* its lists or lost with an answer.                                       *)
Accounted(b) ==
    \A r \in Refs : portal[r] = b =>
        /\ build[b].step \notin OwnsNothing /\ r \in RefsOf(build[b].site)
        /\ build[b].step # "built" =>
               <<r, b>> \in build[b].made \cup build[b].unknown \cup build[b].residual
                            \cup unanswered

(* A subnet's tag is the site of the build that made it; only the one just *)
(* made has none, as long as the build has not failed.                     *)
TagsFit ==
    \A n \in Slots :
        /\ portal[Subnet(n)] \in Builders \cup {Free}
        /\ portal[Subnet(n)] = Free => tag[n] = NoSite
        /\ \A b \in Builders : portal[Subnet(n)] = b =>
               \/ tag[n] = build[b].site
               \/ tag[n] = NoSite /\ build[b].step \in {"rollback", "failed"}
               \/ tag[n] = NoSite /\ build[b].step = "tag" /\ build[b].slot = n

(* A build that has not failed, and that no teardown was started into,     *)
(* still has the subnet it is at, and one for each reverse zone it made.   *)
Sound(b) == build[b].step \notin {"rollback", "failed"} /\ b \notin TornInto
LeadsTo(b, n, z) == RevOf[n] = z /\ portal[Subnet(n)] = b
Findable(b) ==
    Sound(b) =>
        /\ build[b].step \in OnSubnet => portal[Subnet(build[b].slot)] = b
        /\ \A z \in RevZones : portal[Zone(z)] = b => \E n \in Slots : LeadsTo(b, n, z)

(* A teardown's plan: recorded before it is carried out; it takes a subnet *)
(* of a sound build only if the build was complete and its reverse zones   *)
(* go first.                                                               *)
KindFits(e) == e[2][1][1] = "subnet" => e[1] = "subnet"
TakesZones(t, b) ==
    \A z \in RevZones : portal[Zone(z)] = b =>
        \E o \in down[t].todo : o[1] = "reverse" /\ o[2] = <<Zone(z), b>>
PlanFits(t) ==
    /\ down[t].step = "delete" => Planned(down[t].todo) \subseteq down[t].record
    /\ down[t].step \notin {"record", "delete"} => down[t].todo = {}
    /\ \A e \in down[t].todo : KindFits(e)
    /\ \A b \in Builders, n \in Slots :
           Sound(b) /\ <<Subnet(n), b>> \in Planned(down[t].todo) =>
               build[b].step = "built" /\ TakesZones(t, b)

(* The builds a teardown has to account for are complete, of its site and  *)
(* sound, and all they still have is in its plan.                          *)
SawFits(t) ==
    \A b \in down[t].saw :
        /\ build[b].step = "built" /\ build[b].site = down[t].site /\ b \notin TornInto
        /\ down[t].step \in {"record", "delete", "done"} =>
               \A r \in Refs : portal[r] = b => <<r, b>> \in Planned(down[t].todo)

ProvisionInv ==
    /\ ProvisionTypeOK
    /\ \A b \in Builders : BuildFits(build[b]) /\ Accounted(b) /\ Findable(b)
    /\ TagsFit
    /\ \A t \in Teardowns : PlanFits(t) /\ SawFits(t)

-----------------------------------------------------------------------------
(* What objects are called, and what a build's record holds.               *)
Lists(k) == k.made \cup k.unknown \cup k.residual

LEMMA RefShapes ==
    /\ \A n \in Slots : /\ Subnet(n) \in Refs /\ Subnet(n)[1] = "subnet"
                        /\ DhcpRange(n) \in Refs /\ DhcpRange(n)[1] = "range"
                        /\ \A m \in Slots : Subnet(n) = Subnet(m) => n = m
    /\ \A z \in Sites \cup RevZones : /\ Zone(z) \in Refs /\ Zone(z)[1] = "zone"
                                      /\ \A y \in Sites \cup RevZones : Zone(z) = Zone(y) => z = y
    /\ \A s \in Sites : Hosts(s) \subseteq Refs /\ \A h \in Hosts(s) : h[1] = "host"
    /\ \A r \in Refs : r[1] = "subnet" => \E n \in Slots : r = Subnet(n)
    /\ \A n \in Slots : Subnet(n)[2] = n
    /\ \A s \in Sites : \A i \in DOMAIN Template[s] : Host(s, i) \in Hosts(s)
  BY DEF Refs, Subnet, DhcpRange, Zone, Hosts, Host

LEMMA FieldsOf ==
    ASSUME NEW k \in Builds
    PROVE  /\ k.step \in BuildSteps /\ k.site \in Sites \cup {NoSite} /\ k.i \in Nat \ {0}
           /\ k.slot \in Slots \cup {NoSlot}
           /\ k.made \in SUBSET Ids /\ k.unknown \in SUBSET Ids /\ k.residual \in SUBSET Ids
  BY DEF Builds

Stepped(k, s) == [k EXCEPT !.step = s]
Turned(k, s, i, n) == [k EXCEPT !.step = s, !.i = i, !.slot = n]
Placed(k, n, m) == [k EXCEPT !.step = "tag", !.slot = n, !.made = m]
WithMade(k, s, m) == [k EXCEPT !.step = s, !.made = m]
WithUnknown(k, s, m) == [k EXCEPT !.step = s, !.unknown = m]
WithLists(k, m, u) == [k EXCEPT !.made = m, !.unknown = u]
WithResidual(k, m) == [k EXCEPT !.residual = m]
Begun(s, t) == [Fresh EXCEPT !.step = s, !.site = t]

LEMMA StepOf ==
    ASSUME NEW k \in Builds, NEW s \in BuildSteps
    PROVE  LET x == Stepped(k, s)
           IN  /\ x \in Builds /\ x.step = s /\ x.site = k.site /\ x.i = k.i /\ x.slot = k.slot
               /\ x.made = k.made /\ x.unknown = k.unknown /\ x.residual = k.residual
  BY DEF Builds, Stepped

LEMMA TurnOf ==
    ASSUME NEW k \in Builds, NEW s \in BuildSteps, NEW i \in Nat \ {0}, NEW n \in Slots \cup {NoSlot}
    PROVE  LET x == Turned(k, s, i, n)
           IN  /\ x \in Builds /\ x.step = s /\ x.site = k.site /\ x.i = i /\ x.slot = n
               /\ x.made = k.made /\ x.unknown = k.unknown /\ x.residual = k.residual
  BY DEF Builds, Turned

LEMMA NextOf ==
    ASSUME NEW k \in Builds, NEW i \in Nat \ {0}
    PROVE  LET x == [k EXCEPT !.i = i]
           IN  /\ x \in Builds /\ x.step = k.step /\ x.site = k.site /\ x.i = i /\ x.slot = k.slot
               /\ x.made = k.made /\ x.unknown = k.unknown /\ x.residual = k.residual
  BY DEF Builds

LEMMA MadeOf ==
    ASSUME NEW k \in Builds, NEW m \in SUBSET Ids
    PROVE  LET x == [k EXCEPT !.made = m]
           IN  /\ x \in Builds /\ x.step = k.step /\ x.site = k.site /\ x.i = k.i /\ x.slot = k.slot
               /\ x.made = m /\ x.unknown = k.unknown /\ x.residual = k.residual
  BY DEF Builds

LEMMA UnknownOf ==
    ASSUME NEW k \in Builds, NEW m \in SUBSET Ids
    PROVE  LET x == [k EXCEPT !.unknown = m]
           IN  /\ x \in Builds /\ x.step = k.step /\ x.site = k.site /\ x.i = k.i /\ x.slot = k.slot
               /\ x.made = k.made /\ x.unknown = m /\ x.residual = k.residual
  BY DEF Builds

LEMMA PlacedOf ==
    ASSUME NEW k \in Builds, NEW n \in Slots, NEW m \in SUBSET Ids
    PROVE  LET x == Placed(k, n, m)
           IN  /\ x \in Builds /\ x.step = "tag" /\ x.site = k.site /\ x.i = k.i /\ x.slot = n
               /\ x.made = m /\ x.unknown = k.unknown /\ x.residual = k.residual
  <1>1. "tag" \in BuildSteps
    BY DEF BuildSteps
  <1> QED
    BY <1>1 DEF Builds, Placed

LEMMA WithMadeOf ==
    ASSUME NEW k \in Builds, NEW s \in BuildSteps, NEW m \in SUBSET Ids
    PROVE  LET x == WithMade(k, s, m)
           IN  /\ x \in Builds /\ x.step = s /\ x.site = k.site /\ x.i = k.i /\ x.slot = k.slot
               /\ x.made = m /\ x.unknown = k.unknown /\ x.residual = k.residual
  BY DEF Builds, WithMade

LEMMA WithUnknownOf ==
    ASSUME NEW k \in Builds, NEW s \in BuildSteps, NEW m \in SUBSET Ids
    PROVE  LET x == WithUnknown(k, s, m)
           IN  /\ x \in Builds /\ x.step = s /\ x.site = k.site /\ x.i = k.i /\ x.slot = k.slot
               /\ x.made = k.made /\ x.unknown = m /\ x.residual = k.residual
  BY DEF Builds, WithUnknown

LEMMA WithListsOf ==
    ASSUME NEW k \in Builds, NEW m \in SUBSET Ids, NEW u \in SUBSET Ids
    PROVE  LET x == WithLists(k, m, u)
           IN  /\ x \in Builds /\ x.step = k.step /\ x.site = k.site /\ x.i = k.i
               /\ x.slot = k.slot /\ x.made = m /\ x.unknown = u /\ x.residual = k.residual
  BY DEF Builds, WithLists

LEMMA WithResidualOf ==
    ASSUME NEW k \in Builds, NEW m \in SUBSET Ids
    PROVE  LET x == WithResidual(k, m)
           IN  /\ x \in Builds /\ x.step = k.step /\ x.site = k.site /\ x.i = k.i
               /\ x.slot = k.slot /\ x.made = k.made /\ x.unknown = k.unknown
               /\ x.residual = m
  BY DEF Builds, WithResidual

LEMMA FreshOf ==
    ASSUME NEW s \in BuildSteps, NEW t \in Sites \cup {NoSite}
    PROVE  /\ Fresh \in Builds /\ Fresh.step = "idle" /\ Fresh.site = NoSite
           /\ Fresh.made = {} /\ Fresh.unknown = {} /\ Fresh.residual = {}
           /\ LET x == Begun(s, t)
              IN  /\ x \in Builds /\ x.step = s /\ x.site = t /\ x.i = 1 /\ x.slot = NoSlot
                  /\ x.made = {} /\ x.unknown = {} /\ x.residual = {}
  <1>1. "idle" \in BuildSteps /\ 1 \in Nat \ {0} /\ {} \in SUBSET Ids
    BY DEF BuildSteps
  <1>2. /\ Fresh \in Builds /\ Fresh.step = "idle" /\ Fresh.site = NoSite
        /\ Fresh.i = 1 /\ Fresh.slot = NoSlot
        /\ Fresh.made = {} /\ Fresh.unknown = {} /\ Fresh.residual = {}
    BY <1>1 DEF Fresh, Builds
  <1>3. \A k \in Builds :
           LET x == [k EXCEPT !.step = s, !.site = t]
           IN  /\ x \in Builds /\ x.step = s /\ x.site = t /\ x.i = k.i /\ x.slot = k.slot
               /\ x.made = k.made /\ x.unknown = k.unknown /\ x.residual = k.residual
    BY DEF Builds
  <1> QED
    BY <1>2, <1>3 DEF Begun

-----------------------------------------------------------------------------
(* A step of one build: what it must leave as it is, and what it owes of   *)
(* its own, for the invariant to hold after it.                            *)
Becomes(b, k) ==
    /\ build' = [build EXCEPT ![b] = k] /\ k \in Builds /\ BuildFits(k)
    /\ Lists(k) \subseteq Refs \X {b}
    /\ build[b].step # "built"
    /\ down' = down /\ wrong' \in 0 .. MaxWrong
    /\ unanswered \subseteq unanswered' /\ unanswered' \subseteq Ids

SubnetMoves(b, k, n) ==
    \/ portal'[Subnet(n)] = portal[Subnet(n)] /\ portal[Subnet(n)] # b /\ tag'[n] = tag[n]
    \/ portal'[Subnet(n)] = Free /\ portal[Subnet(n)] \in {b, Free} /\ tag'[n] = NoSite
    \/ /\ portal'[Subnet(n)] = b /\ portal[Subnet(n)] \in {b, Free}
       /\ \/ tag'[n] = k.site
          \/ tag'[n] = NoSite /\ k.step \in {"rollback", "failed"}
          \/ tag'[n] = NoSite /\ k.step = "tag" /\ k.slot = n

OwnAccounted(b, k) ==
    \A r \in Refs : portal'[r] = b =>
        /\ k.step \notin OwnsNothing /\ r \in RefsOf(k.site)
        /\ k.step # "built" => <<r, b>> \in Lists(k) \cup unanswered'

OwnFindable(b, k) ==
    k.step \notin {"rollback", "failed"} /\ b \notin TornInto =>
        /\ build[b].step \notin {"rollback", "failed"}
        /\ k.step \in OnSubnet => portal'[Subnet(k.slot)] = b
        /\ \A z \in RevZones : portal'[Zone(z)] = b =>
               \E n \in Slots : RevOf[n] = z /\ portal'[Subnet(n)] = b

BuildMoves(b, k) ==
    /\ Becomes(b, k)
    /\ portal' \in [Refs -> Owners] /\ tag' \in [Slots -> Sites \cup {NoSite}]
    /\ \A r \in Refs, c \in Builders : portal'[r] = c => portal[r] = c \/ c = b
    /\ \A n \in Slots : SubnetMoves(b, k, n)
    /\ OwnAccounted(b, k) /\ OwnFindable(b, k)

LEMMA OwnersDiffer ==
    /\ Customer \notin Builders /\ Free \notin Builders /\ Customer # Free
    /\ Customer \in Owners /\ Free \in Owners /\ Builders \subseteq Owners
  BY ProvisionAssumption DEF Owners

LEMMA BuildMovesKeep ==
    ASSUME ProvisionInv, NEW b \in Builders, NEW k, BuildMoves(b, k)
    PROVE  ProvisionInv'
  <1> USE DEF BuildMoves, Becomes
  <1>1. /\ build \in [Builders -> Builds] /\ build' \in [Builders -> Builds]
        /\ build'[b] = k /\ \A c \in Builders \ {b} : build'[c] = build[c]
    BY DEF ProvisionInv, ProvisionTypeOK
  <1>2. \A t \in Teardowns : down'[t] = down[t]
    OBVIOUS
  <1>3. TornInto' = TornInto
    BY DEF TornInto
  <1>4. ProvisionTypeOK'
    <2>1. \A c \in Builders :
             build'[c].made \cup build'[c].unknown \cup build'[c].residual \subseteq Refs \X {c}
      BY <1>1 DEF ProvisionInv, ProvisionTypeOK, Lists
    <2> QED
      BY <1>1, <2>1 DEF ProvisionInv, ProvisionTypeOK
  <1>5. \A c \in Builders : BuildFits(build[c])'
    BY <1>1 DEF ProvisionInv, BuildFits
  <1>6. \A c \in Builders : Accounted(c)'
    <2> SUFFICES ASSUME NEW c \in Builders, NEW r \in Refs, portal'[r] = c
                 PROVE  /\ build'[c].step \notin OwnsNothing /\ r \in RefsOf(build'[c].site)
                        /\ build'[c].step # "built" =>
                              <<r, c>> \in build'[c].made \cup build'[c].unknown
                                           \cup build'[c].residual \cup unanswered'
      BY DEF Accounted, RefsOf, Hosts, Subnet, DhcpRange, Zone, Host, OwnsNothing
    <2>1. CASE c = b
      BY <1>1, <2>1 DEF OwnAccounted, Lists
    <2>2. CASE c # b
      <3>1. portal[r] = c /\ build'[c] = build[c]
        BY <1>1, <2>2
      <3>2. Accounted(c)
        BY DEF ProvisionInv
      <3> QED
        BY <3>1, <3>2 DEF Accounted
    <2> QED
      BY <2>1, <2>2
  <1>7. \A c \in Builders : Findable(c)'
    <2> SUFFICES ASSUME NEW c \in Builders, build'[c].step \notin {"rollback", "failed"},
                        c \notin TornInto
                 PROVE  /\ build'[c].step \in OnSubnet => portal'[Subnet(build'[c].slot)] = c
                        /\ \A z \in RevZones : portal'[Zone(z)] = c =>
                               \E n \in Slots : RevOf[n] = z /\ portal'[Subnet(n)] = c
      BY <1>3 DEF Findable, Sound, LeadsTo, OnSubnet, Subnet, Zone
    <2>1. CASE c = b
      BY <1>1, <2>1 DEF OwnFindable
    <2>2. CASE c # b
      <3>1. build'[c] = build[c] /\ Findable(c) /\ Sound(c) /\ BuildFits(build[c])
        BY <1>1, <2>2 DEF ProvisionInv, Sound
      <3>2. \A n \in Slots : portal[Subnet(n)] = c => portal'[Subnet(n)] = c
        BY <2>2, OwnersDiffer DEF SubnetMoves
      <3>3. \A z \in RevZones : portal'[Zone(z)] = c => portal[Zone(z)] = c
        BY <2>2, RefShapes
      <3>4. build[c].step \in OnSubnet => build[c].slot \in Slots
        BY <3>1 DEF BuildFits
      <3> QED
        BY <3>1, <3>2, <3>3, <3>4 DEF Findable, LeadsTo
    <2> QED
      BY <2>1, <2>2
  <1>8. TagsFit'
    <2> SUFFICES ASSUME NEW n \in Slots
                 PROVE  /\ portal'[Subnet(n)] \in Builders \cup {Free}
                        /\ portal'[Subnet(n)] = Free => tag'[n] = NoSite
                        /\ \A c \in Builders : portal'[Subnet(n)] = c =>
                             \/ tag'[n] = build'[c].site
                             \/ tag'[n] = NoSite /\ build'[c].step \in {"rollback", "failed"}
                             \/ tag'[n] = NoSite /\ build'[c].step = "tag" /\ build'[c].slot = n
      BY DEF TagsFit, Subnet
    <2>1. SubnetMoves(b, k, n)
      OBVIOUS
    <2>2. CASE portal'[Subnet(n)] = portal[Subnet(n)] /\ portal[Subnet(n)] # b /\ tag'[n] = tag[n]
      BY <1>1, <2>2 DEF ProvisionInv, TagsFit
    <2>3. CASE portal'[Subnet(n)] = Free /\ tag'[n] = NoSite
      BY <2>3, OwnersDiffer
    <2>4. CASE /\ portal'[Subnet(n)] = b
               /\ \/ tag'[n] = k.site
                  \/ tag'[n] = NoSite /\ k.step \in {"rollback", "failed"}
                  \/ tag'[n] = NoSite /\ k.step = "tag" /\ k.slot = n
      BY <1>1, <2>4, OwnersDiffer
    <2> QED
      BY <2>1, <2>2, <2>3, <2>4 DEF SubnetMoves
  <1>9. \A t \in Teardowns : PlanFits(t)'
    <2> SUFFICES ASSUME NEW t \in Teardowns PROVE PlanFits(t)'
      OBVIOUS
    <2>1. PlanFits(t) /\ down'[t] = down[t]
      BY <1>2 DEF ProvisionInv
    <2>2. ASSUME NEW c \in Builders, NEW n \in Slots,
                 build'[c].step \notin {"rollback", "failed"}, c \notin TornInto,
                 <<Subnet(n), c>> \in Planned(down[t].todo)
          PROVE  /\ build'[c].step = "built"
                 /\ \A z \in RevZones : portal'[Zone(z)] = c =>
                        \E o \in down[t].todo : o[1] = "reverse" /\ o[2] = <<Zone(z), c>>
      <3>1. Sound(c)
        BY <1>1, <2>2 DEF Sound, OwnFindable
      <3>2. build[c].step = "built" /\ TakesZones(t, c)
        BY <2>1, <2>2, <3>1 DEF PlanFits
      <3>3. c # b /\ build'[c] = build[c]
        BY <1>1, <3>2
      <3>4. \A z \in RevZones : portal'[Zone(z)] = c => portal[Zone(z)] = c
        BY <3>3, RefShapes
      <3> QED
        BY <3>2, <3>3, <3>4 DEF TakesZones
    <2> QED
      BY <1>3, <2>1, <2>2 DEF PlanFits, Sound, TakesZones, Planned, KindFits, Subnet, Zone
  <1>10. \A t \in Teardowns : SawFits(t)'
    <2> SUFFICES ASSUME NEW t \in Teardowns, NEW c \in down[t].saw
                 PROVE  /\ build'[c].step = "built" /\ build'[c].site = down[t].site
                        /\ c \notin TornInto
                        /\ down[t].step \in {"record", "delete", "done"} =>
                               \A r \in Refs : portal'[r] = c =>
                                   <<r, c>> \in Planned(down[t].todo)
      BY <1>2, <1>3 DEF SawFits, Planned
    <2>1. SawFits(t) /\ c \in Builders
      BY DEF ProvisionInv, ProvisionTypeOK, Downs
    <2>2. c # b /\ build'[c] = build[c] /\ build[c].step = "built"
      BY <1>1, <2>1 DEF SawFits
    <2>3. \A r \in Refs : portal'[r] = c => portal[r] = c
      BY <2>1, <2>2
    <2> QED
      BY <2>1, <2>2, <2>3 DEF SawFits
  <1> QED
    BY <1>4, <1>5, <1>6, <1>7, <1>8, <1>9, <1>10 DEF ProvisionInv

(* A step that makes nothing and deletes nothing.                          *)
Carries(b, k) ==
    build[b].step \notin OwnsNothing =>
        /\ k.step \notin OwnsNothing /\ k.site = build[b].site
        /\ k.step # "built" => Lists(build[b]) \subseteq Lists(k)
GoesOn(b, k) ==
    k.step \notin {"rollback", "failed"} =>
        /\ build[b].step \notin {"rollback", "failed"}
        /\ k.step \in OnSubnet \ {"tag"} => build[b].step \in OnSubnet /\ k.slot = build[b].slot
QuietStep(b, k) ==
    /\ Becomes(b, k) /\ Carries(b, k) /\ GoesOn(b, k)
    /\ k.step \notin {"rollback", "failed"} => build[b].step # "tag" /\ k.step # "tag"
    /\ UNCHANGED <<portal, tag, unanswered>>

LEMMA Owned ==
    ASSUME ProvisionInv, NEW b \in Builders
    PROVE  /\ build[b] \in Builds /\ BuildFits(build[b])
           /\ Accounted(b) /\ Findable(b)
           /\ Lists(build[b]) \subseteq Refs \X {b}
           /\ portal \in [Refs -> Owners] /\ tag \in [Slots -> Sites \cup {NoSite}]
           /\ build \in [Builders -> Builds] /\ unanswered \subseteq Ids
           /\ wrong \in 0 .. MaxWrong
  BY DEF ProvisionInv, ProvisionTypeOK, Lists

LEMMA QuietKeeps ==
    ASSUME ProvisionInv, NEW b \in Builders, NEW k, QuietStep(b, k)
    PROVE  ProvisionInv'
  <1> USE DEF QuietStep, Becomes
  <1>1. \A n \in Slots : SubnetMoves(b, k, n)
    <2> SUFFICES ASSUME NEW n \in Slots, portal[Subnet(n)] = b PROVE SubnetMoves(b, k, n)
      BY DEF SubnetMoves
    <2>1. Subnet(n) \in Refs
      BY RefShapes
    <2>2. build[b].step \notin OwnsNothing
      BY <2>1, Owned DEF Accounted
    <2>3. \/ tag[n] = build[b].site
          \/ tag[n] = NoSite /\ build[b].step \in {"rollback", "failed"}
          \/ tag[n] = NoSite /\ build[b].step = "tag" /\ build[b].slot = n
      BY DEF ProvisionInv, TagsFit
    <2> QED
      BY <2>2, <2>3 DEF SubnetMoves, Carries, GoesOn
  <1>2. OwnAccounted(b, k)
    BY Owned DEF OwnAccounted, Accounted, Carries, Lists
  <1>3. OwnFindable(b, k)
    <2> SUFFICES ASSUME k.step \notin {"rollback", "failed"}, b \notin TornInto
                 PROVE  /\ build[b].step \notin {"rollback", "failed"}
                        /\ k.step \in OnSubnet => portal[Subnet(k.slot)] = b
                        /\ \A z \in RevZones : portal[Zone(z)] = b =>
                               \E n \in Slots : RevOf[n] = z /\ portal[Subnet(n)] = b
      BY DEF OwnFindable
    <2>1. Sound(b) /\ Findable(b)
      BY Owned DEF Sound, GoesOn
    <2> QED
      BY <2>1 DEF Findable, LeadsTo, GoesOn, Sound
  <1>4. \A r \in Refs, c \in Builders : portal'[r] = c => portal[r] = c \/ c = b
    OBVIOUS
  <1>5. portal' \in [Refs -> Owners] /\ tag' \in [Slots -> Sites \cup {NoSite}]
    BY Owned
  <1>6. BuildMoves(b, k)
    BY <1>1, <1>2, <1>3, <1>4, <1>5 DEF BuildMoves
  <1> QED
    BY <1>6, BuildMovesKeep

(* A step that makes one object, and lists it or loses the answer.         *)
MakingStep(b, k, ref) ==
    /\ Becomes(b, k) /\ Carries(b, k) /\ GoesOn(b, k)
    /\ Makes(b, ref) /\ UNCHANGED tag
    /\ build[b].step \notin OwnsNothing \cup {"tag", "rollback", "failed"}
    /\ ref \in RefsOf(build[b].site)
    /\ k.step # "built" => <<ref, b>> \in Lists(k) \cup unanswered'
    /\ k.step \notin {"rollback", "failed"} =>
           /\ k.step = "tag" <=> ref[1] = "subnet"
           /\ k.step = "tag" => ref = Subnet(k.slot)
    /\ \A z \in RevZones : ref = Zone(z) =>
           build[b].step \in OnSubnet /\ z = RevOf[build[b].slot]

LEMMA SiteRefs ==
    ASSUME NEW s \in Sites
    PROVE  /\ RefsOf(s) \subseteq Refs
           /\ \A n \in Slots : Subnet(n) \in RefsOf(s) /\ DhcpRange(n) \in RefsOf(s)
           /\ \A z \in RevZones : Zone(z) \in RefsOf(s)
           /\ Zone(s) \in RefsOf(s) /\ Hosts(s) \subseteq RefsOf(s)
  BY RefShapes DEF RefsOf

LEMMA MakingKeeps ==
    ASSUME ProvisionInv, NEW b \in Builders, NEW k, NEW ref, MakingStep(b, k, ref)
    PROVE  ProvisionInv'
  <1> USE DEF MakingStep, Becomes
  <1>1. build[b].site \in Sites /\ ref \in Refs
    BY Owned, SiteRefs DEF BuildFits, OwnsNothing
  <1>2. /\ portal \in [Refs -> Owners] /\ portal[ref] = Free
        /\ portal' \in [Refs -> Owners] /\ portal'[ref] = b
        /\ \A r \in Refs \ {ref} : portal'[r] = portal[r]
    BY <1>1, Owned, OwnersDiffer DEF Makes
  <1>3. \A n \in Slots : SubnetMoves(b, k, n)
    <2> SUFFICES ASSUME NEW n \in Slots PROVE SubnetMoves(b, k, n)
      OBVIOUS
    <2>1. Subnet(n) \in Refs
      BY RefShapes
    <2>2. CASE Subnet(n) = ref
      <3>1. tag[n] = NoSite
        BY <1>2, <2>2 DEF ProvisionInv, TagsFit
      <3>2. k.step \in {"rollback", "failed"} \/ (k.step = "tag" /\ k.slot = n)
        <4> SUFFICES ASSUME k.step \notin {"rollback", "failed"} PROVE k.step = "tag" /\ k.slot = n
          OBVIOUS
        <4>1. k.step = "tag" /\ Subnet(n) = Subnet(k.slot) /\ k.slot \in Slots
          BY <2>2, RefShapes DEF BuildFits, OnSubnet
        <4> QED
          BY <4>1, RefShapes
      <3> QED
        BY <1>2, <2>2, <3>1, <3>2 DEF SubnetMoves
    <2>3. CASE Subnet(n) # ref /\ portal[Subnet(n)] # b
      BY <1>2, <2>1, <2>3 DEF SubnetMoves
    <2>4. CASE Subnet(n) # ref /\ portal[Subnet(n)] = b
      <3>1. tag[n] = build[b].site /\ k.site = build[b].site
        BY <2>4 DEF ProvisionInv, TagsFit, Carries
      <3> QED
        BY <1>2, <2>1, <2>4, <3>1 DEF SubnetMoves
    <2> QED
      BY <2>2, <2>3, <2>4
  <1>4. OwnAccounted(b, k)
    <2> SUFFICES ASSUME NEW r \in Refs, portal'[r] = b
                 PROVE  /\ k.step \notin OwnsNothing /\ r \in RefsOf(k.site)
                        /\ k.step # "built" => <<r, b>> \in Lists(k) \cup unanswered'
      BY DEF OwnAccounted
    <2>1. CASE r = ref
      BY <2>1 DEF Carries
    <2>2. CASE r # ref
      BY <1>2, <2>2, Owned DEF Accounted, Carries, Lists
    <2> QED
      BY <2>1, <2>2
  <1>5. OwnFindable(b, k)
    <2> SUFFICES ASSUME k.step \notin {"rollback", "failed"}, b \notin TornInto
                 PROVE  /\ k.step \in OnSubnet => portal'[Subnet(k.slot)] = b
                        /\ \A z \in RevZones : portal'[Zone(z)] = b =>
                               \E n \in Slots : RevOf[n] = z /\ portal'[Subnet(n)] = b
      BY DEF OwnFindable
    <2>1. Sound(b) /\ Findable(b)
      BY Owned DEF Sound
    <2>2. build[b].step \in OnSubnet =>
             build[b].slot \in Slots /\ portal[Subnet(build[b].slot)] = b
      BY <2>1, Owned DEF Findable, BuildFits
    <2>3. \A n \in Slots : portal[Subnet(n)] = b => portal'[Subnet(n)] = b
      BY <1>2, RefShapes
    <2>4. k.step \in OnSubnet => portal'[Subnet(k.slot)] = b
      BY <1>2, <2>2, <2>3 DEF GoesOn
    <2>5. ASSUME NEW z \in RevZones, portal'[Zone(z)] = b
          PROVE  \E n \in Slots : RevOf[n] = z /\ portal'[Subnet(n)] = b
      <3>1. CASE Zone(z) = ref
        BY <2>2, <2>3, <3>1
      <3>2. CASE Zone(z) # ref
        <4>1. portal[Zone(z)] = b
          BY <1>2, <2>5, <3>2, RefShapes
        <4> QED
          BY <2>1, <2>3, <4>1 DEF Findable, LeadsTo
      <3> QED
        BY <3>1, <3>2
    <2> QED
      BY <2>4, <2>5
  <1>6. \A r \in Refs, c \in Builders : portal'[r] = c => portal[r] = c \/ c = b
    BY <1>2
  <1>7. tag' \in [Slots -> Sites \cup {NoSite}]
    BY Owned
  <1>8. BuildMoves(b, k)
    BY <1>2, <1>3, <1>4, <1>5, <1>6, <1>7 DEF BuildMoves
  <1> QED
    BY <1>8, BuildMovesKeep

(* The subnet just made gets its tag.                                      *)
TagStep(b, k) ==
    /\ Becomes(b, k) /\ Carries(b, k)
    /\ build[b].step = "tag"
    /\ portal[Subnet(build[b].slot)] = b
    /\ \/ k.step = "rollback"
       \/ k.step \in OnSubnet \ {"tag"} /\ k.slot = build[b].slot
    /\ tag' = [tag EXCEPT ![build[b].slot] = build[b].site]
    /\ UNCHANGED <<portal, unanswered>>

LEMMA TagKeeps ==
    ASSUME ProvisionInv, NEW b \in Builders, NEW k, TagStep(b, k)
    PROVE  ProvisionInv'
  <1> USE DEF TagStep, Becomes
  <1> DEFINE m == build[b].slot
  <1>1. m \in Slots /\ build[b].site \in Sites /\ k.site = build[b].site
    BY Owned DEF BuildFits, OnSubnet, Carries, OwnsNothing
  <1>2. \A n \in Slots : SubnetMoves(b, k, n)
    <2> SUFFICES ASSUME NEW n \in Slots PROVE SubnetMoves(b, k, n)
      OBVIOUS
    <2>1. CASE n = m
      BY <1>1, <2>1, Owned DEF SubnetMoves
    <2>2. CASE n # m /\ portal[Subnet(n)] # b
      BY <1>1, <2>2, Owned DEF SubnetMoves
    <2>3. CASE n # m /\ portal[Subnet(n)] = b
      <3>1. tag[n] = build[b].site
        BY <2>3 DEF ProvisionInv, TagsFit
      <3> QED
        BY <1>1, <2>3, <3>1, Owned DEF SubnetMoves
    <2> QED
      BY <2>1, <2>2, <2>3
  <1>3. OwnAccounted(b, k)
    BY Owned DEF OwnAccounted, Accounted, Carries, Lists, OwnsNothing
  <1>4. OwnFindable(b, k)
    BY Owned DEF OwnFindable, Findable, Sound, LeadsTo, OnSubnet
  <1>5. portal' \in [Refs -> Owners] /\ tag' \in [Slots -> Sites \cup {NoSite}]
    BY <1>1, Owned
  <1>6. BuildMoves(b, k)
    BY <1>2, <1>3, <1>4, <1>5 DEF BuildMoves
  <1> QED
    BY <1>6, BuildMovesKeep

(* What a DELETE takes away: the object and, of a subnet, its range.       *)
Erased(ref) ==
    /\ portal' \in [Refs -> Owners] /\ tag' \in [Slots -> Sites \cup {NoSite}]
    /\ portal'[ref] = Free
    /\ \A r \in Refs : portal'[r] = portal[r] \/ portal'[r] = Free
    /\ \A r \in Refs : portal'[r] # portal[r] =>
           r = ref \/ \E n \in Slots : ref = Subnet(n) /\ r = DhcpRange(n)
    /\ \A n \in Slots : Subnet(n) = ref => tag'[n] = NoSite
    /\ \A n \in Slots : Subnet(n) # ref =>
           tag'[n] = tag[n] /\ portal'[Subnet(n)] = portal[Subnet(n)]

LEMMA EraseIsErased ==
    ASSUME portal \in [Refs -> Owners], tag \in [Slots -> Sites \cup {NoSite}],
           NEW ref \in Refs, Erase(ref)
    PROVE  Erased(ref)
  <1>1. /\ portal' = [r \in Refs |-> IF r \in WithContents(ref) THEN Free ELSE portal[r]]
        /\ tag' = [n \in Slots |-> IF ref = Subnet(n) THEN NoSite ELSE tag[n]]
    BY DEF Erase
  <1>2. /\ portal' \in [Refs -> Owners]
        /\ \A r \in Refs : portal'[r] = portal[r] \/ portal'[r] = Free
    BY <1>1, OwnersDiffer
  <1>3. tag' \in [Slots -> Sites \cup {NoSite}]
    BY <1>1
  <1>4. ref \in WithContents(ref)
    BY DEF WithContents
  <1>5. ASSUME NEW r \in WithContents(ref), r # ref
        PROVE  \E n \in Slots : ref = Subnet(n) /\ r = DhcpRange(n)
    BY <1>5, RefShapes DEF WithContents
  <1>6. \A n \in Slots : Subnet(n) # ref => Subnet(n) \notin WithContents(ref)
    BY <1>5, RefShapes
  <1>7. \A n \in Slots : Subnet(n) \in Refs
    BY RefShapes
  <1> HIDE DEF WithContents
  <1> QED
    BY <1>1, <1>2, <1>3, <1>4, <1>5, <1>6, <1>7 DEF Erased

(* A rollback deletes one object of its list.                              *)
ErasingStep(b, k, id) ==
    /\ Becomes(b, k)
    /\ build[b].step = "rollback" /\ k.step = "rollback" /\ k.site = build[b].site
    /\ id \in Refs \X {b} /\ portal[id[1]] = id[2] /\ Erased(id[1])
    /\ Lists(build[b]) \ {id} \subseteq Lists(k)
    /\ UNCHANGED unanswered

LEMMA ErasingKeeps ==
    ASSUME ProvisionInv, NEW b \in Builders, NEW k, NEW id, ErasingStep(b, k, id)
    PROVE  ProvisionInv'
  <1> USE DEF ErasingStep, Becomes
  <1> DEFINE ref == id[1]
  <1>1. ref \in Refs /\ id = <<ref, b>> /\ portal[ref] = b /\ portal'[ref] = Free
    BY DEF Erased
  <1>2. \A n \in Slots : SubnetMoves(b, k, n)
    <2> SUFFICES ASSUME NEW n \in Slots PROVE SubnetMoves(b, k, n)
      OBVIOUS
    <2>1. CASE Subnet(n) = ref
      BY <1>1, <2>1 DEF SubnetMoves, Erased
    <2>2. CASE Subnet(n) # ref
      <3>1. tag'[n] = tag[n] /\ portal'[Subnet(n)] = portal[Subnet(n)]
        BY <2>2 DEF Erased
      <3>2. portal[Subnet(n)] = b => tag[n] \in {build[b].site, NoSite}
        BY DEF ProvisionInv, TagsFit
      <3> QED
        BY <3>1, <3>2 DEF SubnetMoves
    <2> QED
      BY <2>1, <2>2
  <1>3. OwnAccounted(b, k)
    <2> SUFFICES ASSUME NEW r \in Refs, portal'[r] = b
                 PROVE  r \in RefsOf(k.site) /\ <<r, b>> \in Lists(k) \cup unanswered'
      BY DEF OwnAccounted, OwnsNothing
    <2>1. portal[r] = b /\ r # ref
      BY <1>1, OwnersDiffer DEF Erased
    <2>2. <<r, b>> # id
      BY <1>1, <2>1
    <2> QED
      BY <2>1, <2>2, Owned DEF Accounted, Lists
  <1>4. OwnFindable(b, k)
    BY DEF OwnFindable
  <1>5. \A r \in Refs, c \in Builders : portal'[r] = c => portal[r] = c \/ c = b
    BY OwnersDiffer DEF Erased
  <1>6. BuildMoves(b, k)
    BY <1>2, <1>3, <1>4, <1>5 DEF BuildMoves, Erased
  <1> QED
    BY <1>6, BuildMovesKeep

-----------------------------------------------------------------------------
(* The ways a build step ends: it fails, goes on, or made something.       *)
LEMMA WrongOf ==
    ASSUME ProvisionInv, Right \/ Wrong
    PROVE  wrong' \in 0 .. MaxWrong
  BY ProvisionAssumption DEF ProvisionInv, ProvisionTypeOK, Right, Wrong

LEMMA AbortedOf ==
    ASSUME ProvisionInv, NEW b \in Builders, build[b].step # "idle"
    PROVE  /\ Aborted(b) \in Builds /\ BuildFits(Aborted(b))
           /\ Aborted(b).step = "rollback" /\ Aborted(b).site = build[b].site
           /\ Lists(Aborted(b)) = Lists(build[b])
  <1>1. "rollback" \in BuildSteps /\ 1 \in Nat \ {0} /\ NoSlot \in Slots \cup {NoSlot}
    BY DEF BuildSteps
  <1>2. Aborted(b) = Turned(build[b], "rollback", 1, NoSlot)
    BY DEF Aborted, Turned
  <1>3. LET x == Aborted(b)
        IN  /\ x \in Builds /\ x.step = "rollback" /\ x.site = build[b].site
            /\ x.made = build[b].made /\ x.unknown = build[b].unknown
            /\ x.residual = build[b].residual
    BY <1>1, <1>2, TurnOf, Owned
  <1>4. build[b].site \in Sites
    BY Owned DEF BuildFits
  <1> QED
    BY <1>3, <1>4 DEF BuildFits, Lists, OnTemplate, OnSubnet, OwnsNothing

AtWork(b) == build[b].step \notin {"idle", "built"}

LEMMA AbortsKeep ==
    ASSUME ProvisionInv, NEW b \in Builders, AtWork(b), Fails(b) \/ Refused(b),
           UNCHANGED <<portal, tag, down, unanswered>>
    PROVE  ProvisionInv'
  <1>1. QuietStep(b, Aborted(b))
    BY AbortedOf, WrongOf, Owned
    DEF QuietStep, Becomes, Carries, GoesOn, Fails, Refused, Goto, GoWrong, AtWork, OwnsNothing
  <1> QED
    BY <1>1, QuietKeeps

(* Where a build can make an object that is not a subnet.                  *)
MakesHere(b, ref) ==
    /\ AtWork(b) /\ build[b].step \notin OwnsNothing \cup {"tag", "rollback", "failed"}
    /\ ref \in RefsOf(build[b].site)
    /\ \A z \in RevZones : ref = Zone(z) =>
           build[b].step \in OnSubnet /\ z = RevOf[build[b].slot]

LEMMA OwnId ==
    ASSUME ProvisionInv, NEW b \in Builders, build[b].step # "idle",
           NEW ref \in RefsOf(build[b].site)
    PROVE  /\ ref \in Refs /\ <<ref, b>> \in Ids /\ <<ref, b>> \in Refs \X {b}
  BY Owned, SiteRefs, OwnersDiffer DEF BuildFits, Ids

LEMMA ErrsKeep ==
    ASSUME ProvisionInv, NEW b \in Builders, NEW ref, MakesHere(b, ref), Errs(b, ref),
           UNCHANGED <<tag, down>>
    PROVE  ProvisionInv'
  <1>1. CASE UNCHANGED <<portal, unanswered>>
    BY <1>1, AbortsKeep DEF Errs, MakesHere
  <1>2. CASE Makes(b, ref) /\ unanswered' = unanswered \cup {<<ref, b>>}
    <2>1. Becomes(b, Aborted(b))
      BY <1>2, AbortedOf, WrongOf, Owned, OwnId
      DEF Becomes, Errs, Fails, GoWrong, MakesHere, AtWork
    <2>2. Carries(b, Aborted(b)) /\ GoesOn(b, Aborted(b))
      BY AbortedOf DEF Carries, GoesOn, MakesHere, AtWork, OwnsNothing
    <2>3. MakingStep(b, Aborted(b), ref)
      BY <1>2, <2>1, <2>2, AbortedOf DEF MakingStep, MakesHere, AtWork
    <2> QED
      BY <2>3, MakingKeeps
  <1> QED
    BY <1>1, <1>2 DEF Errs

LEMMA UnmadeKeeps ==
    ASSUME ProvisionInv, NEW b \in Builders, NEW ref, MakesHere(b, ref), Unmade(b, ref),
           UNCHANGED <<tag, down>>
    PROVE  ProvisionInv'
  BY AbortsKeep, ErrsKeep DEF Unmade, MakesHere

(* Where a build goes on to, with all it has listed.                       *)
Follows(b, k) ==
    /\ k \in Builds /\ BuildFits(k) /\ k.site = build[b].site
    /\ k.step \notin OwnsNothing \cup {"tag", "rollback", "failed"}
    /\ Lists(k) \subseteq Refs \X {b}
    /\ k.step # "built" => Lists(build[b]) \subseteq Lists(k)
    /\ k.step \in OnSubnet => build[b].step \in OnSubnet /\ k.slot = build[b].slot

LEMMA ProceedsKeep ==
    ASSUME ProvisionInv, NEW b \in Builders, NEW k, Follows(b, k), Goto(b, k), AtWork(b),
           build[b].step \notin {"tag", "rollback", "failed"},
           UNCHANGED <<portal, tag, down, unanswered>>
    PROVE  ProvisionInv'
  <1>1. QuietStep(b, k)
    BY WrongOf, Owned
    DEF QuietStep, Becomes, Carries, GoesOn, Follows, Goto, AtWork
  <1> QED
    BY <1>1, QuietKeeps

LEMMA MakesKeep ==
    ASSUME ProvisionInv, NEW b \in Builders, NEW k, NEW ref, MakesHere(b, ref),
           ref[1] # "subnet", Makes(b, ref), Follows(b, k), Goto(b, k) \/ GoWrong(b, k),
           k.step # "built" => <<ref, b>> \in Lists(k),
           UNCHANGED <<tag, down, unanswered>>
    PROVE  ProvisionInv'
  <1>1. Becomes(b, k)
    BY WrongOf, Owned DEF Becomes, Follows, Goto, GoWrong, MakesHere, AtWork
  <1>2. Carries(b, k) /\ GoesOn(b, k)
    BY DEF Carries, GoesOn, Follows, MakesHere
  <1>3. MakingStep(b, k, ref)
    BY <1>1, <1>2 DEF MakingStep, MakesHere, Follows
  <1> QED
    BY <1>3, MakingKeeps

LEMMA AnsweredKeeps ==
    ASSUME ProvisionInv, NEW b \in Builders, NEW k, NEW ref, MakesHere(b, ref),
           ref[1] # "subnet", Answered(b, ref, k), Follows(b, k), UNCHANGED <<tag, down>>
    PROVE  ProvisionInv'
  <1> DEFINE id == <<ref, b>>
             km == [k EXCEPT !.made = @ \cup {id}]
             ku == [k EXCEPT !.unknown = @ \cup {id}]
             sm == k.made \cup {id}
             su == k.unknown \cup {id}
  <1>1. k \in Builds /\ id \in Ids /\ id \in Refs \X {b}
    BY OwnId DEF Follows, MakesHere, AtWork
  <1>2. sm \in SUBSET Ids /\ su \in SUBSET Ids
    BY <1>1, FieldsOf
  <1>3. km = [k EXCEPT !.made = sm] /\ ku = [k EXCEPT !.unknown = su]
    BY <1>1 DEF Builds
  <1> HIDE DEF sm, su, km, ku
  <1>4. /\ km \in Builds /\ km.step = k.step /\ km.site = k.site /\ km.i = k.i
        /\ km.slot = k.slot /\ km.made = sm /\ km.unknown = k.unknown
        /\ km.residual = k.residual
    BY <1>1, <1>2, <1>3, MadeOf
  <1>5. /\ ku \in Builds /\ ku.step = k.step /\ ku.site = k.site /\ ku.i = k.i
        /\ ku.slot = k.slot /\ ku.made = k.made /\ ku.unknown = su
        /\ ku.residual = k.residual
    BY <1>1, <1>2, <1>3, UnknownOf
  <1>6. Lists(km) = Lists(k) \cup {id} /\ Lists(ku) = Lists(k) \cup {id}
    BY <1>4, <1>5 DEF Lists, sm, su
  <1>7. BuildFits(km) /\ BuildFits(ku)
    BY <1>4, <1>5 DEF BuildFits, Follows
  <1>8. Follows(b, km) /\ Follows(b, ku)
    BY <1>1, <1>4, <1>5, <1>6, <1>7 DEF Follows
  <1>9. Makes(b, ref) /\ UNCHANGED unanswered /\ (Goto(b, km) \/ GoWrong(b, ku))
    BY DEF Answered, km, ku
  <1> HIDE DEF id
  <1>10. id = <<ref, b>>
    BY DEF id
  <1> QED
    BY <1>6, <1>8, <1>9, <1>10, MakesKeep

-----------------------------------------------------------------------------
(* Each step of a build.                                                   *)
LEMMA Templates ==
    ASSUME NEW s \in Sites
    PROVE  /\ Len(Template[s]) \in Nat \ {0} /\ DOMAIN Template[s] = 1 .. Len(Template[s])
           /\ 1 \in DOMAIN Template[s]
  <1>1. Template[s] \in Seq(SUBSET {"range", "reverse", "host"}) /\ Template[s] # <<>>
    BY ProvisionAssumption
  <1> QED
    BY <1>1

LEMMA SteppedOf ==
    ASSUME ProvisionInv, NEW b \in Builders, NEW s \in BuildSteps
    PROVE  LET x == [build[b] EXCEPT !.step = s]
           IN  /\ x \in Builds /\ x.step = s /\ x.site = build[b].site
               /\ x.i = build[b].i /\ x.slot = build[b].slot /\ Lists(x) = Lists(build[b])
               /\ x.made = build[b].made /\ x.unknown = build[b].unknown
  <1>1. [build[b] EXCEPT !.step = s] = Stepped(build[b], s)
    BY DEF Stepped
  <1> QED
    BY <1>1, StepOf, Owned DEF Lists

LEMMA StartBuildKeeps ==
    ASSUME ProvisionInv, NEW b \in Builders, NEW s \in Sites, StartBuild(b, s)
    PROVE  ProvisionInv'
  <1> DEFINE k == Begun("check", s)
  <1>1. "check" \in BuildSteps /\ s \in Sites \cup {NoSite}
    BY DEF BuildSteps
  <1>2. /\ k \in Builds /\ k.step = "check" /\ k.site = s /\ k.i = 1
        /\ k.made = {} /\ k.unknown = {} /\ k.residual = {}
    BY <1>1, FreshOf
  <1>3. Goto(b, k) /\ UNCHANGED <<portal, tag, down, unanswered>> /\ build[b].step = "idle"
    BY DEF StartBuild, Begun
  <1> HIDE DEF k
  <1>4. BuildFits(k) /\ Lists(k) = {}
    BY <1>2, Templates DEF BuildFits, Lists, OnSubnet
  <1>5. Becomes(b, k)
    BY <1>2, <1>3, <1>4, WrongOf, Owned DEF Becomes, Goto
  <1>6. QuietStep(b, k)
    BY <1>2, <1>3, <1>5 DEF QuietStep, Carries, GoesOn, OwnsNothing, OnSubnet
  <1> QED
    BY <1>6, QuietKeeps

LEMMA CheckSiteKeeps ==
    ASSUME ProvisionInv, NEW b \in Builders, CheckSite(b)
    PROVE  ProvisionInv'
  <1>1. build[b].step = "check" /\ UNCHANGED <<portal, tag, down, unanswered>>
    BY DEF CheckSite
  <1>2. CASE Fails(b) \/ Refused(b)
    BY <1>1, <1>2, AbortsKeep DEF AtWork
  <1>3. ASSUME NEW s \in {"subnet", "skipped"}, Goto(b, [build[b] EXCEPT !.step = s])
        PROVE  ProvisionInv'
    <2> DEFINE k == [build[b] EXCEPT !.step = s]
    <2>1. s \in BuildSteps
      BY DEF BuildSteps
    <2>2. /\ k \in Builds /\ k.step = s /\ k.site = build[b].site /\ k.i = build[b].i
          /\ Lists(k) = Lists(build[b]) /\ k.made = build[b].made /\ k.unknown = build[b].unknown
      BY <2>1, SteppedOf
    <2> HIDE DEF k
    <2>3. Goto(b, k)
      BY <1>3 DEF k
    <2>4. BuildFits(k)
      BY <1>1, <2>2, Owned DEF BuildFits, OnTemplate, OnSubnet, OwnsNothing
    <2>5. Becomes(b, k)
      BY <1>1, <2>2, <2>3, <2>4, WrongOf, Owned DEF Becomes, Goto
    <2>6. QuietStep(b, k)
      BY <1>1, <2>2, <2>5 DEF QuietStep, Carries, GoesOn, OnSubnet, OwnsNothing
    <2> QED
      BY <2>6, QuietKeeps
  <1> QED
    BY <1>2, <1>3 DEF CheckSite

LEMMA CreateSubnetKeeps ==
    ASSUME ProvisionInv, NEW b \in Builders, CreateSubnet(b)
    PROVE  ProvisionInv'
  <1>1. build[b].step = "subnet" /\ UNCHANGED <<tag, down>> /\ AtWork(b)
    BY DEF CreateSubnet, AtWork
  <1>2. CASE (Fails(b) \/ Refused(b)) /\ UNCHANGED <<portal, unanswered>>
    BY <1>1, <1>2, AbortsKeep
  <1>3. ASSUME NEW n \in Slots, Makes(b, Subnet(n)), UNCHANGED unanswered,
               Goto(b, [build[b] EXCEPT !.step = "tag", !.slot = n,
                                        !.made = @ \cup {<<Subnet(n), b>>}])
        PROVE  ProvisionInv'
    <2> DEFINE id == <<Subnet(n), b>>
               k == [build[b] EXCEPT !.step = "tag", !.slot = n, !.made = @ \cup {id}]
               m == build[b].made \cup {id}
    <2>1. /\ Subnet(n) \in Refs /\ Subnet(n)[1] = "subnet"
          /\ \A z \in RevZones : Subnet(n) # Zone(z)
      BY RefShapes
    <2>2. id \in Ids /\ id \in Refs \X {b} /\ "tag" \in BuildSteps
      BY <2>1, OwnersDiffer DEF Ids, BuildSteps
    <2>3. m \in SUBSET Ids
      BY <2>2, Owned, FieldsOf
    <2>4. k = [build[b] EXCEPT !.step = "tag", !.slot = n, !.made = m]
      BY Owned DEF Builds
    <2>5. k = Placed(build[b], n, m)
      BY <2>4 DEF Placed
    <2> HIDE DEF id, m
    <2>6. Goto(b, k)
      BY <1>3 DEF id
    <2> HIDE DEF k
    <2>7. /\ k \in Builds /\ k.step = "tag" /\ k.site = build[b].site /\ k.i = build[b].i
          /\ k.slot = n /\ k.made = m /\ k.unknown = build[b].unknown
          /\ k.residual = build[b].residual
      BY <2>3, <2>5, PlacedOf, Owned
    <2>8. Lists(k) = Lists(build[b]) \cup {id}
      BY <2>7 DEF Lists, m
    <2>9. BuildFits(k)
      BY <1>1, <2>7, Owned DEF BuildFits, OnTemplate, OnSubnet, OwnsNothing
    <2>10. Becomes(b, k)
      BY <1>1, <1>3, <2>2, <2>7, <2>6, <2>8, <2>9, WrongOf, Owned DEF Becomes, Goto
    <2>11. Carries(b, k) /\ GoesOn(b, k)
      BY <1>1, <2>7, <2>8 DEF Carries, GoesOn, OwnsNothing
    <2>12. id = <<Subnet(n), b>> /\ id \in Lists(k) /\ Subnet(n) \in RefsOf(build[b].site)
      BY <1>1, <2>8, Owned, SiteRefs DEF id, BuildFits
    <2>13. MakingStep(b, k, Subnet(n))
      BY <1>1, <1>3, <2>1, <2>7, <2>10, <2>11, <2>12 DEF MakingStep, OwnsNothing
    <2> QED
      BY <2>13, MakingKeeps
  <1>4. ASSUME NEW n \in Slots, Makes(b, Subnet(n)), Fails(b),
               unanswered' = unanswered \cup {<<Subnet(n), b>>}
        PROVE  ProvisionInv'
    <2>1. \A z \in RevZones : Subnet(n) # Zone(z)
      BY RefShapes
    <2>2. Subnet(n) \in RefsOf(build[b].site)
      BY <1>1, Owned, SiteRefs DEF BuildFits
    <2>3. MakesHere(b, Subnet(n))
      BY <1>1, <2>1, <2>2 DEF MakesHere, OwnsNothing
    <2>4. Errs(b, Subnet(n))
      BY <1>4 DEF Errs
    <2> QED
      BY <1>1, <2>3, <2>4, ErrsKeep
  <1> QED
    BY <1>2, <1>3, <1>4 DEF CreateSubnet

(* A build that goes on at another step, in its place.                     *)
LEMMA FollowsOf ==
    ASSUME ProvisionInv, NEW b \in Builders, build[b].step # "idle",
           NEW s \in OnTemplate \ {"check", "tag"},
           s \in OnSubnet => build[b].step \in OnSubnet,
           build[b].step \in OnTemplate
    PROVE  Follows(b, [build[b] EXCEPT !.step = s])
  <1> DEFINE k == [build[b] EXCEPT !.step = s]
  <1>1. s \in BuildSteps
    BY DEF OnTemplate, OnSubnet, BuildSteps
  <1>2. /\ k \in Builds /\ k.step = s /\ k.site = build[b].site /\ k.i = build[b].i
        /\ k.slot = build[b].slot /\ Lists(k) = Lists(build[b])
        /\ k.made = build[b].made /\ k.unknown = build[b].unknown
    BY <1>1, SteppedOf
  <1> HIDE DEF k
  <1>3. s \notin OwnsNothing \cup {"rollback", "failed", "tag"}
    BY DEF OnTemplate, OnSubnet, OwnsNothing
  <1>4. BuildFits(k)
    BY <1>2, <1>3, Owned DEF BuildFits, OwnsNothing
  <1>5. Follows(b, k)
    BY <1>2, <1>3, <1>4, Owned DEF Follows
  <1> QED
    BY <1>5 DEF k

LEMMA TagSubnetKeeps ==
    ASSUME ProvisionInv, NEW b \in Builders, TagSubnet(b)
    PROVE  ProvisionInv'
  <1> DEFINE tagged == [tag EXCEPT ![build[b].slot] = build[b].site]
  <1>1. /\ build[b].step = "tag" /\ UNCHANGED <<portal, down, unanswered>>
        /\ portal[Subnet(build[b].slot)] = b
    BY DEF TagSubnet, Exists
  <1>2. CASE tag' = tag /\ Fails(b)
    BY <1>1, <1>2, AbortsKeep DEF AtWork
  <1>3. CASE tag' = tagged /\ Fails(b)
    <2>1. TagStep(b, Aborted(b))
      BY <1>1, <1>3, AbortedOf, WrongOf, Owned
      DEF TagStep, Becomes, Carries, Fails, GoWrong, OwnsNothing
    <2> QED
      BY <2>1, TagKeeps
  <1>4. CASE tag' = tagged /\ Goto(b, [build[b] EXCEPT !.step = "range"])
    <2> DEFINE k == [build[b] EXCEPT !.step = "range"]
    <2>1. "range" \in BuildSteps
      BY DEF BuildSteps
    <2>2. /\ k \in Builds /\ k.step = "range" /\ k.site = build[b].site /\ k.i = build[b].i
          /\ k.slot = build[b].slot /\ Lists(k) = Lists(build[b])
      BY <2>1, SteppedOf
    <2> HIDE DEF k
    <2>3. Goto(b, k)
      BY <1>4 DEF k
    <2>4. BuildFits(k)
      BY <1>1, <2>2, Owned DEF BuildFits, OnTemplate, OnSubnet, OwnsNothing
    <2>5. Becomes(b, k)
      BY <1>1, <2>2, <2>3, <2>4, WrongOf, Owned DEF Becomes, Goto
    <2>6. Carries(b, k)
      BY <2>2 DEF Carries, OwnsNothing
    <2>7. TagStep(b, k)
      BY <1>1, <1>4, <2>2, <2>5, <2>6 DEF TagStep, OnSubnet
    <2> QED
      BY <2>7, TagKeeps
  <1> QED
    BY <1>2, <1>3, <1>4 DEF TagSubnet

LEMMA CreateRangeKeeps ==
    ASSUME ProvisionInv, NEW b \in Builders, CreateRange(b)
    PROVE  ProvisionInv'
  <1> DEFINE next == [build[b] EXCEPT !.step = "findrev"]
             ref == DhcpRange(build[b].slot)
  <1>1. build[b].step = "range" /\ UNCHANGED <<tag, down>> /\ AtWork(b)
    BY DEF CreateRange, AtWork
  <1>2. Follows(b, next)
    BY <1>1, FollowsOf DEF OnTemplate, OnSubnet
  <1>3. build[b].slot \in Slots /\ build[b].site \in Sites
    BY <1>1, Owned DEF BuildFits, OnSubnet
  <1>4. ref \in RefsOf(build[b].site) /\ ref[1] # "subnet" /\ \A z \in RevZones : ref # Zone(z)
    BY <1>3, SiteRefs, RefShapes
  <1>5. MakesHere(b, ref)
    BY <1>1, <1>4 DEF MakesHere, OwnsNothing
  <1>6. \/ Goto(b, next) /\ UNCHANGED <<portal, unanswered>>
        \/ Answered(b, ref, next)
        \/ Unmade(b, ref)
    BY DEF CreateRange
  <1> HIDE DEF next, ref
  <1>7. CASE Goto(b, next) /\ UNCHANGED <<portal, unanswered>>
    BY <1>1, <1>2, <1>7, ProceedsKeep
  <1>8. CASE Answered(b, ref, next)
    BY <1>1, <1>2, <1>4, <1>5, <1>8, AnsweredKeeps
  <1>9. CASE Unmade(b, ref)
    BY <1>1, <1>5, <1>9, UnmadeKeeps
  <1> QED
    BY <1>6, <1>7, <1>8, <1>9

LEMMA SubnetDoneOf ==
    ASSUME ProvisionInv, NEW b \in Builders, build[b].step \in OnSubnet
    PROVE  Follows(b, SubnetDone(b, build[b]))
  <1> DEFINE k == SubnetDone(b, build[b])
             s == build[b].site
  <1>1. build[b] \in Builds /\ s \in Sites /\ build[b].i \in DOMAIN Template[s]
    BY Owned DEF BuildFits, OnTemplate, OnSubnet
  <1>2. /\ build[b].i \in Nat \ {0} /\ build[b].i + 1 \in Nat \ {0} /\ 1 \in Nat \ {0}
        /\ NoSlot \in Slots \cup {NoSlot}
        /\ "subnet" \in BuildSteps /\ "findzone" \in BuildSteps
    BY <1>1, FieldsOf DEF BuildSteps
  <1>3. \/ k = Turned(build[b], "subnet", build[b].i + 1, NoSlot) /\ build[b].i < Len(Template[s])
        \/ k = Turned(build[b], "findzone", 1, NoSlot)
    BY <1>1 DEF SubnetDone, Turned, Plans, Builds
  <1> HIDE DEF k
  <1>4. /\ k \in Builds /\ k.site = s /\ k.made = build[b].made
        /\ k.unknown = build[b].unknown /\ k.residual = build[b].residual
        /\ \/ k.step = "subnet" /\ k.i = build[b].i + 1 /\ build[b].i < Len(Template[s])
           \/ k.step = "findzone" /\ k.i = 1
    BY <1>1, <1>2, <1>3, TurnOf
  <1>5. k.i \in DOMAIN Template[s]
    BY <1>1, <1>2, <1>4, Templates
  <1>6. BuildFits(k)
    BY <1>1, <1>4, <1>5 DEF BuildFits, OnSubnet, OwnsNothing
  <1>7. Follows(b, k)
    BY <1>4, <1>6, Owned DEF Follows, Lists, OnSubnet, OwnsNothing
  <1> QED
    BY <1>7 DEF k

LEMMA ReverseZonesKeep ==
    ASSUME ProvisionInv, NEW b \in Builders, FindReverseZone(b) \/ MakeReverseZone(b)
    PROVE  ProvisionInv'
  <1> DEFINE next == SubnetDone(b, build[b])
             ref == RevRef(b)
             asked == [build[b] EXCEPT !.step = "makerev"]
  <1>1. build[b].step \in {"findrev", "makerev"} /\ UNCHANGED <<tag, down>> /\ AtWork(b)
    BY DEF FindReverseZone, MakeReverseZone, AtWork
  <1>2. Follows(b, next) /\ Follows(b, asked)
    BY <1>1, SubnetDoneOf, FollowsOf DEF OnTemplate, OnSubnet
  <1>3. build[b].slot \in Slots /\ build[b].site \in Sites /\ RevOf[build[b].slot] \in RevZones
    BY <1>1, Owned, ProvisionAssumption DEF BuildFits, OnSubnet
  <1>4. /\ ref = Zone(RevOf[build[b].slot]) /\ ref \in RefsOf(build[b].site)
        /\ ref[1] # "subnet" /\ \A z \in RevZones : ref = Zone(z) => z = RevOf[build[b].slot]
    BY <1>3, SiteRefs, RefShapes DEF RevRef
  <1>5. MakesHere(b, ref)
    BY <1>1, <1>4 DEF MakesHere, OwnsNothing, OnSubnet
  <1>6. \/ (Goto(b, next) \/ Goto(b, asked) \/ Fails(b)) /\ UNCHANGED <<portal, unanswered>>
        \/ Answered(b, ref, next)
        \/ Unmade(b, ref)
    BY DEF FindReverseZone, MakeReverseZone
  <1> HIDE DEF next, ref, asked
  <1>7. CASE (Goto(b, next) \/ Goto(b, asked) \/ Fails(b)) /\ UNCHANGED <<portal, unanswered>>
    BY <1>1, <1>2, <1>7, ProceedsKeep, AbortsKeep
  <1>8. CASE Answered(b, ref, next)
    BY <1>1, <1>2, <1>4, <1>5, <1>8, AnsweredKeeps
  <1>9. CASE Unmade(b, ref)
    BY <1>1, <1>5, <1>9, UnmadeKeeps
  <1> QED
    BY <1>6, <1>7, <1>8, <1>9

LEMMA FindZoneKeeps ==
    ASSUME ProvisionInv, NEW b \in Builders, FindZone(b)
    PROVE  ProvisionInv'
  <1> DEFINE host == [build[b] EXCEPT !.step = "host"]
             make == [build[b] EXCEPT !.step = "makezone"]
  <1>1. build[b].step = "findzone" /\ AtWork(b) /\ UNCHANGED <<portal, tag, down, unanswered>>
    BY DEF FindZone, AtWork
  <1>2. Follows(b, host) /\ Follows(b, make)
    BY <1>1, FollowsOf DEF OnTemplate, OnSubnet
  <1>3. Goto(b, host) \/ Goto(b, make) \/ Fails(b)
    BY DEF FindZone
  <1> HIDE DEF host, make
  <1> QED
    BY <1>1, <1>2, <1>3, ProceedsKeep, AbortsKeep

LEMMA MakeZoneKeeps ==
    ASSUME ProvisionInv, NEW b \in Builders, MakeZone(b)
    PROVE  ProvisionInv'
  <1> DEFINE ref == Zone(build[b].site)
             id == <<ref, b>>
             m == build[b].made \cup {id}
             u == build[b].unknown \cup {id}
             km == WithMade(build[b], "host", m)
             ku == WithUnknown(build[b], "rollback", u)
  <1>1. build[b].step = "makezone" /\ AtWork(b) /\ UNCHANGED <<tag, down>>
    BY DEF MakeZone, AtWork
  <1>2. build[b] \in Builds /\ build[b].site \in Sites
    BY <1>1, Owned DEF BuildFits
  <1>3. /\ ref \in RefsOf(build[b].site) /\ ref[1] # "subnet"
        /\ \A z \in RevZones : ref # Zone(z)
    BY <1>2, SiteRefs, RefShapes, ProvisionAssumption
  <1>4. MakesHere(b, ref)
    BY <1>1, <1>3 DEF MakesHere, OwnsNothing
  <1>5. id \in Ids /\ id \in Refs \X {b}
    BY <1>1, <1>3, OwnId DEF AtWork
  <1>6. m \in SUBSET Ids /\ u \in SUBSET Ids /\ "host" \in BuildSteps /\ "rollback" \in BuildSteps
    BY <1>2, <1>5, FieldsOf DEF BuildSteps
  <1>7. \/ Makes(b, ref) /\ UNCHANGED unanswered /\ (Goto(b, km) \/ GoWrong(b, ku))
        \/ Unmade(b, ref)
    BY <1>2 DEF MakeZone, WithMade, WithUnknown, Builds
  <1> HIDE DEF km, ku, m, u
  <1>8. /\ km \in Builds /\ km.step = "host" /\ km.site = build[b].site /\ km.i = build[b].i
        /\ km.made = m /\ km.unknown = build[b].unknown /\ km.residual = build[b].residual
    BY <1>2, <1>6, WithMadeOf DEF km
  <1>9. /\ ku \in Builds /\ ku.step = "rollback" /\ ku.site = build[b].site
        /\ ku.made = build[b].made /\ ku.unknown = u /\ ku.residual = build[b].residual
    BY <1>2, <1>6, WithUnknownOf DEF ku
  <1>10. Lists(km) = Lists(build[b]) \cup {id} /\ Lists(ku) = Lists(build[b]) \cup {id}
    BY <1>8, <1>9 DEF Lists, m, u
  <1>11. BuildFits(km) /\ BuildFits(ku)
    BY <1>1, <1>8, <1>9, Owned DEF BuildFits, OnTemplate, OnSubnet, OwnsNothing
  <1>12. Follows(b, km)
    BY <1>5, <1>8, <1>10, <1>11, Owned DEF Follows, OnSubnet, OwnsNothing
  <1> HIDE DEF id
  <1>13. id = <<ref, b>>
    BY DEF id
  <1>14. CASE Makes(b, ref) /\ UNCHANGED unanswered /\ Goto(b, km)
    BY <1>1, <1>3, <1>4, <1>10, <1>12, <1>13, <1>14, MakesKeep
  <1>15. CASE Makes(b, ref) /\ UNCHANGED unanswered /\ GoWrong(b, ku)
    <2>1. Becomes(b, ku)
      BY <1>1, <1>5, <1>9, <1>10, <1>11, <1>15, WrongOf, Owned DEF Becomes, GoWrong
    <2>2. Carries(b, ku) /\ GoesOn(b, ku)
      BY <1>9, <1>10 DEF Carries, GoesOn, OwnsNothing
    <2>3. MakingStep(b, ku, ref)
      BY <1>1, <1>3, <1>9, <1>10, <1>13, <1>15, <2>1, <2>2 DEF MakingStep, OwnsNothing
    <2> QED
      BY <2>3, MakingKeeps
  <1>16. CASE Unmade(b, ref)
    BY <1>1, <1>4, <1>16, UnmadeKeeps
  <1> QED
    BY <1>7, <1>14, <1>15, <1>16

LEMMA HostDoneOf ==
    ASSUME ProvisionInv, NEW b \in Builders, build[b].step = "host"
    PROVE  Follows(b, HostDone(b))
  <1> DEFINE s == build[b].site
             k == HostDone(b)
             on == [build[b] EXCEPT !.i = build[b].i + 1]
  <1>1. build[b] \in Builds /\ s \in Sites /\ build[b].i \in DOMAIN Template[s]
    BY Owned DEF BuildFits, OnTemplate
  <1>2. build[b].i + 1 \in Nat \ {0} /\ "built" \in BuildSteps
    BY <1>1, FieldsOf DEF BuildSteps
  <1>3. \/ k = on /\ build[b].i < Len(Template[s])
        \/ k = Begun("built", s)
    BY <1>1 DEF HostDone, Plans, Begun, Builds
  <1>4. /\ on \in Builds /\ on.step = "host" /\ on.site = s /\ on.i = build[b].i + 1
        /\ on.made = build[b].made /\ on.unknown = build[b].unknown
        /\ on.residual = build[b].residual
    BY <1>1, <1>2, NextOf
  <1> HIDE DEF k, on
  <1>5. CASE k = on /\ build[b].i < Len(Template[s])
    <2>1. k.i \in DOMAIN Template[s]
      BY <1>1, <1>4, <1>5, Templates, FieldsOf
    <2>2. BuildFits(k)
      BY <1>1, <1>4, <1>5, <2>1 DEF BuildFits, OnSubnet, OwnsNothing
    <2> QED
      BY <1>4, <1>5, <2>2, Owned DEF Follows, Lists, OnSubnet, OwnsNothing, k
  <1>6. CASE k = Begun("built", s)
    <2>1. /\ k \in Builds /\ k.step = "built" /\ k.site = s
          /\ k.made = {} /\ k.unknown = {} /\ k.residual = {}
      BY <1>1, <1>2, <1>6, FreshOf
    <2>2. BuildFits(k)
      BY <1>1, <2>1 DEF BuildFits, OnTemplate, OnSubnet, OwnsNothing
    <2> QED
      BY <2>1, <2>2 DEF Follows, Lists, OnSubnet, OwnsNothing, k
  <1> QED
    BY <1>3, <1>5, <1>6

LEMMA CreateHostKeeps ==
    ASSUME ProvisionInv, NEW b \in Builders, CreateHost(b)
    PROVE  ProvisionInv'
  <1> DEFINE ref == Host(build[b].site, build[b].i)
             next == HostDone(b)
  <1>1. build[b].step = "host" /\ AtWork(b) /\ UNCHANGED <<tag, down>>
    BY DEF CreateHost, AtWork
  <1>2. Follows(b, next)
    BY <1>1, HostDoneOf
  <1>3. build[b].site \in Sites /\ build[b].i \in DOMAIN Template[build[b].site]
    BY <1>1, Owned DEF BuildFits, OnTemplate
  <1>4. ref \in Hosts(build[b].site) /\ ref[1] = "host"
    BY <1>3, RefShapes
  <1>5. ref \in RefsOf(build[b].site) /\ \A z \in RevZones : ref # Zone(z)
    BY <1>3, <1>4, SiteRefs, RefShapes
  <1>6. MakesHere(b, ref)
    BY <1>1, <1>5 DEF MakesHere, OwnsNothing
  <1>7. \/ Goto(b, next) /\ UNCHANGED <<portal, unanswered>>
        \/ Answered(b, ref, next)
        \/ Errs(b, ref)
    BY DEF CreateHost
  <1> HIDE DEF ref, next
  <1>8. CASE Goto(b, next) /\ UNCHANGED <<portal, unanswered>>
    BY <1>1, <1>2, <1>8, ProceedsKeep
  <1>9. CASE Answered(b, ref, next)
    BY <1>1, <1>2, <1>4, <1>6, <1>9, AnsweredKeeps
  <1>10. CASE Errs(b, ref)
    BY <1>1, <1>6, <1>10, ErrsKeep
  <1> QED
    BY <1>7, <1>8, <1>9, <1>10

LEMMA UndoKeeps ==
    ASSUME ProvisionInv, NEW b \in Builders, NEW id \in ToUndo(b), Undo(b, id)
    PROVE  ProvisionInv'
  <1> DEFINE m == build[b].made \ {id}
             u == build[b].unknown \ {id}
             rest == WithLists(build[b], m, u)
             n == rest.residual \cup {id}
             left == WithResidual(rest, n)
  <1>1. build[b].step = "rollback" /\ UNCHANGED <<down, unanswered>>
    BY DEF Undo
  <1>2. build[b] \in Builds /\ build[b].site \in Sites /\ id \in Lists(build[b])
    BY <1>1, Owned DEF BuildFits, ToUndo, Lists
  <1>3. id \in Refs \X {b} /\ id \in Ids /\ id[1] \in Refs /\ id[2] = b
    BY <1>2, Owned, OwnersDiffer DEF Ids
  <1>4. m \in SUBSET Ids /\ u \in SUBSET Ids /\ "rollback" \in BuildSteps
    BY <1>2, FieldsOf DEF BuildSteps
  <1>5. \/ (Right \/ Wrong) /\ build' = [build EXCEPT ![b] = left] /\ UNCHANGED <<portal, tag>>
        \/ (Right \/ Wrong) /\ build' = [build EXCEPT ![b] = rest] /\ DeleteDone(id)
        \/ (Right \/ Wrong) /\ build' = [build EXCEPT ![b] = left] /\ DeleteDone(id)
    <2>1. rest = [build[b] EXCEPT !.made = @ \ {id}, !.unknown = @ \ {id}]
      BY <1>2 DEF WithLists, Builds
    <2>2. rest \in Builds
      BY <1>2, <1>4, WithListsOf
    <2> HIDE DEF rest
    <2>3. left = [rest EXCEPT !.residual = @ \cup {id}]
      BY <2>2 DEF WithResidual, Builds
    <2> HIDE DEF left
    <2> QED
      BY <2>1, <2>3 DEF Undo, Goto, DeleteFails
  <1>6. /\ rest \in Builds /\ rest.step = "rollback" /\ rest.site = build[b].site
        /\ rest.made = m /\ rest.unknown = u /\ rest.residual = build[b].residual
    BY <1>1, <1>2, <1>4, WithListsOf
  <1> HIDE DEF rest
  <1>7. n \in SUBSET Ids
    BY <1>2, <1>3, <1>6, FieldsOf
  <1>8. /\ left \in Builds /\ left.step = "rollback" /\ left.site = build[b].site
        /\ left.made = m /\ left.unknown = u /\ left.residual = build[b].residual \cup {id}
    BY <1>6, <1>7, WithResidualOf
  <1> HIDE DEF left
  <1>9. /\ Lists(build[b]) \ {id} \subseteq Lists(rest) /\ Lists(rest) \subseteq Lists(build[b])
        /\ Lists(left) = Lists(build[b])
    BY <1>2, <1>6, <1>8 DEF Lists
  <1>10. BuildFits(rest) /\ BuildFits(left)
    BY <1>2, <1>6, <1>8 DEF BuildFits, OnTemplate, OnSubnet, OwnsNothing
  <1>11. ASSUME NEW k \in {rest, left}, build' = [build EXCEPT ![b] = k], Right \/ Wrong
         PROVE  Becomes(b, k)
    BY <1>1, <1>6, <1>8, <1>9, <1>10, <1>11, WrongOf, Owned DEF Becomes
  <1>12. CASE (Right \/ Wrong) /\ build' = [build EXCEPT ![b] = left] /\ UNCHANGED <<portal, tag>>
    <2>1. QuietStep(b, left)
      BY <1>1, <1>8, <1>9, <1>11, <1>12 DEF QuietStep, Carries, GoesOn, OwnsNothing
    <2> QED
      BY <2>1, QuietKeeps
  <1>13. ASSUME NEW k \in {rest, left}, build' = [build EXCEPT ![b] = k], Right \/ Wrong,
                DeleteDone(id)
         PROVE  ProvisionInv'
    <2>1. portal[id[1]] = id[2] /\ Erased(id[1])
      BY <1>3, <1>13, EraseIsErased, Owned DEF DeleteDone, Exists
    <2>2. ErasingStep(b, k, id)
      BY <1>1, <1>3, <1>6, <1>8, <1>9, <1>11, <1>13, <2>1 DEF ErasingStep
    <2> QED
      BY <2>2, ErasingKeeps
  <1> QED
    BY <1>5, <1>12, <1>13

LEMMA RolledBackKeeps ==
    ASSUME ProvisionInv, NEW b \in Builders, RolledBack(b)
    PROVE  ProvisionInv'
  <1> DEFINE k == [build[b] EXCEPT !.step = "failed"]
  <1>1. /\ build[b].step = "rollback" /\ Goto(b, k)
        /\ UNCHANGED <<portal, tag, down, unanswered>>
    BY DEF RolledBack
  <1>2. "failed" \in BuildSteps
    BY DEF BuildSteps
  <1>3. /\ k \in Builds /\ k.step = "failed" /\ k.site = build[b].site
        /\ Lists(k) = Lists(build[b]) /\ k.made = build[b].made /\ k.unknown = build[b].unknown
    BY <1>2, SteppedOf
  <1>4. build[b].made = {} /\ build[b].unknown = {}
    BY DEF RolledBack, ToUndo
  <1> HIDE DEF k
  <1>5. BuildFits(k)
    BY <1>1, <1>3, <1>4, Owned DEF BuildFits, OnTemplate, OnSubnet, OwnsNothing
  <1>6. QuietStep(b, k)
    BY <1>1, <1>3, <1>5, WrongOf, Owned
    DEF QuietStep, Becomes, Carries, GoesOn, Goto, OwnsNothing
  <1> QED
    BY <1>6, QuietKeeps

-----------------------------------------------------------------------------
(* A step of one teardown that deletes nothing.                            *)
Restarted(s, p, a, w) ==
    [step |-> "record", site |-> s, todo |-> p, record |-> {}, saw |-> w, amid |-> a]
RecordWritten(d, r) == [d EXCEPT !.step = "delete", !.record = r]
RecordLost(d) == [d EXCEPT !.step = "incomplete", !.todo = {}]
GivenUp(d) == [d EXCEPT !.step = "incomplete", !.todo = {}, !.record = {}]
Completed(d) == [d EXCEPT !.step = "done", !.record = {}]
OneLess(d, e) == [d EXCEPT !.todo = @ \ {e}]

LEMMA DownFields ==
    ASSUME NEW d \in Downs
    PROVE  /\ d.step \in {"idle", "record", "delete", "incomplete", "done"}
           /\ d.site \in Sites \cup {NoSite} /\ d.todo \in SUBSET Entries
           /\ d.record \in SUBSET Ids /\ d.saw \in SUBSET Builders /\ d.amid \in SUBSET Builders
  BY DEF Downs

LEMMA RestartedOf ==
    ASSUME NEW s \in Sites, NEW p \in SUBSET Entries,
           NEW a \in SUBSET Builders, NEW w \in SUBSET Builders
    PROVE  LET x == Restarted(s, p, a, w)
           IN  /\ x \in Downs /\ x.step = "record" /\ x.site = s /\ x.todo = p
               /\ x.amid = a /\ x.saw = w
  BY DEF Downs, Restarted

LEMMA RecordWrittenOf ==
    ASSUME NEW d \in Downs, NEW r \in SUBSET Ids
    PROVE  LET x == RecordWritten(d, r)
           IN  /\ x \in Downs /\ x.step = "delete" /\ x.site = d.site /\ x.todo = d.todo
               /\ x.record = r /\ x.amid = d.amid /\ x.saw = d.saw
  BY DEF Downs, RecordWritten

LEMMA RecordLostOf ==
    ASSUME NEW d \in Downs
    PROVE  LET x == RecordLost(d)
           IN  /\ x \in Downs /\ x.step = "incomplete" /\ x.site = d.site /\ x.todo = {}
               /\ x.amid = d.amid /\ x.saw = d.saw
  <1>1. {} \in SUBSET Entries
    OBVIOUS
  <1> QED
    BY <1>1 DEF Downs, RecordLost

LEMMA GivenUpOf ==
    ASSUME NEW d \in Downs
    PROVE  LET x == GivenUp(d)
           IN  /\ x \in Downs /\ x.step = "incomplete" /\ x.site = d.site /\ x.todo = {}
               /\ x.amid = d.amid /\ x.saw = d.saw
  <1>1. {} \in SUBSET Entries /\ {} \in SUBSET Ids
    OBVIOUS
  <1> QED
    BY <1>1 DEF Downs, GivenUp

LEMMA CompletedOf ==
    ASSUME NEW d \in Downs
    PROVE  LET x == Completed(d)
           IN  /\ x \in Downs /\ x.step = "done" /\ x.site = d.site /\ x.todo = d.todo
               /\ x.amid = d.amid /\ x.saw = d.saw
  <1>1. {} \in SUBSET Ids
    OBVIOUS
  <1> QED
    BY <1>1 DEF Downs, Completed

LEMMA OneLessOf ==
    ASSUME NEW d \in Downs, NEW e
    PROVE  LET x == OneLess(d, e)
           IN  /\ x \in Downs /\ x.step = d.step /\ x.site = d.site /\ x.todo = d.todo \ {e}
               /\ x.record = d.record /\ x.amid = d.amid /\ x.saw = d.saw
  BY DEF Downs, OneLess

PlanOK(d) ==
    /\ d.step = "delete" => Planned(d.todo) \subseteq d.record
    /\ d.step \notin {"record", "delete"} => d.todo = {}
    /\ \A e \in d.todo : KindFits(e)
    /\ \A b \in Builders, n \in Slots :
           Sound(b) /\ b \notin d.amid /\ <<Subnet(n), b>> \in Planned(d.todo) =>
               /\ build[b].step = "built"
               /\ \A z \in RevZones : portal[Zone(z)] = b =>
                      \E o \in d.todo : o[1] = "reverse" /\ o[2] = <<Zone(z), b>>
SawOK(d) ==
    \A b \in d.saw :
        /\ build[b].step = "built" /\ build[b].site = d.site
        /\ b \notin TornInto /\ b \notin d.amid
        /\ d.step \in {"record", "delete", "done"} =>
               \A r \in Refs : portal[r] = b => <<r, b>> \in Planned(d.todo)
DownStep(t, d) ==
    /\ down' = [down EXCEPT ![t] = d] /\ d \in Downs
    /\ UNCHANGED <<portal, tag, build, unanswered>> /\ wrong' \in 0 .. MaxWrong
    /\ down[t].amid \subseteq d.amid
    /\ \A b \in d.amid \ down[t].amid : build[b].step # "built"
    /\ PlanOK(d) /\ SawOK(d)

LEMMA Taken ==
    ASSUME ProvisionInv, NEW t \in Teardowns
    PROVE  /\ down \in [Teardowns -> Downs] /\ down[t] \in Downs
           /\ PlanFits(t) /\ SawFits(t)
  BY DEF ProvisionInv, ProvisionTypeOK

LEMMA DownStepKeeps ==
    ASSUME ProvisionInv, NEW t \in Teardowns, NEW d, DownStep(t, d)
    PROVE  ProvisionInv'
  <1> USE DEF DownStep
  <1>1. /\ down \in [Teardowns -> Downs] /\ down' \in [Teardowns -> Downs]
        /\ down'[t] = d /\ \A u \in Teardowns \ {t} : down'[u] = down[u]
    BY Taken
  <1>2. TornInto' = TornInto \cup d.amid
    <2>1. TornInto' = UNION {down'[u].amid : u \in Teardowns}
      BY DEF TornInto
    <2> QED
      BY <1>1, <2>1 DEF TornInto
  <1>3. ProvisionTypeOK'
    BY <1>1 DEF ProvisionInv, ProvisionTypeOK
  <1>4. TagsFit' /\ \A b \in Builders : BuildFits(build[b])' /\ Accounted(b)'
    BY DEF ProvisionInv, TagsFit, BuildFits, Accounted
  <1>5. \A b \in Builders : Findable(b)'
    BY <1>2 DEF ProvisionInv, Findable, Sound, LeadsTo
  <1>6. \A u \in Teardowns : PlanFits(u)'
    <2> SUFFICES ASSUME NEW u \in Teardowns PROVE PlanFits(u)'
      OBVIOUS
    <2>1. \A b \in Builders : Sound(b)' => Sound(b) /\ b \notin d.amid
      BY <1>2 DEF Sound
    <2>2. CASE u = t
      <3>1. down'[u] = d /\ PlanOK(d) /\ build' = build /\ portal' = portal
        BY <1>1, <2>2
      <3>2. ASSUME NEW b \in Builders, NEW n \in Slots, Sound(b)', <<Subnet(n), b>> \in Planned(d.todo)
            PROVE  build[b].step = "built" /\ TakesZones(u, b)'
        BY <2>1, <3>1, <3>2 DEF PlanOK, TakesZones
      <3> QED
        BY <3>1, <3>2 DEF PlanFits, PlanOK
    <2>3. CASE u # t
      <3>1. PlanFits(u) /\ down'[u] = down[u] /\ build' = build /\ portal' = portal
        BY <1>1, <2>3, Taken
      <3>2. \A b \in Builders : TakesZones(u, b)' = TakesZones(u, b)
        BY <3>1 DEF TakesZones
      <3> QED
        BY <2>1, <3>1, <3>2 DEF PlanFits
    <2> QED
      BY <2>2, <2>3
  <1>7. \A u \in Teardowns : SawFits(u)'
    <2> SUFFICES ASSUME NEW u \in Teardowns PROVE SawFits(u)'
      OBVIOUS
    <2>1. CASE u = t
      BY <1>1, <1>2, <2>1 DEF SawFits, SawOK
    <2>2. CASE u # t
      <3>1. SawFits(u) /\ down'[u] = down[u]
        BY <1>1, <2>2, Taken
      <3>2. \A b \in Builders : build[b].step = "built" /\ b \notin TornInto => b \notin d.amid
        BY Taken DEF TornInto
      <3>3. down[u].saw \subseteq Builders
        BY <1>1, DownFields
      <3> QED
        BY <1>2, <3>1, <3>2, <3>3 DEF SawFits
    <2> QED
      BY <2>1, <2>2
  <1> QED
    BY <1>3, <1>4, <1>5, <1>6, <1>7 DEF ProvisionInv

-----------------------------------------------------------------------------
(* A step of a teardown that deletes an object of its plan.                *)
DeletingStep(t, d, e) ==
    /\ down' = [down EXCEPT ![t] = d] /\ d \in Downs
    /\ NextToDelete(t, e) /\ portal[e[2][1]] = e[2][2] /\ Erased(e[2][1])
    /\ UNCHANGED <<build, unanswered>> /\ wrong' \in 0 .. MaxWrong
    /\ d.amid = down[t].amid /\ d.saw = down[t].saw /\ d.site = down[t].site
    /\ \/ d.step = "delete" /\ d.todo = down[t].todo \ {e} /\ d.record = down[t].record
       \/ d.step = "incomplete" /\ d.todo = {}

LEMMA EntryId ==
    ASSUME NEW e \in Entries
    PROVE  e[2] \in Ids /\ e[2][1] \in Refs /\ e[2] = <<e[2][1], e[2][2]>>
  BY DEF Entries, Ids

LEMMA DeletingKeeps ==
    ASSUME ProvisionInv, NEW t \in Teardowns, NEW d, NEW e, DeletingStep(t, d, e)
    PROVE  ProvisionInv'
  <1> USE DEF DeletingStep
  <1> DEFINE ref == e[2][1]
  <1>1. /\ down \in [Teardowns -> Downs] /\ down' \in [Teardowns -> Downs]
        /\ down'[t] = d /\ \A u \in Teardowns \ {t} : down'[u] = down[u]
    BY Taken
  <1>2. TornInto' = TornInto
    <2>1. TornInto' = UNION {down'[u].amid : u \in Teardowns}
      BY DEF TornInto
    <2> QED
      BY <1>1, <2>1 DEF TornInto
  <1>3. /\ down[t].step = "delete" /\ e \in down[t].todo /\ e \in Entries /\ ref \in Refs
        /\ e[2] = <<ref, portal[ref]>> /\ portal'[ref] = Free
    BY Taken, DownFields, EntryId DEF NextToDelete, Erased
  <1>4. \A r \in Refs, b \in Builders : portal'[r] = b => portal[r] = b /\ r # ref
    BY <1>3, OwnersDiffer DEF Erased
  <1>5. ProvisionTypeOK'
    BY <1>1 DEF ProvisionInv, ProvisionTypeOK, Erased
  <1>6. \A b \in Builders : BuildFits(build[b])' /\ Accounted(b)'
    BY <1>4 DEF ProvisionInv, BuildFits, Accounted
  <1>7. TagsFit'
    <2> SUFFICES ASSUME NEW n \in Slots
                 PROVE  /\ portal'[Subnet(n)] \in Builders \cup {Free}
                        /\ portal'[Subnet(n)] = Free => tag'[n] = NoSite
                        /\ \A b \in Builders : portal'[Subnet(n)] = b =>
                             \/ tag'[n] = build[b].site
                             \/ tag'[n] = NoSite /\ build[b].step \in {"rollback", "failed"}
                             \/ tag'[n] = NoSite /\ build[b].step = "tag" /\ build[b].slot = n
      BY DEF TagsFit
    <2>1. CASE Subnet(n) = ref
      BY <1>3, <2>1, OwnersDiffer DEF Erased
    <2>2. CASE Subnet(n) # ref
      BY <2>2 DEF ProvisionInv, TagsFit, Erased
    <2> QED
      BY <2>1, <2>2
  (* A sound build's subnet goes only when its reverse zones are gone. *)
  <1>8. ASSUME NEW b \in Builders, NEW n \in Slots, Sound(b), portal[Subnet(n)] = b,
               Subnet(n) = ref
        PROVE  build[b].step = "built" /\ \A z \in RevZones : portal[Zone(z)] # b
    <2>1. e[2] = <<Subnet(n), b>> /\ e[2] \in Planned(down[t].todo)
      BY <1>3, <1>8 DEF Planned
    <2>2. build[b].step = "built" /\ TakesZones(t, b)
      BY <1>8, <2>1, Taken DEF PlanFits
    <2>3. e[1] = "subnet"
      BY <1>3, <1>8, Taken, RefShapes DEF PlanFits, KindFits
    <2>4. \A o \in down[t].todo : o[1] # "reverse"
      BY <2>3 DEF NextToDelete, DownRank
    <2> QED
      BY <2>2, <2>4 DEF TakesZones
  <1>9. \A b \in Builders : Findable(b)'
    <2> SUFFICES ASSUME NEW b \in Builders, Sound(b)
                 PROVE  /\ build[b].step \in OnSubnet => portal'[Subnet(build[b].slot)] = b
                        /\ \A z \in RevZones : portal'[Zone(z)] = b =>
                               \E n \in Slots : RevOf[n] = z /\ portal'[Subnet(n)] = b
      BY <1>2 DEF Findable, Sound, LeadsTo
    <2>1. Findable(b) /\ BuildFits(build[b])
      BY Owned
    <2>2. ASSUME build[b].step \in OnSubnet
          PROVE  portal'[Subnet(build[b].slot)] = b
      <3>1. build[b].slot \in Slots /\ portal[Subnet(build[b].slot)] = b /\ build[b].step # "built"
        BY <2>1, <2>2 DEF Findable, BuildFits, OnSubnet
      <3>2. Subnet(build[b].slot) # ref
        BY <1>8, <3>1
      <3> QED
        BY <3>1, <3>2 DEF Erased
    <2>3. ASSUME NEW z \in RevZones, portal'[Zone(z)] = b
          PROVE  \E n \in Slots : RevOf[n] = z /\ portal'[Subnet(n)] = b
      <3>1. portal[Zone(z)] = b
        BY <1>4, <2>3, RefShapes
      <3>2. PICK n \in Slots : RevOf[n] = z /\ portal[Subnet(n)] = b
        BY <2>1, <3>1 DEF Findable, LeadsTo
      <3>3. Subnet(n) # ref
        BY <1>8, <3>1, <3>2
      <3> QED
        BY <3>2, <3>3 DEF Erased
    <2> QED
      BY <2>2, <2>3
  <1>10. \A u \in Teardowns : PlanFits(u)'
    <2> SUFFICES ASSUME NEW u \in Teardowns PROVE PlanFits(u)'
      OBVIOUS
    <2>1. \A b \in Builders : Sound(b)' => Sound(b)
      BY <1>2 DEF Sound
    <2>2. PlanFits(u) /\ down'[u].todo \subseteq down[u].todo
      BY <1>1, Taken
    <2>3. /\ down'[u].step = "delete" => Planned(down'[u].todo) \subseteq down'[u].record
          /\ down'[u].step \notin {"record", "delete"} => down'[u].todo = {}
          /\ \A o \in down'[u].todo : KindFits(o)
      BY <1>1, <1>3, <2>2 DEF PlanFits, Planned
    <2>4. ASSUME NEW b \in Builders, NEW n \in Slots, Sound(b),
                 <<Subnet(n), b>> \in Planned(down'[u].todo)
          PROVE  /\ build[b].step = "built"
                 /\ \A z \in RevZones : portal'[Zone(z)] = b =>
                        \E o \in down'[u].todo : o[1] = "reverse" /\ o[2] = <<Zone(z), b>>
      <3>1. build[b].step = "built" /\ TakesZones(u, b)
        BY <2>2, <2>4 DEF PlanFits, Planned
      <3>2. ASSUME NEW z \in RevZones, portal'[Zone(z)] = b
            PROVE  \E o \in down'[u].todo : o[1] = "reverse" /\ o[2] = <<Zone(z), b>>
        <4>1. portal[Zone(z)] = b /\ Zone(z) # ref
          BY <1>4, <3>2, RefShapes
        <4>2. PICK o \in down[u].todo : o[1] = "reverse" /\ o[2] = <<Zone(z), b>>
          BY <3>1, <4>1 DEF TakesZones
        <4>3. o # e
          BY <1>3, <4>1, <4>2
        <4>4. down'[u].todo # {}
          BY <2>4 DEF Planned
        <4> QED
          BY <1>1, <4>2, <4>3, <4>4
      <3> QED
        BY <3>1, <3>2
    <2> QED
      BY <2>1, <2>3, <2>4 DEF PlanFits, TakesZones
  <1>11. \A u \in Teardowns : SawFits(u)'
    <2> SUFFICES ASSUME NEW u \in Teardowns, NEW b \in down'[u].saw
                 PROVE  /\ build[b].step = "built" /\ build[b].site = down'[u].site
                        /\ b \notin TornInto
                        /\ down'[u].step \in {"record", "delete", "done"} =>
                               \A r \in Refs : portal'[r] = b => <<r, b>> \in Planned(down'[u].todo)
      BY <1>2 DEF SawFits
    <2>1. /\ SawFits(u) /\ down'[u].saw = down[u].saw /\ down'[u].site = down[u].site
          /\ b \in Builders /\ b \in down[u].saw
      BY <1>1, Taken, DownFields
    <2>2. ASSUME down'[u].step \in {"record", "delete", "done"}, NEW r \in Refs, portal'[r] = b
          PROVE  <<r, b>> \in Planned(down'[u].todo)
      <3>1. portal[r] = b /\ r # ref /\ down[u].step \in {"record", "delete", "done"}
        BY <1>1, <1>3, <1>4, <2>1, <2>2
      <3>2. <<r, b>> \in Planned(down[u].todo)
        BY <2>1, <3>1 DEF SawFits
      <3>3. PICK o \in down[u].todo : o[2] = <<r, b>>
        BY <3>2 DEF Planned
      <3>4. o # e
        BY <1>3, <3>1, <3>3
      <3>5. o \in down'[u].todo
        BY <1>1, <2>2, <3>3, <3>4
      <3> QED
        BY <3>3, <3>5 DEF Planned
    <2> QED
      BY <2>1, <2>2 DEF SawFits
  <1> QED
    BY <1>5, <1>6, <1>7, <1>9, <1>10, <1>11 DEF ProvisionInv

(* What a teardown plans: it can find all that a complete, sound build     *)
(* still has, and it takes subnets only by their tag.                      *)
LEMMA PlanShape ==
    ASSUME ProvisionInv, NEW s \in Sites
    PROVE  Plan(s) \in SUBSET Entries /\ \A e \in Plan(s) : KindFits(e)
  <1> SUFFICES ASSUME NEW e \in Plan(s) PROVE e \in Entries /\ KindFits(e)
    OBVIOUS
  <1>1. \A r \in Refs : IdOf(r) \in Ids /\ IdOf(r)[1] = r
    BY DEF ProvisionInv, ProvisionTypeOK, IdOf, Ids
  <1>2. CASE \E r \in {Zone(s)} \cap There : e = <<"zone", IdOf(r)>>
    BY <1>1, <1>2, RefShapes DEF There, Entries, KindFits
  <1>3. CASE \E n \in RangesOf(s) : e = <<"range", IdOf(DhcpRange(n))>>
    BY <1>1, <1>3, RefShapes DEF RangesOf, Entries, KindFits
  <1>4. CASE \E n \in Slots : /\ Zone(RevOf[n]) \in There
                              /\ e = <<"reverse", IdOf(Zone(RevOf[n])), n>>
    BY <1>1, <1>4, RefShapes, ProvisionAssumption DEF There, Entries, KindFits
  <1>5. CASE \E n \in TaggedSlots(s) : e = <<"subnet", IdOf(Subnet(n))>>
    BY <1>1, <1>5, RefShapes DEF TaggedSlots, Entries, KindFits
  <1>6. CASE \E r \in Hosts(s) \cap There : e = <<"host", IdOf(r)>>
    BY <1>1, <1>6, RefShapes DEF There, Entries, KindFits
  <1> QED
    BY <1>2, <1>3, <1>4, <1>5, <1>6 DEF Plan, TaggedSlots

LEMMA PlanTakesTagged ==
    ASSUME ProvisionInv, NEW s \in Sites, NEW n \in Slots, NEW b,
           <<Subnet(n), b>> \in Planned(Plan(s))
    PROVE  tag[n] = s /\ portal[Subnet(n)] = b
  <1>1. PICK e \in Plan(s) : e[2] = <<Subnet(n), b>>
    BY DEF Planned
  <1>2. e[1] = "subnet"
    BY <1>1, PlanShape, RefShapes DEF KindFits
  <1>3. PICK m \in TaggedSlots(s) : e = <<"subnet", IdOf(Subnet(m))>>
    BY <1>2 DEF Plan
  <1>4. Subnet(m) = Subnet(n) /\ portal[Subnet(m)] = b
    BY <1>1, <1>3 DEF IdOf
  <1> QED
    BY <1>3, <1>4, RefShapes DEF TaggedSlots

LEMMA PlanFindsReverse ==
    ASSUME ProvisionInv, NEW b \in Builders, Sound(b), build[b].step = "built",
           NEW z \in RevZones, portal[Zone(z)] = b
    PROVE  \E m \in Slots : <<"reverse", <<Zone(z), b>>, m>> \in Plan(build[b].site)
  <1>1. PICK m \in Slots : RevOf[m] = z /\ portal[Subnet(m)] = b
    BY Owned DEF Findable, LeadsTo
  <1>2. tag[m] = build[b].site
    BY <1>1 DEF ProvisionInv, TagsFit
  <1>3. Zone(RevOf[m]) \in There /\ IdOf(Zone(RevOf[m])) = <<Zone(z), b>>
    BY <1>1, RefShapes, OwnersDiffer DEF There, IdOf
  <1>4. m \in {o \in TaggedSlots(build[b].site) : Zone(RevOf[o]) \in There}
    BY <1>2, <1>3 DEF TaggedSlots
  <1> QED
    BY <1>3, <1>4 DEF Plan

LEMMA PlanFindsAll ==
    ASSUME ProvisionInv, NEW b \in Builders, Sound(b), build[b].step = "built",
           NEW r \in Refs, portal[r] = b
    PROVE  <<r, b>> \in Planned(Plan(build[b].site))
  <1> DEFINE s == build[b].site
  <1>1. s \in Sites /\ r \in RefsOf(s)
    BY Owned DEF Accounted, BuildFits
  <1>2. r \in There /\ IdOf(r) = <<r, b>>
    BY OwnersDiffer DEF There, IdOf
  <1>3. CASE \E n \in Slots : r = Subnet(n)
    <2>1. PICK n \in Slots : r = Subnet(n)
      BY <1>3
    <2>2. n \in TaggedSlots(s)
      BY <2>1 DEF ProvisionInv, TagsFit, TaggedSlots
    <2>3. <<"subnet", <<r, b>>>> \in Plan(s)
      BY <1>2, <2>1, <2>2 DEF Plan
    <2> QED
      BY <2>3 DEF Planned
  <1>4. CASE \E n \in Slots : r = DhcpRange(n)
    <2>1. PICK n \in Slots : r = DhcpRange(n)
      BY <1>4
    <2>2. n \in RangesOf(s)
      BY <2>1 DEF RangesOf
    <2>3. <<"range", <<r, b>>>> \in Plan(s)
      BY <1>2, <2>1, <2>2 DEF Plan
    <2> QED
      BY <2>3 DEF Planned
  <1>5. CASE \E z \in RevZones : r = Zone(z)
    <2>1. PICK z \in RevZones : r = Zone(z)
      BY <1>5
    <2>2. PICK m \in Slots : <<"reverse", <<Zone(z), b>>, m>> \in Plan(s)
      BY <2>1, PlanFindsReverse
    <2> QED
      BY <2>1, <2>2 DEF Planned
  <1>6. CASE r = Zone(s)
    <2>1. <<"zone", <<r, b>>>> \in Plan(s)
      BY <1>2, <1>6 DEF Plan
    <2> QED
      BY <2>1 DEF Planned
  <1>7. CASE r \in Hosts(s)
    <2>1. <<"host", <<r, b>>>> \in Plan(s)
      BY <1>2, <1>7 DEF Plan
    <2> QED
      BY <2>1 DEF Planned
  <1>8. \/ \E n \in Slots : r = Subnet(n)
        \/ \E n \in Slots : r = DhcpRange(n)
        \/ \E z \in RevZones \cup {s} : r = Zone(z)
        \/ r \in Hosts(s)
    BY <1>1 DEF RefsOf
  <1> QED
    BY <1>3, <1>4, <1>5, <1>6, <1>7, <1>8

-----------------------------------------------------------------------------
(* The teardown's steps.                                                   *)
LEMMA StartTeardownKeeps ==
    ASSUME ProvisionInv, NEW t \in Teardowns, NEW s \in Sites, StartTeardown(t, s)
    PROVE  ProvisionInv'
  <1> DEFINE p == Plan(s)
             a == down[t].amid \cup UnderWay(s)
             w == IF down[t].step = "idle" THEN BuiltOf(s) \ TornInto ELSE down[t].saw
             d == Restarted(s, p, a, w)
  <1>1. /\ down[t] \in Downs /\ PlanFits(t) /\ SawFits(t)
        /\ down[t].amid \subseteq Builders /\ down[t].saw \subseteq Builders
    BY Taken, DownFields
  <1>2. /\ \/ down[t].step = "idle"
           \/ down[t].step = "incomplete" /\ down[t].site = s
        /\ down' = [down EXCEPT ![t] = d] /\ Right
        /\ UNCHANGED <<portal, tag, build, unanswered>>
    BY DEF StartTeardown, Restarted
  <1>3. p \in SUBSET Entries /\ \A e \in p : KindFits(e)
    BY PlanShape
  <1>4. a \in SUBSET Builders /\ w \in SUBSET Builders
    BY <1>1 DEF UnderWay, BuiltOf
  <1>5. /\ d \in Downs /\ d.step = "record" /\ d.site = s /\ d.todo = p
        /\ d.amid = a /\ d.saw = w
    BY <1>1, <1>3, <1>4, RestartedOf
  <1>6. \A b \in a \ down[t].amid : build[b].step # "built"
    BY DEF UnderWay
  <1>7. ASSUME NEW b \in w
        PROVE  /\ b \in Builders /\ build[b].step = "built" /\ build[b].site = s
               /\ b \notin TornInto /\ b \notin a
    <2>1. b \in Builders /\ build[b].step = "built" /\ build[b].site = s /\ b \notin TornInto
      BY <1>1, <1>2, <1>7 DEF SawFits, BuiltOf
    <2> QED
      BY <2>1 DEF TornInto, UnderWay
  <1>8. ASSUME NEW b \in Builders, NEW n \in Slots, Sound(b), b \notin a,
               <<Subnet(n), b>> \in Planned(p)
        PROVE  /\ build[b].step = "built"
               /\ \A z \in RevZones : portal[Zone(z)] = b =>
                      \E o \in p : o[1] = "reverse" /\ o[2] = <<Zone(z), b>>
    <2>1. tag[n] = s /\ portal[Subnet(n)] = b
      BY <1>8, PlanTakesTagged
    <2>2. build[b].site = s
      BY <2>1, ProvisionAssumption DEF ProvisionInv, TagsFit
    <2>3. build[b].step = "built"
      BY <1>8, <2>2 DEF UnderWay
    <2>4. ASSUME NEW z \in RevZones, portal[Zone(z)] = b
          PROVE  \E o \in p : o[1] = "reverse" /\ o[2] = <<Zone(z), b>>
      BY <1>8, <2>2, <2>3, <2>4, PlanFindsReverse
    <2> QED
      BY <2>3, <2>4
  <1>9. \A b \in w : \A r \in Refs : portal[r] = b => <<r, b>> \in Planned(p)
    BY <1>7, PlanFindsAll DEF Sound
  <1> HIDE DEF p, a, w, d
  <1>10. PlanOK(d)
    BY <1>3, <1>5, <1>8 DEF PlanOK
  <1>11. SawOK(d)
    BY <1>5, <1>7, <1>9 DEF SawOK
  <1>12. down[t].amid \subseteq d.amid /\ \A b \in d.amid \ down[t].amid : build[b].step # "built"
    BY <1>5, <1>6 DEF a
  <1>13. DownStep(t, d)
    BY <1>2, <1>5, <1>10, <1>11, <1>12, WrongOf DEF DownStep
  <1> QED
    BY <1>13, DownStepKeeps

LEMMA WriteRecordKeeps ==
    ASSUME ProvisionInv, NEW t \in Teardowns, WriteRecord(t)
    PROVE  ProvisionInv'
  <1> DEFINE r == Planned(down[t].todo)
  <1>1. down[t] \in Downs /\ PlanFits(t) /\ SawFits(t) /\ down[t].step = "record"
    BY Taken DEF WriteRecord
  <1>2. \/ Right /\ down' = [down EXCEPT ![t] = RecordWritten(down[t], r)]
        \/ Wrong /\ down' = [down EXCEPT ![t] = RecordLost(down[t])]
    BY <1>1, Taken DEF WriteRecord, RecordWritten, RecordLost
  <1>3. r \in SUBSET Ids
    BY <1>1, DownFields, EntryId DEF Planned
  <1>4. UNCHANGED <<portal, tag, build, unanswered>>
    BY DEF WriteRecord
  <1>5. SawOK(down[t]) /\ PlanOK(down[t])
    <2>1. down[t].amid \subseteq TornInto
      BY DEF TornInto
    <2> QED
      BY <1>1, <2>1 DEF SawFits, SawOK, PlanFits, PlanOK, TakesZones
  <1>6. CASE Right /\ down' = [down EXCEPT ![t] = RecordWritten(down[t], r)]
    <2> DEFINE d == RecordWritten(down[t], r)
    <2>1. /\ d \in Downs /\ d.step = "delete" /\ d.site = down[t].site
          /\ d.todo = down[t].todo /\ d.record = r /\ d.amid = down[t].amid
          /\ d.saw = down[t].saw
      BY <1>1, <1>3, RecordWrittenOf
    <2> HIDE DEF d
    <2>2. PlanOK(d) /\ SawOK(d)
      <3>1. Planned(d.todo) \subseteq d.record
        BY <2>1
      <3>2. PlanOK(d)
        BY <1>5, <2>1, <3>1 DEF PlanOK
      <3>3. SawOK(d)
        BY <1>1, <1>5, <2>1 DEF SawOK
      <3> QED
        BY <3>2, <3>3
    <2>3. DownStep(t, d)
      BY <1>4, <1>6, <2>1, <2>2, WrongOf DEF DownStep, d
    <2> QED
      BY <2>3, DownStepKeeps
  <1>7. CASE Wrong /\ down' = [down EXCEPT ![t] = RecordLost(down[t])]
    <2> DEFINE d == RecordLost(down[t])
    <2>1. /\ d \in Downs /\ d.step = "incomplete" /\ d.site = down[t].site
          /\ d.todo = {} /\ d.amid = down[t].amid /\ d.saw = down[t].saw
      BY <1>1, RecordLostOf
    <2> HIDE DEF d
    <2>2. PlanOK(d) /\ SawOK(d)
      BY <1>1, <1>5, <2>1 DEF PlanOK, SawOK, Planned
    <2>3. DownStep(t, d)
      BY <1>4, <1>7, <2>1, <2>2, WrongOf DEF DownStep, d
    <2> QED
      BY <2>3, DownStepKeeps
  <1> QED
    BY <1>2, <1>6, <1>7

LEMMA TakenDownKeeps ==
    ASSUME ProvisionInv, NEW t \in Teardowns, TakenDown(t)
    PROVE  ProvisionInv'
  <1> DEFINE d == Completed(down[t])
  <1>1. /\ down[t] \in Downs /\ PlanFits(t) /\ SawFits(t)
        /\ down[t].step = "delete" /\ down[t].todo = {}
    BY Taken DEF TakenDown
  <1>2. Right /\ down' = [down EXCEPT ![t] = d] /\ UNCHANGED <<portal, tag, build, unanswered>>
    BY <1>1, Taken DEF TakenDown, Completed
  <1>3. /\ d \in Downs /\ d.step = "done" /\ d.site = down[t].site
        /\ d.todo = {} /\ d.amid = down[t].amid /\ d.saw = down[t].saw
    BY <1>1, CompletedOf
  <1> HIDE DEF d
  <1>4. PlanOK(d)
    BY <1>3 DEF PlanOK, Planned
  <1>5. SawOK(d)
    BY <1>1, <1>3 DEF SawOK, SawFits, TornInto
  <1>6. DownStep(t, d)
    BY <1>2, <1>3, <1>4, <1>5, WrongOf DEF DownStep
  <1> QED
    BY <1>6, DownStepKeeps

LEMMA TakeDownKeeps ==
    ASSUME ProvisionInv, NEW t \in Teardowns, NEW e \in down[t].todo, TakeDown(t, e)
    PROVE  ProvisionInv'
  <1> DEFINE less == OneLess(down[t], e)
             lost == GivenUp(down[t])
  <1>1. /\ down[t] \in Downs /\ PlanFits(t) /\ SawFits(t)
        /\ down[t].step = "delete" /\ NextToDelete(t, e) /\ UNCHANGED <<build, unanswered>>
    BY Taken DEF TakeDown, NextToDelete
  <1>2. /\ e \in Entries /\ e[2][1] \in Refs /\ e[2] = <<e[2][1], e[2][2]>>
    BY <1>1, DownFields, EntryId
  <1>3. \/ Right /\ DeleteDone(e[2]) /\ down' = [down EXCEPT ![t] = less]
        \/ (Right \/ Wrong) /\ DeleteDone(e[2]) /\ down' = [down EXCEPT ![t] = lost]
        \/ (Right \/ Wrong) /\ UNCHANGED <<portal, tag>> /\ down' = [down EXCEPT ![t] = lost]
    <2>1. [down EXCEPT ![t].todo = @ \ {e}] = [down EXCEPT ![t] = less]
      BY <1>1, Taken DEF OneLess
    <2>2. [down EXCEPT ![t].step = "incomplete", ![t].todo = {}, ![t].record = {}]
              = [down EXCEPT ![t] = lost]
      BY <1>1, Taken DEF GivenUp, Downs
    <2> HIDE DEF less, lost
    <2> QED
      BY <2>1, <2>2 DEF TakeDown, DeleteFails
  <1>4. /\ less \in Downs /\ less.step = "delete" /\ less.site = down[t].site
        /\ less.todo = down[t].todo \ {e} /\ less.record = down[t].record
        /\ less.amid = down[t].amid /\ less.saw = down[t].saw
    BY <1>1, OneLessOf
  <1>5. /\ lost \in Downs /\ lost.step = "incomplete" /\ lost.site = down[t].site
        /\ lost.todo = {} /\ lost.amid = down[t].amid /\ lost.saw = down[t].saw
    BY <1>1, GivenUpOf
  <1> HIDE DEF less, lost
  <1>6. ASSUME DeleteDone(e[2])
        PROVE  portal[e[2][1]] = e[2][2] /\ Erased(e[2][1])
    <2> DEFINE ref == e[2][1]
    <2>1. ref \in Refs /\ Erase(ref) /\ portal[ref] = e[2][2]
      BY <1>2, <1>6 DEF DeleteDone, Exists
    <2> HIDE DEF ref
    <2>2. portal \in [Refs -> Owners] /\ tag \in [Slots -> Sites \cup {NoSite}]
      BY DEF ProvisionInv, ProvisionTypeOK
    <2>3. Erased(ref)
      BY <2>1, <2>2, EraseIsErased
    <2> QED
      BY <2>1, <2>3 DEF ref
  <1>7. CASE Right /\ DeleteDone(e[2]) /\ down' = [down EXCEPT ![t] = less]
    <2>1. DeletingStep(t, less, e)
      BY <1>1, <1>4, <1>6, <1>7, WrongOf DEF DeletingStep
    <2> QED
      BY <2>1, DeletingKeeps
  <1>8. CASE (Right \/ Wrong) /\ DeleteDone(e[2]) /\ down' = [down EXCEPT ![t] = lost]
    <2>1. DeletingStep(t, lost, e)
      BY <1>1, <1>5, <1>6, <1>8, WrongOf DEF DeletingStep
    <2> QED
      BY <2>1, DeletingKeeps
  <1>9. CASE (Right \/ Wrong) /\ UNCHANGED <<portal, tag>> /\ down' = [down EXCEPT ![t] = lost]
    <2>1. PlanOK(lost)
      BY <1>5 DEF PlanOK, Planned
    <2>2. SawOK(lost)
      BY <1>1, <1>5 DEF SawOK, SawFits, TornInto
    <2>3. DownStep(t, lost)
      BY <1>1, <1>5, <1>9, <2>1, <2>2, WrongOf DEF DownStep
    <2> QED
      BY <2>3, DownStepKeeps
  <1> QED
    BY <1>3, <1>7, <1>8, <1>9

-----------------------------------------------------------------------------
(* The invariant holds at first, and over every step.                      *)
LEMMA InitProvisionInv == Init => ProvisionInv
  <1> SUFFICES ASSUME Init PROVE ProvisionInv
    OBVIOUS
  <1>1. PICK zones \in SUBSET RevZones : portal = Customers(zones)
    BY DEF Init
  <1>2. /\ portal \in [Refs -> Owners] /\ \A r \in Refs : portal[r] \notin Builders
        /\ \A n \in Slots : portal[Subnet(n)] = Free
    <2>1. \A n \in Slots, z \in RevZones : Subnet(n) # Zone(z)
      BY RefShapes
    <2> QED
      BY <1>1, <2>1, OwnersDiffer, RefShapes DEF Customers
  <1>3. "idle" \in BuildSteps /\ NoSite \in Sites \cup {NoSite}
    BY DEF BuildSteps
  <1>4. Fresh \in Builds /\ Fresh.step = "idle" /\ Lists(Fresh) = {}
        /\ Fresh.made = {} /\ Fresh.unknown = {}
    BY <1>3, FreshOf DEF Lists
  <1>5. NotDown \in Downs /\ NotDown.step = "idle" /\ NotDown.todo = {} /\ NotDown.saw = {}
    BY DEF NotDown, Downs
  <1>6. BuildFits(Fresh)
    BY <1>4 DEF BuildFits, OnTemplate, OnSubnet
  <1> HIDE DEF Fresh, NotDown
  <1>7. /\ build \in [Builders -> Builds] /\ \A b \in Builders : build[b] = Fresh
        /\ down \in [Teardowns -> Downs] /\ \A t \in Teardowns : down[t] = NotDown
        /\ tag \in [Slots -> Sites \cup {NoSite}] /\ \A n \in Slots : tag[n] = NoSite
        /\ wrong = 0 /\ unanswered = {}
    BY <1>4, <1>5 DEF Init
  <1>8. ProvisionTypeOK
    BY <1>2, <1>4, <1>7, ProvisionAssumption DEF ProvisionTypeOK, Lists
  <1>9. \A b \in Builders : BuildFits(build[b]) /\ Accounted(b) /\ Findable(b)
    <2>1. \A z \in RevZones, b \in Builders : portal[Zone(z)] # b
      BY <1>2, RefShapes
    <2> QED
      BY <1>2, <1>4, <1>6, <1>7, <2>1 DEF Accounted, Findable, OnSubnet
  <1>10. TagsFit
    BY <1>2, <1>7, OwnersDiffer DEF TagsFit
  <1>11. \A t \in Teardowns : PlanFits(t) /\ SawFits(t)
    BY <1>5, <1>7 DEF PlanFits, SawFits, Planned
  <1> QED
    BY <1>8, <1>9, <1>10, <1>11 DEF ProvisionInv

LEMMA BuildStepKeeps ==
    ASSUME ProvisionInv, NEW b \in Builders, BuildStep(b)
    PROVE  ProvisionInv'
  BY StartBuildKeeps, CheckSiteKeeps, CreateSubnetKeeps, TagSubnetKeeps, CreateRangeKeeps,
     ReverseZonesKeep, FindZoneKeeps, MakeZoneKeeps, CreateHostKeeps, UndoKeeps, RolledBackKeeps
  DEF BuildStep

LEMMA TeardownStepKeeps ==
    ASSUME ProvisionInv, NEW t \in Teardowns, TeardownStep(t)
    PROVE  ProvisionInv'
  BY StartTeardownKeeps, WriteRecordKeeps, TakenDownKeeps, TakeDownKeeps DEF TeardownStep

LEMMA ProvisionStepInv == ProvisionInv /\ [Next]_vars => ProvisionInv'
  <1> SUFFICES ASSUME ProvisionInv, [Next]_vars PROVE ProvisionInv'
    OBVIOUS
  <1>1. CASE Next
    BY <1>1, BuildStepKeeps, TeardownStepKeeps DEF Next
  <1>2. CASE UNCHANGED vars
    <2> USE <1>2 DEF vars
    <2>1. ProvisionTypeOK'
      BY DEF ProvisionInv, ProvisionTypeOK
    <2>2. TornInto' = TornInto
      BY DEF TornInto
    <2>3. \A b \in Builders : BuildFits(build[b])' /\ Accounted(b)'
      BY DEF ProvisionInv, BuildFits, Accounted
    <2>4. \A b \in Builders : Findable(b)'
      BY <2>2 DEF ProvisionInv, Findable, Sound, LeadsTo
    <2>5. TagsFit'
      BY DEF ProvisionInv, TagsFit
    <2>6. \A t \in Teardowns : PlanFits(t)'
      <3>1. \A b \in Builders : Sound(b)' = Sound(b)
        BY <2>2 DEF Sound
      <3>2. \A t \in Teardowns : PlanFits(t)
        BY DEF ProvisionInv
      <3> QED
        BY <3>1, <3>2 DEF PlanFits, TakesZones
    <2>7. \A t \in Teardowns : SawFits(t)'
      BY <2>2 DEF ProvisionInv, SawFits
    <2> QED
      BY <2>1, <2>3, <2>4, <2>5, <2>6, <2>7 DEF ProvisionInv
  <1> QED
    BY <1>1, <1>2

(* ProvisionInv holds in every reachable state.                            *)
THEOREM ProvisionInductive == Spec => []ProvisionInv
  <1>1. Init => ProvisionInv
    BY InitProvisionInv
  <1>2. ProvisionInv /\ [Next]_vars => ProvisionInv'
    BY ProvisionStepInv
  <1> QED
    BY <1>1, <1>2, PTL DEF Spec

(* A failed build has undone or names all it made and heard about, a site  *)
(* that was built whole keeps its tag on its subnets, and a teardown that  *)
(* reports success leaves nothing of the builds it found complete.         *)
THEOREM BuildsAlwaysAccount == Spec => []BuildsAccount
  <1>1. ProvisionInv => BuildsAccount
    <2> SUFFICES ASSUME ProvisionInv PROVE BuildsAccount
      OBVIOUS
    <2>1. ProvisionTypeOK
      BY DEF ProvisionInv
    <2>2. FailedBuildAccounts
      <3> SUFFICES ASSUME NEW b \in Builders, build[b].step = "failed",
                          NEW r \in Refs, portal[r] = b
                   PROVE  <<r, b>> \in build[b].residual \cup unanswered
        BY DEF FailedBuildAccounts
      <3>1. build[b].made = {} /\ build[b].unknown = {}
        BY Owned DEF BuildFits
      <3> QED
        BY <3>1, Owned DEF Accounted
    <2>3. BuiltSitesAreTagged
      BY DEF BuiltSitesAreTagged, ProvisionInv, TagsFit
    <2>4. TeardownLeavesNothing
      <3> SUFFICES ASSUME NEW t \in Teardowns, down[t].step = "done", NEW b \in down[t].saw,
                          NEW r \in Refs
                   PROVE  portal[r] # b
        BY DEF TeardownLeavesNothing
      <3>1. down[t].todo = {} /\ SawFits(t)
        BY Taken DEF PlanFits
      <3> QED
        BY <3>1 DEF SawFits, Planned
    <2> QED
      BY <2>1, <2>2, <2>3, <2>4 DEF BuildsAccount
  <1> QED
    BY <1>1, ProvisionInductive, PTL

-----------------------------------------------------------------------------
(* What a step deletes.                                                    *)
LEMMA ErasedDeletes ==
    ASSUME NEW ref \in Refs, Erased(ref), portal[ref] # Free
    PROVE  Deleted \subseteq {ref}
  <1> SUFFICES ASSUME NEW r \in Deleted, r # ref PROVE FALSE
    OBVIOUS
  <1>1. r \in Refs /\ Gone(r)
    BY DEF Deleted
  <1>2. PICK n \in Slots : ref = Subnet(n) /\ r = DhcpRange(n)
    BY <1>1 DEF Erased, Gone
  <1>3. Gone(Subnet(n))
    BY <1>2 DEF Erased, Gone
  <1> QED
    BY <1>2, <1>3 DEF Deleted

MakesOnly == \A r \in Refs : portal'[r] # portal[r] => portal[r] = Free

LEMMA MakersDeleteNothing ==
    ASSUME MakesOnly
    PROVE  Deleted = {}
  BY DEF MakesOnly, Deleted, Gone

(* Only an undo deletes anything of the steps of a build.                  *)
LEMMA BuildStepsMake ==
    ASSUME ProvisionInv, NEW b \in Builders, BuildStep(b)
    PROVE  MakesOnly \/ \E id \in ToUndo(b) : Undo(b, id)
  <1>1. portal \in [Refs -> Owners]
    BY DEF ProvisionInv, ProvisionTypeOK
  <1>2. \A ref : Makes(b, ref) => MakesOnly
    BY <1>1 DEF Makes, MakesOnly
  <1>3. portal' = portal => MakesOnly
    BY DEF MakesOnly
  <1>4. \A ref : Unmade(b, ref) \/ Errs(b, ref) => MakesOnly
    BY <1>2, <1>3 DEF Unmade, Errs
  <1>5. \A ref, next : Answered(b, ref, next) => MakesOnly
    BY <1>2 DEF Answered
  <1>6. CASE \E s \in Sites : StartBuild(b, s)
    BY <1>3, <1>6 DEF StartBuild
  <1>7. CASE CheckSite(b) \/ TagSubnet(b) \/ FindReverseZone(b) \/ FindZone(b) \/ RolledBack(b)
    BY <1>3, <1>7 DEF CheckSite, TagSubnet, FindReverseZone, FindZone, RolledBack
  <1>8. CASE CreateSubnet(b)
    BY <1>2, <1>3, <1>8 DEF CreateSubnet
  <1>9. CASE CreateRange(b)
    BY <1>3, <1>4, <1>5, <1>9 DEF CreateRange
  <1>10. CASE MakeReverseZone(b)
    BY <1>4, <1>5, <1>10 DEF MakeReverseZone
  <1>11. CASE MakeZone(b)
    BY <1>2, <1>4, <1>11 DEF MakeZone
  <1>12. CASE CreateHost(b)
    BY <1>3, <1>4, <1>5, <1>12 DEF CreateHost
  <1> QED
    BY <1>6, <1>7, <1>8, <1>9, <1>10, <1>11, <1>12 DEF BuildStep

(* An undo or a delete takes one object, by an ID its request holds.       *)
LEMMA DeleteTakesOne ==
    ASSUME ProvisionInv, NEW id \in Ids,
           DeleteDone(id) \/ DeleteFails(id) \/ UNCHANGED <<portal, tag>>
    PROVE  \A r \in Deleted : r = id[1] /\ portal[r] = id[2]
  <1>1. portal \in [Refs -> Owners] /\ tag \in [Slots -> Sites \cup {NoSite}]
    BY DEF ProvisionInv, ProvisionTypeOK
  <1>2. CASE UNCHANGED <<portal, tag>>
    BY <1>2, MakersDeleteNothing DEF MakesOnly
  <1>3. CASE DeleteDone(id)
    <2> DEFINE ref == id[1]
    <2>1. ref \in Refs /\ Erase(ref) /\ portal[ref] = id[2] /\ portal[ref] # Free
      BY <1>3 DEF DeleteDone, Exists, Ids
    <2> HIDE DEF ref
    <2>2. Erased(ref)
      BY <1>1, <2>1, EraseIsErased
    <2>3. Deleted \subseteq {ref}
      BY <2>1, <2>2, ErasedDeletes
    <2> QED
      BY <2>1, <2>3 DEF ref
  <1> QED
    BY <1>2, <1>3 DEF DeleteFails

LEMMA UndoTakesItsOwn ==
    ASSUME ProvisionInv, NEW b \in Builders, NEW id \in ToUndo(b), Undo(b, id)
    PROVE  \A r \in Deleted : portal[r] = b
  <1>1. id \in Refs \X {b} /\ id \in Ids
    BY Owned, OwnersDiffer DEF ToUndo, Lists, Ids
  <1>2. DeleteDone(id) \/ DeleteFails(id) \/ UNCHANGED <<portal, tag>>
    BY DEF Undo
  <1> QED
    BY <1>1, <1>2, DeleteTakesOne

(* A step is of one request, and changes no other's state.                 *)
LEMMA BuildsKeepApart ==
    ASSUME ProvisionInv, NEW b \in Builders, BuildStep(b)
    PROVE  down' = down /\ \A c \in Builders \ {b} : build'[c] = build[c]
  <1>1. build \in [Builders -> Builds]
    BY DEF ProvisionInv, ProvisionTypeOK
  <1>2. \A x : Goto(b, x) \/ GoWrong(b, x) => \A c \in Builders \ {b} : build'[c] = build[c]
    BY <1>1 DEF Goto, GoWrong
  <1>3. Fails(b) \/ Refused(b) => \A c \in Builders \ {b} : build'[c] = build[c]
    BY <1>2 DEF Fails, Refused
  <1>4. \A ref : Unmade(b, ref) \/ Errs(b, ref) => \A c \in Builders \ {b} : build'[c] = build[c]
    BY <1>3 DEF Unmade, Errs
  <1>5. \A ref, next : Answered(b, ref, next) => \A c \in Builders \ {b} : build'[c] = build[c]
    BY <1>2 DEF Answered
  <1>6. CASE \E s \in Sites : StartBuild(b, s)
    BY <1>2, <1>6 DEF StartBuild
  <1>7. CASE CheckSite(b) \/ TagSubnet(b) \/ RolledBack(b)
    BY <1>2, <1>3, <1>7 DEF CheckSite, TagSubnet, RolledBack
  <1>8. CASE FindReverseZone(b) \/ FindZone(b)
    BY <1>2, <1>3, <1>8 DEF FindReverseZone, FindZone
  <1>9. CASE CreateSubnet(b)
    BY <1>2, <1>3, <1>9 DEF CreateSubnet
  <1>10. CASE CreateRange(b) \/ MakeReverseZone(b)
    BY <1>2, <1>4, <1>5, <1>10 DEF CreateRange, MakeReverseZone
  <1>11. CASE MakeZone(b)
    BY <1>2, <1>4, <1>11 DEF MakeZone
  <1>12. CASE CreateHost(b)
    BY <1>2, <1>4, <1>5, <1>12 DEF CreateHost
  <1>13. CASE \E id \in ToUndo(b) : Undo(b, id)
    BY <1>1, <1>2, <1>13 DEF Undo
  <1> QED
    BY <1>6, <1>7, <1>8, <1>9, <1>10, <1>11, <1>12, <1>13 DEF BuildStep

LEMMA TeardownsKeepApart ==
    ASSUME ProvisionInv, NEW t \in Teardowns, TeardownStep(t)
    PROVE  build' = build /\ \A u \in Teardowns \ {t} : down'[u] = down[u]
  <1>1. down \in [Teardowns -> Downs]
    BY Taken
  <1>2. CASE \E s \in Sites : StartTeardown(t, s)
    BY <1>1, <1>2 DEF StartTeardown
  <1>3. CASE WriteRecord(t) \/ TakenDown(t)
    BY <1>1, <1>3 DEF WriteRecord, TakenDown
  <1>4. CASE \E e \in down[t].todo : TakeDown(t, e)
    BY <1>1, <1>4 DEF TakeDown
  <1> QED
    BY <1>2, <1>3, <1>4 DEF TeardownStep

(* A rollback deletes only what its build made, and a teardown only what   *)
(* the record this attempt wrote names.                                    *)
THEOREM DeletesAlwaysOwnAndRecorded == Spec => DeletesAreOwnAndRecorded
  <1> DEFINE Own == \A b \in Builders : build'[b] # build[b] => \A r \in Deleted : portal[r] = b
             Recorded == \A t \in Teardowns : down'[t] # down[t] =>
                             \A r \in Deleted : IdOf(r) \in down[t].record
  <1>1. ProvisionInv /\ [Next]_vars => Own
    <2> SUFFICES ASSUME ProvisionInv, Next, NEW b \in Builders, build'[b] # build[b]
                 PROVE  \A r \in Deleted : portal[r] = b
      BY DEF vars
    <2>1. BuildStep(b)
      <3>1. PICK c \in Builders : BuildStep(c)
        BY TeardownsKeepApart DEF Next
      <3> QED
        BY <3>1, BuildsKeepApart
    <2> QED
      BY <2>1, BuildStepsMake, MakersDeleteNothing, UndoTakesItsOwn
  <1>2. ProvisionInv /\ [Next]_vars => Recorded
    <2> SUFFICES ASSUME ProvisionInv, Next, NEW t \in Teardowns, down'[t] # down[t]
                 PROVE  \A r \in Deleted : IdOf(r) \in down[t].record
      BY DEF vars
    <2>1. TeardownStep(t)
      <3>1. PICK u \in Teardowns : TeardownStep(u)
        BY BuildsKeepApart DEF Next
      <3> QED
        BY <3>1, TeardownsKeepApart
    <2>2. MakesOnly \/ \E e \in down[t].todo : TakeDown(t, e)
      BY <2>1 DEF TeardownStep, StartTeardown, WriteRecord, TakenDown, MakesOnly
    <2>3. ASSUME NEW e \in down[t].todo, TakeDown(t, e), NEW r \in Deleted
          PROVE  IdOf(r) \in down[t].record
      <3>1. e[2] \in Ids /\ e[2] = <<e[2][1], e[2][2]>>
        BY Taken, DownFields, EntryId
      <3>2. r = e[2][1] /\ portal[r] = e[2][2]
        BY <2>3, <3>1, DeleteTakesOne DEF TakeDown
      <3>3. e[2] \in down[t].record
        BY <2>3, Taken DEF TakeDown, NextToDelete, PlanFits, Planned
      <3> QED
        BY <3>1, <3>2, <3>3 DEF IdOf
    <2> QED
      BY <2>2, <2>3, MakersDeleteNothing
  <1>3. Spec => [][Own]_vars /\ [][Recorded]_vars
    BY <1>1, <1>2, ProvisionInductive, PTL DEF Spec
  <1> QED
    BY <1>3 DEF DeletesAreOwnAndRecorded, RollbackTakesOnlyItsOwn, NothingDeletedUnrecorded

-----------------------------------------------------------------------------
(***************************************************************************)
(* The audit log.                                                          *)
(***************************************************************************)

(* Entries link to the one before, whoever edits their contents.           *)
Chained(es) == \A i \in 1 .. Len(es) : es[i].prev = IF i = 1 THEN NoId ELSE es[i - 1].id

(* The file: ids rise and were all given out; positions are kept; only     *)
(* harm makes an entry untrue, only a server without a key an unsigned one.*)
FileFits(es, t) ==
    /\ Chained(es)
    /\ \A i, j \in 1 .. Len(es) : i < j => es[i].id < es[j].id
    /\ \A i \in 1 .. Len(es) :
           /\ es[i].id <= t.entries /\ es[i].at = i - 1
           /\ t.harm = 0 => es[i].true
           /\ ~t.keyless => es[i].key # NoAuditKey

(* What was or will be sealed, against the file: an entry that is true has *)
(* one content, and nobody but the server can take a sealed prefix away.   *)
SealFits(w, es, t) ==
    /\ Chained(w)
    /\ \A i \in 1 .. Len(w) : w[i].id <= t.entries
    /\ \A i \in 1 .. Len(w), j \in 1 .. Len(es) :
           w[i].id = es[j].id /\ es[j].true => w[i] = es[j]
    /\ t.harm = 0 /\ ~t.swallowed =>
           Len(w) <= Len(es) /\ \A i \in 1 .. Len(w) : w[i] = es[i]

(* A head says of its entries how many they are and which is the last.     *)
HeadFits(h) == h.count = Len(h.was) /\ h.last = LastId(h.was)

AuditInv ==
    /\ AuditLogTypeOK
    /\ FileFits(lines, tally)
    /\ HeadFits(head) /\ HeadFits(reader.head)
    /\ reader.on => reader.key # NoAuditKey
    /\ SealFits(head.was, lines, tally)
    /\ SealFits(reader.head.was, lines, tally)
    /\ SealFits(server.owes, lines, tally)

-----------------------------------------------------------------------------
(* A set of naturals that is not empty has a least one.                    *)
LEMMA LeastOf ==
    ASSUME NEW T, T \subseteq Nat, T # {}
    PROVE  \E x \in T : \A y \in T : x <= y
  <1> DEFINE Less == {ss \in Nat \X Nat : ss[1] < ss[2]}
  <1>1. IsWellFoundedOn(Less, Nat)
    BY NatLessThanWellFounded DEF OpToRel
  <1>2. PICK x \in T : \A y \in T : ~ (<<y, x>> \in Less)
    <2> HIDE DEF Less
    <2> QED
      BY <1>1, WFMin
  <1>3. ASSUME NEW y \in T, y < x PROVE FALSE
    <2>1. x \in Nat /\ y \in Nat
      OBVIOUS
    <2>2. <<y, x>> \in Less
      BY <1>3, <2>1
    <2> QED
      BY <1>2, <2>2
  <1> QED
    BY <1>2, <1>3

(* The last sealed id pins the whole chain before it.                      *)
LEMMA ChainIsPinned ==
    ASSUME NEW es \in Seq(LogEntries), NEW w \in Seq(LogEntries), Chained(es), Chained(w),
           \A i \in 1 .. Len(es) : es[i].true,
           \A i \in 1 .. Len(w), j \in 1 .. Len(es) :
               w[i].id = es[j].id /\ es[j].true => w[i] = es[j],
           Len(w) <= Len(es), Len(w) > 0 => es[Len(w)].id = w[Len(w)].id
    PROVE  \A i \in 1 .. Len(w) : es[i] = w[i]
  <1> DEFINE n == Len(w)
             Off == {m \in 0 .. n : m < n /\ es[n - m] # w[n - m]}
  <1>1. n \in Nat /\ Len(es) \in Nat
    BY LenProperties
  <1>2. SUFFICES Off = {}
    <2>1. ASSUME Off = {}, NEW i \in 1 .. n PROVE es[i] = w[i]
      <3>1. n - i \in 0 .. n /\ n - i < n /\ n - (n - i) = i
        BY <1>1
      <3> QED
        BY <2>1, <3>1
    <2> QED
      BY <2>1
  <1>3. SUFFICES ASSUME Off # {} PROVE FALSE
    OBVIOUS
  <1>4. PICK m \in Off : \A x \in Off : m <= x
    <2>1. Off \subseteq Nat
      BY <1>1
    <2> HIDE DEF Off
    <2> QED
      BY <1>3, <2>1, LeastOf
  <1>5. m \in Nat /\ m < n /\ es[n - m] # w[n - m]
    BY <1>1, <1>4
  <1>6. CASE m = 0
    BY <1>1, <1>5, <1>6
  <1>7. CASE m > 0
    <2> DEFINE i == n - m
    <2>1. i \in 1 .. n /\ i + 1 \in 1 .. n /\ i + 1 # 1 /\ (i + 1) - 1 = i /\ i \in 1 .. Len(es)
          /\ i + 1 \in 1 .. Len(es) /\ m - 1 \in 0 .. n /\ m - 1 < n /\ n - (m - 1) = i + 1
      BY <1>1, <1>5, <1>7
    <2>2. es[i + 1] = w[i + 1]
      BY <1>4, <1>5, <2>1
    <2> HIDE DEF i
    <2>3. es[i].id = w[i].id
      <3> DEFINE k == i + 1
      <3>1. k \in 1 .. Len(w) /\ k \in 1 .. Len(es) /\ k # 1 /\ k - 1 = i
        BY <2>1
      <3> HIDE DEF k
      <3>2. es[k].prev = es[k - 1].id
        BY <3>1 DEF Chained
      <3>3. w[k].prev = w[k - 1].id
        BY <3>1 DEF Chained
      <3> QED
        BY <2>2, <3>1, <3>2, <3>3 DEF k
    <2> QED
      BY <1>5, <2>1, <2>3 DEF i
  <1> QED
    BY <1>5, <1>6, <1>7

LEMMA SealedPartIsThere ==
    ASSUME NEW es \in Seq(LogEntries), NEW w \in Seq(LogEntries), Len(w) <= Len(es),
           \A i \in 1 .. Len(w) : es[i] = w[i]
    PROVE  SubSeq(es, 1, Len(w)) = w
  <1>1. Len(w) \in Nat /\ Len(es) \in Nat
    BY LenProperties
  <1>2. CASE Len(w) = 0
    <2>1. w = <<>>
      BY <1>2, EmptySeq
    <2> QED
      BY <1>2, <2>1
  <1>3. CASE Len(w) > 0
    <2>1. /\ SubSeq(es, 1, Len(w)) \in Seq(LogEntries)
          /\ Len(SubSeq(es, 1, Len(w))) = Len(w)
          /\ \A i \in 1 .. Len(w) : SubSeq(es, 1, Len(w))[i] = es[i]
      BY <1>1, <1>3, SubSeqProperties
    <2> QED
      BY <2>1, SeqEqual
  <1> QED
    BY <1>1, <1>2, <1>3

-----------------------------------------------------------------------------
(* Whoever reads the file with a head that fits it.                        *)
LEMMA IntactVerdict ==
    ASSUME AuditLogTypeOK, FileFits(lines, tally), NEW h \in Heads, HeadFits(h),
           SealFits(h.was, lines, tally), NEW k, k # NoAuditKey,
           Judge(k, h, lines, torn) = "intact"
    PROVE  SubSeq(lines, 1, h.count) = h.was
  <1> DEFINE w == h.was
  <1>1. lines \in Seq(LogEntries) /\ w \in Seq(LogEntries) /\ h.count = Len(w) /\ h.last = LastId(w)
    BY DEF AuditLogTypeOK, Heads, HeadFits
  <1>2. /\ Len(lines) \in Nat /\ Len(w) \in Nat /\ DOMAIN lines = 1 .. Len(lines)
        /\ w # <<>> => Len(w) > 0
    BY <1>1, LenProperties, EmptySeq
  <1>3. /\ Links(lines)
        /\ \/ h = NoHead /\ lines = <<>>
           \/ Len(lines) >= h.count /\ (h.count > 0 => lines[h.count].id = h.last)
    BY <1>1, <1>2 DEF Judge
  <1>4. CASE h = NoHead /\ lines = <<>>
    <2>1. h.was = <<>> /\ h.count = 0 /\ lines = <<>>
      BY <1>4 DEF NoHead
    <2> QED
      BY <2>1
  <1>5. CASE Len(lines) >= h.count /\ (h.count > 0 => lines[h.count].id = h.last)
    <2>1. \A i \in 1 .. Len(lines) : lines[i].true
      BY <1>2, <1>3 DEF Links
    <2>2. Len(w) > 0 => lines[Len(w)].id = w[Len(w)].id
      <3>1. Len(w) > 0 => w # <<>>
        BY <1>1, EmptySeq
      <3> QED
        BY <1>1, <1>5, <3>1 DEF LastId
    <2>3. \A i \in 1 .. Len(w) : lines[i] = w[i]
      <3>1. Chained(lines) /\ Chained(w) /\ Len(w) <= Len(lines)
        BY <1>1, <1>2, <1>5 DEF FileFits, SealFits
      <3>2. \A i \in 1 .. Len(w), j \in 1 .. Len(lines) :
                w[i].id = lines[j].id /\ lines[j].true => w[i] = lines[j]
        BY DEF SealFits
      <3> HIDE DEF w
      <3> QED
        BY <1>1, <2>1, <2>2, <3>1, <3>2, ChainIsPinned
    <2> QED
      BY <1>1, <1>2, <1>5, <2>3, SealedPartIsThere
  <1> QED
    BY <1>3, <1>4, <1>5

LEMMA HonestVerdict ==
    ASSUME AuditLogTypeOK, FileFits(lines, tally), NEW h \in Heads, HeadFits(h),
           SealFits(h.was, lines, tally), NEW k,
           tally.harm = 0, ~tally.keyless, ~tally.swallowed
    PROVE  Judge(k, h, lines, torn) # "tampered"
  <1> DEFINE w == h.was
  <1>1. lines \in Seq(LogEntries) /\ w \in Seq(LogEntries) /\ h.count = Len(w) /\ h.last = LastId(w)
    BY DEF AuditLogTypeOK, Heads, HeadFits
  <1>2. /\ Len(lines) \in Nat /\ Len(w) \in Nat /\ DOMAIN lines = 1 .. Len(lines)
    BY <1>1, LenProperties
  <1>3. Links(lines)
    BY <1>2 DEF Links, FileFits, Chained
  <1>4. \A i \in DOMAIN lines : lines[i].at = i - 1 /\ lines[i].key # NoAuditKey
    BY <1>2 DEF FileFits
  <1>5. Len(w) <= Len(lines) /\ \A i \in 1 .. Len(w) : w[i] = lines[i]
    BY DEF SealFits
  <1>6. h.count > 0 => lines[h.count].id = h.last
    <2>1. Len(w) > 0 => w # <<>> /\ Len(w) \in 1 .. Len(w)
      BY <1>1, <1>2, EmptySeq
    <2> QED
      BY <1>1, <1>5, <2>1 DEF LastId
  <1>7. ~ \E i \in (h.count + 1) .. Len(lines) : lines[i].key = NoAuditKey
    BY <1>1, <1>2, <1>4
  <1>8. ~ (Len(lines) < h.count)
    BY <1>1, <1>2, <1>5
  <1> QED
    BY <1>3, <1>4, <1>6, <1>7, <1>8 DEF Judge

LEMMA AuditInvSuffices == AuditInv => AuditIsTrue
  <1> SUFFICES ASSUME AuditInv PROVE AuditIsTrue
    OBVIOUS
  <1> USE DEF AuditInv
  <1>1. head \in Heads /\ reader.head \in Heads
    BY DEF AuditLogTypeOK
  <1>2. HonestLogIsNotAccused
    <2>1. ASSUME tally.harm = 0, ~tally.keyless, ~tally.swallowed
          PROVE  "tampered" \notin {PageVerdict, ReaderVerdict}
      <3>1. PageVerdict # "tampered"
        BY <1>1, <2>1, HonestVerdict DEF PageVerdict
      <3>2. ReaderVerdict # "tampered"
        BY <1>1, <2>1, HonestVerdict DEF ReaderVerdict
      <3> QED
        BY <3>1, <3>2
    <2> QED
      BY <2>1 DEF HonestLogIsNotAccused
  <1>3. IntactMeansSealed
    <2>1. PageVerdict = "intact" /\ server.key # NoAuditKey
              => SubSeq(lines, 1, head.count) = head.was
      BY <1>1, IntactVerdict DEF PageVerdict
    <2>2. ReaderVerdict = "intact" => SubSeq(lines, 1, reader.head.count) = reader.head.was
      BY <1>1, IntactVerdict DEF ReaderVerdict
    <2> QED
      BY <2>1, <2>2 DEF IntactMeansSealed
  <1> QED
    BY <1>2, <1>3 DEF AuditIsTrue

-----------------------------------------------------------------------------
(* How the file changes.                                                   *)
LEMMA FileIsAppended ==
    ASSUME NEW es \in Seq(LogEntries), NEW t, t.entries \in Nat, FileFits(es, t), NEW e \in LogEntries,
           e.id = t.entries + 1, e.prev = LastId(es), e.at = Len(es), e.true,
           NEW u, u.entries = t.entries + 1, u.harm = t.harm,
           ~u.keyless => ~t.keyless /\ e.key # NoAuditKey
    PROVE  FileFits(Append(es, e), u)
  <1> DEFINE fs == Append(es, e)
             n == Len(es)
  <1>1. /\ n \in Nat /\ Len(fs) = n + 1 /\ fs[n + 1] = e /\ fs \in Seq(LogEntries)
        /\ \A i \in 1 .. n : fs[i] = es[i]
    BY AppendProperties, LenProperties
  <1>a. \A i \in 1 .. n : es[i].id \in Nat
    <2>1. \A i \in 1 .. n : es[i] \in LogEntries
      BY ElementOfSeq
    <2> QED
      BY <2>1 DEF LogEntries
  <1>2. LastId(es) = IF n = 0 THEN NoId ELSE es[n].id
    BY <1>1, EmptySeq DEF LastId
  <1> HIDE DEF fs
  <1>3. \A i \in 1 .. Len(fs) : (i = n + 1 /\ fs[i] = e) \/ (i \in 1 .. n /\ fs[i] = es[i])
    BY <1>1
  <1>4. Chained(fs)
    <2> SUFFICES ASSUME NEW i \in 1 .. Len(fs)
                 PROVE  fs[i].prev = IF i = 1 THEN NoId ELSE fs[i - 1].id
      BY DEF Chained
    <2>1. CASE i = n + 1
      <3>1. n = 0 \/ (n \in 1 .. n /\ fs[n] = es[n] /\ i - 1 = n /\ i # 1)
        BY <1>1, <2>1
      <3> QED
        BY <1>1, <1>2, <2>1, <3>1
    <2>2. CASE i \in 1 .. n
      <3>0. i \in Nat /\ (i # 1 => i - 1 \in 1 .. n)
        BY <1>1, <2>2
      <3>1. fs[i] = es[i] /\ (i # 1 => i - 1 \in 1 .. n /\ fs[i - 1] = es[i - 1])
        BY <1>1, <2>2, <3>0
      <3> QED
        BY <2>2, <3>1 DEF FileFits, Chained
    <2> QED
      BY <1>3, <2>1, <2>2
  <1>5. \A i, j \in 1 .. Len(fs) : i < j => fs[i].id < fs[j].id
    <2> SUFFICES ASSUME NEW i \in 1 .. Len(fs), NEW j \in 1 .. Len(fs), i < j
                 PROVE  fs[i].id < fs[j].id
      OBVIOUS
    <2>1. i \in 1 .. n /\ fs[i] = es[i] /\ es[i].id \in Nat /\ es[i].id <= t.entries
      BY <1>1, <1>a DEF FileFits
    <2>2. CASE j = n + 1
      BY <1>1, <2>1, <2>2
    <2>3. CASE j \in 1 .. n
      BY <1>1, <2>1, <2>3 DEF FileFits
    <2> QED
      BY <1>3, <2>2, <2>3
  <1>6. ASSUME NEW i \in 1 .. n PROVE es[i].id <= u.entries
    <2>1. es[i].id \in Nat /\ es[i].id <= t.entries
      BY <1>a DEF FileFits
    <2> QED
      BY <2>1
  <1>7. \A i \in 1 .. Len(fs) :
            /\ fs[i].id <= u.entries /\ fs[i].at = i - 1
            /\ u.harm = 0 => fs[i].true
            /\ ~u.keyless => fs[i].key # NoAuditKey
    BY <1>1, <1>3, <1>6 DEF FileFits
  <1> QED
    BY <1>4, <1>5, <1>7 DEF FileFits, fs

(* What is sealed stays so when the file grows by an entry of a new id.    *)
LEMMA SealsOutliveAppends ==
    ASSUME NEW es \in Seq(LogEntries), NEW w \in Seq(LogEntries), NEW t, t.entries \in Nat,
           SealFits(w, es, t), NEW e \in LogEntries, e.id = t.entries + 1,
           NEW u, u.entries = t.entries + 1, u.harm = t.harm, u.swallowed = t.swallowed
    PROVE  SealFits(w, Append(es, e), u)
  <1> DEFINE fs == Append(es, e)
             n == Len(es)
  <1>1. /\ n \in Nat /\ Len(fs) = n + 1 /\ fs[n + 1] = e /\ Len(w) \in Nat
        /\ \A i \in 1 .. n : fs[i] = es[i]
        /\ \A i \in 1 .. Len(w) : w[i].id \in Nat
    <2>1. \A i \in 1 .. Len(w) : w[i] \in LogEntries
      BY ElementOfSeq
    <2> QED
      BY <2>1, AppendProperties, LenProperties, SMTT(30) DEF LogEntries
  <1> HIDE DEF fs
  <1>2. \A i \in 1 .. Len(w) : w[i].id <= t.entries /\ w[i].id <= u.entries /\ w[i].id # e.id
    BY <1>1 DEF SealFits
  <1>3. \A j \in 1 .. Len(fs) : (j = n + 1 /\ fs[j] = e) \/ (j \in 1 .. n /\ fs[j] = es[j])
    BY <1>1
  <1>4. \A i \in 1 .. Len(w), j \in 1 .. Len(fs) :
            w[i].id = fs[j].id /\ fs[j].true => w[i] = fs[j]
    BY <1>2, <1>3, SMTT(30) DEF SealFits
  <1>5. u.harm = 0 /\ ~u.swallowed =>
            Len(w) <= Len(fs) /\ \A i \in 1 .. Len(w) : w[i] = fs[i]
    BY <1>1 DEF SealFits
  <1> QED
    BY <1>2, <1>4, <1>5 DEF SealFits, fs

(* What is to be sealed after an append is the file and the new entry,     *)
(* whether or not the new entry got a line of its own.                     *)
LEMMA FileIsSealed ==
    ASSUME NEW es \in Seq(LogEntries), NEW t, FileFits(es, t)
    PROVE  SealFits(es, es, t)
  <1>1. Len(es) \in Nat
    BY LenProperties
  <1>2. \A i \in 1 .. Len(es) : es[i].id \in Nat
    <2>1. \A i \in 1 .. Len(es) : es[i] \in LogEntries
      BY ElementOfSeq
    <2> QED
      BY <2>1 DEF LogEntries
  <1>3. \A i, j \in 1 .. Len(es) : es[i].id = es[j].id => i = j
    <2> SUFFICES ASSUME NEW i \in 1 .. Len(es), NEW j \in 1 .. Len(es), es[i].id = es[j].id, i # j
                 PROVE  FALSE
      OBVIOUS
    <2>1. i < j \/ j < i
      BY <1>1
    <2> QED
      BY <1>2, <2>1 DEF FileFits
  <1> QED
    BY <1>1, <1>3 DEF SealFits, FileFits

LEMMA SwallowedIsSealed ==
    ASSUME NEW es \in Seq(LogEntries), NEW t, t.entries \in Nat, FileFits(es, t), NEW e \in LogEntries,
           e.id = t.entries + 1, e.prev = LastId(es), e.at = Len(es), e.true,
           NEW u, u.entries = t.entries + 1, u.harm = t.harm, u.swallowed
    PROVE  SealFits(Append(es, e), es, u)
  <1> DEFINE v == [entries |-> t.entries + 1, harm |-> t.harm, keyless |-> TRUE, swallowed |-> TRUE]
             fs == Append(es, e)
  <1>1. fs \in Seq(LogEntries) /\ FileFits(fs, v)
    BY AppendProperties, FileIsAppended
  <1>2. SealFits(fs, fs, v)
    <2> HIDE DEF fs, v
    <2> QED
      BY <1>1, FileIsSealed
  <1>3. /\ Len(es) \in Nat /\ Len(fs) = Len(es) + 1 /\ \A i \in 1 .. Len(es) : fs[i] = es[i]
    BY AppendProperties, LenProperties
  <1> HIDE DEF fs
  <1>4. \A j \in 1 .. Len(es) : j \in 1 .. Len(fs) /\ fs[j] = es[j]
    BY <1>3
  <1>5. SealFits(fs, es, u)
    BY <1>2, <1>4 DEF SealFits
  <1> QED
    BY <1>5 DEF fs

(* Where the file stays, only the tally moves.                             *)
LEMMA TallyMovesOn ==
    ASSUME NEW es \in Seq(LogEntries), NEW w \in Seq(LogEntries), NEW t, t.entries \in Nat,
           NEW u, u.entries \in Nat, u.entries >= t.entries, u.harm = t.harm,
           ~u.swallowed => ~t.swallowed, ~u.keyless => ~t.keyless
    PROVE  /\ SealFits(w, es, t) => SealFits(w, es, u)
           /\ FileFits(es, t) => FileFits(es, u)
  <1>1. ASSUME NEW ds \in Seq(LogEntries), NEW i \in 1 .. Len(ds)
        PROVE  ds[i].id \in Nat /\ (ds[i].id <= t.entries => ds[i].id <= u.entries)
    <2>1. ds[i] \in LogEntries
      BY <1>1, ElementOfSeq
    <2> QED
      BY <2>1, SMTT(30) DEF LogEntries
  <1>2. SealFits(w, es, t) => SealFits(w, es, u)
    BY <1>1 DEF SealFits
  <1>3. FileFits(es, t) => FileFits(es, u)
    BY <1>1 DEF FileFits
  <1> QED
    BY <1>2, <1>3

(* Somebody else's changes: a prefix is left, or an entry is made untrue.  *)
LEMMA HarmFits ==
    ASSUME NEW es \in Seq(LogEntries), NEW fs \in Seq(LogEntries), NEW t,
           FileFits(es, t), NEW u, u.entries = t.entries, u.harm # 0, u.keyless = t.keyless,
           Len(fs) <= Len(es),
           \A i \in 1 .. Len(fs) :
               /\ fs[i].id = es[i].id /\ fs[i].prev = es[i].prev /\ fs[i].at = es[i].at
               /\ fs[i].key = es[i].key /\ (fs[i].true => fs[i] = es[i])
    PROVE  /\ FileFits(fs, u)
           /\ \A w \in Seq(LogEntries) : SealFits(w, es, t) => SealFits(w, fs, u)
  <1>1. /\ Len(es) \in Nat /\ Len(fs) \in Nat
        /\ \A i \in 1 .. Len(fs) : i \in 1 .. Len(es) /\ (i # 1 => i - 1 \in 1 .. Len(fs))
    BY LenProperties
  <1>2. Chained(fs)
    BY <1>1 DEF FileFits, Chained
  <1>3. FileFits(fs, u)
    BY <1>1, <1>2, ZenonT(60) DEF FileFits
  <1>4. ASSUME NEW w \in Seq(LogEntries), SealFits(w, es, t) PROVE SealFits(w, fs, u)
    BY <1>1, <1>4 DEF SealFits
  <1> QED
    BY <1>3, <1>4

-----------------------------------------------------------------------------
(* The actions.                                                            *)
LEMMA Basics ==
    ASSUME AuditInv
    PROVE  /\ lines \in Seq(LogEntries) /\ Len(lines) \in Nat /\ LastId(lines) \in Nat
           /\ server.owes \in Seq(LogEntries)
           /\ head \in Heads /\ head.was \in Seq(LogEntries)
           /\ reader.head \in Heads /\ reader.head.was \in Seq(LogEntries)
           /\ tally.entries \in Nat /\ tally.harm \in Nat
           /\ SealFits(<<>>, lines, tally) /\ HeadFits(NoHead) /\ NoHead \in Heads
           /\ <<>> \in Seq(LogEntries)
  <1> USE DEF AuditInv, AuditLogTypeOK
  <1>1. /\ lines \in Seq(LogEntries) /\ Len(lines) \in Nat
        /\ \A i \in 1 .. Len(lines) : lines[i] \in LogEntries
    BY LenProperties, ElementOfSeq
  <1>2. LastId(lines) \in Nat
    <2>1. CASE lines = <<>>
      BY <2>1 DEF LastId, NoId
    <2>2. CASE lines # <<>>
      <3>1. Len(lines) \in 1 .. Len(lines)
        BY <1>1, <2>2, EmptySeq
      <3>2. lines[Len(lines)].id \in Nat
        BY <1>1, <3>1 DEF LogEntries
      <3> QED
        BY <2>2, <3>2 DEF LastId
    <2> QED
      BY <2>1, <2>2
  <1>3. /\ head \in Heads /\ head.was \in Seq(LogEntries)
        /\ reader.head \in Heads /\ reader.head.was \in Seq(LogEntries)
    BY DEF Heads
  <1>4. server.owes \in Seq(LogEntries) /\ tally.entries \in Nat /\ tally.harm \in Nat
    BY AuditLogAssumption
  <1>5. <<>> \in Seq(LogEntries) /\ Len(<<>>) = 0
    BY EmptySeq
  <1>6. SealFits(<<>>, lines, tally)
    BY <1>1, <1>5 DEF SealFits, Chained
  <1>7. NoHead \in Heads /\ HeadFits(NoHead)
    BY <1>5 DEF NoHead, Heads, HeadFits, LastId, NoId, MaybeKey
  <1> QED
    BY <1>1, <1>2, <1>3, <1>4, <1>5, <1>6, <1>7

LEMMA SealOfFile ==
    ASSUME AuditInv, NEW w \in Seq(LogEntries), NEW k \in MaybeKey
    PROVE  Seal(w, k) \in Heads /\ HeadFits(Seal(w, k)) /\ Seal(w, k).was = w
  <1>1. Len(w) \in Nat /\ \A i \in 1 .. Len(w) : w[i].id \in Nat
    <2>1. \A i \in 1 .. Len(w) : w[i] \in LogEntries
      BY ElementOfSeq
    <2> QED
      BY <2>1, LenProperties DEF LogEntries
  <1>2. LastId(w) \in Nat
    <2>1. w # <<>> => Len(w) \in 1 .. Len(w)
      BY <1>1, EmptySeq
    <2> QED
      BY <1>1, <2>1 DEF LastId, NoId
  <1> QED
    BY <1>1, <1>2 DEF Seal, Heads, HeadFits

(* The steps of the server and its reader that leave the file alone.       *)
LEMMA FileRests ==
    ASSUME AuditInv, UNCHANGED lines, AuditLogTypeOK',
           HeadFits(head'), HeadFits(reader'.head), reader'.on => reader'.key # NoAuditKey,
           head' = head \/ head' = NoHead \/ head'.was \in {lines, server.owes},
           reader'.head \in {reader.head, head, NoHead},
           server'.owes \in {server.owes, <<>>},
           tally'.entries = tally.entries, tally'.harm = tally.harm,
           tally'.keyless = tally.keyless, tally'.swallowed = tally.swallowed
    PROVE  AuditInv'
  <1> USE DEF AuditInv
  <1>1. \A w \in Seq(LogEntries) : SealFits(w, lines, tally) => SealFits(w, lines', tally')
    BY Basics, TallyMovesOn
  <1>2. FileFits(lines', tally')
    BY Basics, TallyMovesOn
  <1>3. SealFits(lines, lines, tally)
    BY Basics, FileIsSealed
  <1>4. NoHead.was = <<>>
    BY DEF NoHead
  <1>5. SealFits(head'.was, lines', tally')
    BY <1>1, <1>3, <1>4, Basics
  <1>6. SealFits(reader'.head.was, lines', tally')
    BY <1>1, <1>4, Basics
  <1>7. SealFits(server'.owes, lines', tally')
    BY <1>1, Basics
  <1> QED
    BY <1>2, <1>5, <1>6, <1>7

(* The tally's fields, as its steps change them.                           *)
Tallies == [entries : 0 .. MaxEntries, starts : 0 .. MaxStarts, harm : 0 .. MaxHarm,
            keyless : BOOLEAN, swallowed : BOOLEAN]

LEMMA TallySteps ==
    ASSUME NEW t \in Tallies
    PROVE  /\ \A n \in 0 .. MaxEntries : LET u == [t EXCEPT !.entries = n] IN
                  /\ u \in Tallies /\ u.entries = n /\ u.harm = t.harm
                  /\ u.keyless = t.keyless /\ u.swallowed = t.swallowed
           /\ \A n \in 0 .. MaxStarts : LET u == [t EXCEPT !.starts = n] IN
                  /\ u \in Tallies /\ u.entries = t.entries /\ u.harm = t.harm
                  /\ u.keyless = t.keyless /\ u.swallowed = t.swallowed
           /\ \A n \in 0 .. MaxHarm : LET u == [t EXCEPT !.harm = n] IN
                  /\ u \in Tallies /\ u.entries = t.entries /\ u.harm = n
                  /\ u.keyless = t.keyless /\ u.swallowed = t.swallowed
           /\ \A b \in BOOLEAN : LET u == [t EXCEPT !.keyless = b] IN
                  /\ u \in Tallies /\ u.entries = t.entries /\ u.harm = t.harm
                  /\ u.keyless = b /\ u.swallowed = t.swallowed
           /\ \A b \in BOOLEAN : LET u == [t EXCEPT !.swallowed = b] IN
                  /\ u \in Tallies /\ u.entries = t.entries /\ u.harm = t.harm
                  /\ u.keyless = t.keyless /\ u.swallowed = b
  <1> DEFINE E == 0 .. MaxEntries
             S == 0 .. MaxStarts
             H == 0 .. MaxHarm
  <1>1. t \in [entries : E, starts : S, harm : H, keyless : BOOLEAN, swallowed : BOOLEAN]
        /\ Tallies = [entries : E, starts : S, harm : H, keyless : BOOLEAN, swallowed : BOOLEAN]
    BY DEF Tallies
  <1> HIDE DEF E, S, H
  <1>2. \A n \in E : LET u == [t EXCEPT !.entries = n] IN
            /\ u \in Tallies /\ u.entries = n /\ u.harm = t.harm
            /\ u.keyless = t.keyless /\ u.swallowed = t.swallowed
    BY <1>1
  <1>3. \A n \in S : LET u == [t EXCEPT !.starts = n] IN
            /\ u \in Tallies /\ u.entries = t.entries /\ u.harm = t.harm
            /\ u.keyless = t.keyless /\ u.swallowed = t.swallowed
    BY <1>1
  <1>4. \A n \in H : LET u == [t EXCEPT !.harm = n] IN
            /\ u \in Tallies /\ u.entries = t.entries /\ u.harm = n
            /\ u.keyless = t.keyless /\ u.swallowed = t.swallowed
    BY <1>1
  <1>5. \A b \in BOOLEAN : LET u == [t EXCEPT !.keyless = b] IN
            /\ u \in Tallies /\ u.entries = t.entries /\ u.harm = t.harm
            /\ u.keyless = b /\ u.swallowed = t.swallowed
    BY <1>1
  <1>6. \A b \in BOOLEAN : LET u == [t EXCEPT !.swallowed = b] IN
            /\ u \in Tallies /\ u.entries = t.entries /\ u.harm = t.harm
            /\ u.keyless = t.keyless /\ u.swallowed = b
    BY <1>1
  <1> QED
    BY <1>2, <1>3, <1>4, <1>5, <1>6 DEF E, S, H

LEMMA StartsAndSeals ==
    ASSUME AuditInv, StartServer \/ SealHead \/ StopServer
    PROVE  AuditInv'
  <1> USE AuditLogAssumption DEF AuditInv
  <1>1. CASE StartServer
    <2>1. head' = head \/ (head' = Seal(lines, keyAt) /\ Seal(lines, keyAt).was = lines)
      BY <1>1, SealOfFile, Basics DEF StartServer, AuditLogTypeOK
    <2>2. head' \in Heads /\ HeadFits(head')
      BY <2>1, SealOfFile, Basics DEF AuditLogTypeOK
    <2>a. tally \in Tallies /\ tally.starts + 1 \in 0 .. MaxStarts
      BY <1>1 DEF StartServer, AuditLogTypeOK, Tallies
    <2>3. /\ tally' \in Tallies
          /\ tally'.entries = tally.entries /\ tally'.harm = tally.harm
          /\ tally'.keyless = tally.keyless /\ tally'.swallowed = tally.swallowed
      <3>1. tally' = [tally EXCEPT !.starts = tally.starts + 1]
        BY <1>1 DEF StartServer
      <3> QED
        BY <2>a, <3>1, TallySteps
    <2>4. /\ server' \in [up : BOOLEAN, key : MaybeKey, owes : Seq(LogEntries)] /\ server'.owes = <<>>
          /\ UNCHANGED <<lines, torn, keyAt, reader>>
      BY <1>1, Basics DEF StartServer, AuditLogTypeOK
    <2>5. AuditLogTypeOK'
      BY <2>2, <2>3, <2>4 DEF AuditLogTypeOK, Tallies
    <2> QED
      BY <2>1, <2>2, <2>3, <2>4, <2>5, FileRests
  <1>2. CASE SealHead
    <2>1. server.key \in MaybeKey
      BY DEF AuditLogTypeOK
    <2>2. head' = head \/ (head' = Seal(server.owes, server.key)
                           /\ Seal(server.owes, server.key).was = server.owes)
      BY <1>2, <2>1, SealOfFile, Basics DEF SealHead
    <2>3. head' \in Heads /\ HeadFits(head')
      BY <2>1, <2>2, SealOfFile, Basics
    <2>4. /\ server' \in [up : BOOLEAN, key : MaybeKey, owes : Seq(LogEntries)] /\ server'.owes = <<>>
          /\ UNCHANGED <<lines, torn, keyAt, reader, tally>>
      BY <1>2, Basics DEF SealHead, AuditLogTypeOK
    <2>5. AuditLogTypeOK'
      BY <2>3, <2>4 DEF AuditLogTypeOK
    <2> QED
      BY <2>2, <2>3, <2>4, <2>5, FileRests
  <1>3. CASE StopServer
    <2>1. /\ server' \in [up : BOOLEAN, key : MaybeKey, owes : Seq(LogEntries)] /\ server'.owes = <<>>
          /\ UNCHANGED <<lines, torn, head, keyAt, reader, tally>>
      BY <1>3, Basics DEF StopServer, Down, MaybeKey
    <2>2. AuditLogTypeOK'
      BY <2>1 DEF AuditLogTypeOK
    <2> QED
      BY <2>1, <2>2, FileRests
  <1> QED
    BY <1>1, <1>2, <1>3

LEMMA ReadsAndKeys ==
    ASSUME AuditInv, ReaderOpens \/ ReaderJudges \/ (\E k \in MaybeKey : KeyMoves(k)) \/ TrustDirLost
    PROVE  AuditInv'
  <1> USE DEF AuditInv
  <1>1. CASE ReaderOpens
    <2>1. /\ reader'.head = head /\ reader'.key # NoAuditKey
          /\ UNCHANGED <<lines, torn, head, keyAt, server, tally>>
      BY <1>1 DEF ReaderOpens
    <2>2. AuditLogTypeOK'
      BY <1>1 DEF ReaderOpens, AuditLogTypeOK
    <2> QED
      BY <2>1, <2>2, FileRests
  <1>2. CASE ReaderJudges
    <2>1. /\ reader' = NoReader /\ reader'.head = NoHead /\ reader'.on = FALSE
          /\ UNCHANGED <<lines, torn, head, keyAt, server, tally>>
      BY <1>2 DEF ReaderJudges, NoReader
    <2>2. reader' \in [on : BOOLEAN, key : MaybeKey, head : Heads]
      BY <2>1, Basics DEF NoReader, MaybeKey
    <2>3. AuditLogTypeOK'
      BY <2>1, <2>2 DEF AuditLogTypeOK
    <2> QED
      BY <2>1, <2>3, Basics, FileRests
  <1>3. CASE \E k \in MaybeKey : KeyMoves(k)
    <2>1. keyAt' \in MaybeKey /\ UNCHANGED <<lines, torn, head, server, reader, tally>>
      BY <1>3 DEF KeyMoves
    <2>2. AuditLogTypeOK'
      BY <2>1 DEF AuditLogTypeOK
    <2> QED
      BY <2>1, <2>2, FileRests
  <1>4. CASE TrustDirLost
    <2>1. head' = NoHead /\ UNCHANGED <<lines, torn, keyAt, server, reader, tally>>
      BY <1>4 DEF TrustDirLost
    <2>2. AuditLogTypeOK'
      BY <2>1, Basics DEF AuditLogTypeOK
    <2> QED
      BY <2>1, <2>2, Basics, FileRests
  <1> QED
    BY <1>1, <1>2, <1>3, <1>4

(* Append, of a line of its own or swallowed by the one before.            *)
LEMMA EntryFits ==
    ASSUME AuditInv, MayAppend
    PROVE  /\ NextEntry \in LogEntries /\ NextEntry.id = tally.entries + 1
           /\ NextEntry.prev = LastId(lines) /\ NextEntry.at = Len(lines) /\ NextEntry.true
           /\ NextEntry.key = server.key /\ server.key \in MaybeKey
           /\ Counted \in [entries : 0 .. MaxEntries, starts : 0 .. MaxStarts, harm : 0 .. MaxHarm,
                            keyless : BOOLEAN, swallowed : BOOLEAN]
           /\ Counted.entries = tally.entries + 1 /\ Counted.harm = tally.harm
           /\ Counted.swallowed = tally.swallowed
           /\ Counted.keyless = (tally.keyless \/ server.key = NoAuditKey)
  <1> USE AuditLogAssumption DEF AuditInv
  <1>1. server.key \in MaybeKey /\ tally.entries \in Nat /\ tally.entries < MaxEntries
    BY DEF AuditLogTypeOK, MayAppend
  <1>2. /\ NextEntry \in LogEntries /\ NextEntry.id = tally.entries + 1
        /\ NextEntry.prev = LastId(lines) /\ NextEntry.at = Len(lines) /\ NextEntry.true
        /\ NextEntry.key = server.key
    BY <1>1, Basics DEF NextEntry, LogEntries
  <1> DEFINE keyless == tally.keyless \/ server.key = NoAuditKey
             one == [tally EXCEPT !.entries = tally.entries + 1]
  <1>3. tally \in Tallies /\ keyless \in BOOLEAN /\ tally.entries + 1 \in 0 .. MaxEntries
    BY <1>1 DEF AuditLogTypeOK, Tallies
  <1>4. Counted = [one EXCEPT !.keyless = keyless]
    BY <1>3 DEF Counted, Tallies
  <1>5. /\ one \in Tallies /\ one.entries = tally.entries + 1 /\ one.harm = tally.harm
        /\ one.keyless = tally.keyless /\ one.swallowed = tally.swallowed
    BY <1>3, TallySteps
  <1> HIDE DEF keyless, one
  <1>6. /\ Counted \in Tallies /\ Counted.entries = tally.entries + 1 /\ Counted.harm = tally.harm
        /\ Counted.swallowed = tally.swallowed /\ Counted.keyless = keyless
    BY <1>3, <1>4, <1>5, TallySteps
  <1> QED
    BY <1>1, <1>2, <1>6 DEF keyless, Tallies

LEMMA Appends ==
    ASSUME AuditInv, AppendEntry
    PROVE  AuditInv'
  <1> USE AuditLogAssumption DEF AuditInv
  <1> DEFINE fs == Append(lines, NextEntry)
             swallowed == tally.swallowed \/ torn = "unended"
  <1>1. MayAppend /\ UNCHANGED <<head, keyAt, reader>> /\ torn' = "no"
    BY DEF AppendEntry
  <1>2. fs \in Seq(LogEntries)
    BY <1>1, EntryFits, Basics, AppendProperties
  <1>3. /\ tally' \in Tallies /\ tally'.entries = tally.entries + 1 /\ tally'.harm = tally.harm
        /\ tally'.swallowed = swallowed
        /\ ~tally'.keyless => ~tally.keyless /\ server.key # NoAuditKey
    <2>1. Counted \in Tallies
      BY <1>1, EntryFits DEF Tallies
    <2>2. swallowed \in BOOLEAN /\ tally' = [Counted EXCEPT !.swallowed = swallowed]
      BY <1>1, EntryFits DEF AppendEntry, AuditLogTypeOK
    <2> HIDE DEF swallowed
    <2>3. /\ tally' \in Tallies /\ tally'.entries = Counted.entries /\ tally'.harm = Counted.harm
          /\ tally'.keyless = Counted.keyless /\ tally'.swallowed = swallowed
      BY <2>1, <2>2, TallySteps
    <2> QED
      BY <1>1, <2>3, EntryFits
  <1>4. server'.owes \in {<<>>, fs}
        /\ server' = [server EXCEPT !.owes = server'.owes]
        /\ (server'.owes # <<>> => server.up /\ server.key # NoAuditKey)
    BY <1>1 DEF AppendEntry, MayAppend, AuditLogTypeOK
  <1> HIDE DEF fs
  <1>5. server' \in [up : BOOLEAN, key : MaybeKey, owes : Seq(LogEntries)]
        /\ server'.up = server.up /\ server'.key = server.key
    BY <1>2, <1>4, Basics DEF AuditLogTypeOK
  <1>6. CASE torn # "unended"
    <2>1. lines' = fs /\ tally'.swallowed = tally.swallowed
      BY <1>3, <1>6 DEF AppendEntry, fs, AuditLogTypeOK
    <2>2. FileFits(lines', tally')
      BY <1>1, <1>3, <2>1, Basics, EntryFits, FileIsAppended DEF fs
    <2>3. \A w \in Seq(LogEntries) : SealFits(w, lines, tally) => SealFits(w, lines', tally')
      BY <1>1, <1>3, <2>1, Basics, EntryFits, SealsOutliveAppends DEF fs
    <2>4. SealFits(fs, lines', tally')
      BY <1>2, <2>1, <2>2, FileIsSealed
    <2>5. SealFits(server'.owes, lines', tally')
      BY <1>4, <2>3, <2>4, Basics
    <2>6. AuditLogTypeOK'
      BY <1>1, <1>2, <1>3, <1>4, <1>5, <2>1 DEF AuditLogTypeOK, Tallies
    <2> QED
      BY <1>1, <2>2, <2>3, <2>5, <2>6, Basics
  <1>7. CASE torn = "unended"
    <2>1. lines' = lines /\ tally'.swallowed
      BY <1>3, <1>7 DEF AppendEntry
    <2>2. tally'.entries \in Nat /\ tally'.entries >= tally.entries
      BY <1>3, Basics
    <2>3. /\ FileFits(lines', tally')
          /\ \A w \in Seq(LogEntries) : SealFits(w, lines, tally) => SealFits(w, lines', tally')
      BY <1>3, <2>1, <2>2, Basics, TallyMovesOn
    <2>4. SealFits(fs, lines', tally')
      BY <1>1, <1>3, <2>1, Basics, EntryFits, SwallowedIsSealed DEF fs
    <2>5. SealFits(server'.owes, lines', tally')
      BY <1>4, <2>3, <2>4, Basics
    <2>6. AuditLogTypeOK'
      BY <1>1, <1>2, <1>3, <1>4, <1>5, <2>1 DEF AuditLogTypeOK, Tallies
    <2> QED
      BY <1>1, <2>3, <2>5, <2>6, Basics
  <1> QED
    BY <1>6, <1>7

LEMMA Tears ==
    ASSUME AuditInv, AppendTears
    PROVE  AuditInv'
  <1> USE AuditLogAssumption DEF AuditInv
  <1>1. MayAppend /\ UNCHANGED <<head, keyAt, reader>> /\ torn' \in {"half", "unended"}
        /\ server' \in {server, Down} /\ tally' = Counted
    BY DEF AppendTears
  <1>2. /\ tally' \in Tallies /\ tally'.entries = tally.entries + 1 /\ tally'.harm = tally.harm
        /\ tally'.swallowed = tally.swallowed
        /\ ~tally'.keyless => ~tally.keyless /\ server.key # NoAuditKey
    BY <1>1, EntryFits DEF Tallies
  <1>3. /\ server' \in [up : BOOLEAN, key : MaybeKey, owes : Seq(LogEntries)]
        /\ server'.owes = <<>>
    <2>1. server.owes = <<>> /\ Down.owes = <<>>
      BY <1>1 DEF MayAppend, Down
    <2>2. Down \in [up : BOOLEAN, key : MaybeKey, owes : Seq(LogEntries)]
      BY Basics DEF Down, MaybeKey
    <2> QED
      BY <1>1, <2>1, <2>2 DEF AuditLogTypeOK
  <1>4. /\ lines' \in Seq(LogEntries) /\ FileFits(lines', tally')
        /\ \A w \in Seq(LogEntries) : SealFits(w, lines, tally) => SealFits(w, lines', tally')
    <2>1. CASE UNCHANGED lines
      <3>1. tally'.entries \in Nat /\ tally'.entries >= tally.entries
        BY <1>2, Basics
      <3> QED
        BY <1>2, <2>1, <3>1, Basics, TallyMovesOn
    <2>2. CASE lines' = Append(lines, NextEntry)
      <3>1. lines' \in Seq(LogEntries)
        BY <1>1, <2>2, EntryFits, Basics, AppendProperties
      <3>2. FileFits(lines', tally')
        BY <1>1, <1>2, <2>2, Basics, EntryFits, FileIsAppended
      <3>3. \A w \in Seq(LogEntries) : SealFits(w, lines, tally) => SealFits(w, lines', tally')
        BY <1>1, <1>2, <2>2, Basics, EntryFits, SealsOutliveAppends
      <3> QED
        BY <3>1, <3>2, <3>3
    <2> QED
      BY <2>1, <2>2 DEF AppendTears
  <1>5. AuditLogTypeOK'
    BY <1>1, <1>2, <1>3, <1>4 DEF AuditLogTypeOK, Tallies
  <1>6. SealFits(<<>>, lines', tally')
    BY <1>4, Basics
  <1> QED
    BY <1>1, <1>3, <1>4, <1>5, <1>6, Basics

LEMMA Harms ==
    ASSUME AuditInv, Harmed
    PROVE  AuditInv'
  <1> USE AuditLogAssumption DEF AuditInv
  <1>1. UNCHANGED <<head, keyAt, server, reader>>
    BY DEF Harmed
  <1>2. /\ tally' \in Tallies /\ tally'.entries = tally.entries /\ tally'.harm # 0
        /\ tally'.keyless = tally.keyless
    <2>1. /\ tally \in Tallies /\ tally.harm + 1 \in 0 .. MaxHarm /\ tally.harm + 1 # 0
          /\ tally' = [tally EXCEPT !.harm = tally.harm + 1]
      BY DEF Harmed, AuditLogTypeOK, Tallies
    <2> QED
      BY <2>1, TallySteps
  <1>3. /\ lines' \in Seq(LogEntries) /\ torn' \in {"no", "half", "unended"}
        /\ Len(lines') <= Len(lines)
        /\ \A i \in 1 .. Len(lines') :
               /\ lines'[i].id = lines[i].id /\ lines'[i].prev = lines[i].prev
               /\ lines'[i].at = lines[i].at /\ lines'[i].key = lines[i].key
               /\ lines'[i].true => lines'[i] = lines[i]
    <2>0. \A i \in 1 .. Len(lines) : lines[i] \in LogEntries
      BY Basics, ElementOfSeq
    <2>1. ASSUME NEW n \in 0 .. Len(lines), lines' = SubSeq(lines, 1, n)
          PROVE  /\ lines' \in Seq(LogEntries) /\ Len(lines') <= Len(lines)
                 /\ \A i \in 1 .. Len(lines') : lines'[i] = lines[i]
      <3>1. n \in Int /\ \A i \in 1 .. n : lines[i] \in LogEntries
        BY <2>0, Basics
      <3>2. /\ lines' \in Seq(LogEntries) /\ Len(lines') = n
            /\ \A i \in 1 .. n : lines'[i] = lines[i]
        BY <2>1, <3>1, SubSeqProperties
      <3> QED
        BY <3>2, Basics
    <2>2. ASSUME NEW k \in 1 .. Len(lines), lines' = [lines EXCEPT ![k].true = FALSE]
          PROVE  /\ lines' \in Seq(LogEntries) /\ Len(lines') = Len(lines)
                 /\ \A i \in 1 .. Len(lines) :
                        lines'[i] = lines[i] \/ lines'[i] = [lines[i] EXCEPT !.true = FALSE]
      <3> DEFINE e == [lines[k] EXCEPT !.true = FALSE]
      <3>1. e \in LogEntries
        BY <2>0 DEF LogEntries
      <3>2. lines' = [lines EXCEPT ![k] = e]
        BY <2>2
      <3> HIDE DEF e
      <3>3. /\ [lines EXCEPT ![k] = e] \in Seq(LogEntries)
            /\ Len([lines EXCEPT ![k] = e]) = Len(lines)
            /\ \A i \in 1 .. Len(lines) :
                   [lines EXCEPT ![k] = e][i] = IF i = k THEN e ELSE lines[i]
        BY <3>1, Basics, ExceptSeq
      <3>4. /\ lines' \in Seq(LogEntries) /\ Len(lines') = Len(lines)
            /\ \A i \in 1 .. Len(lines) : lines'[i] = IF i = k THEN e ELSE lines[i]
        BY <3>2, <3>3, Zenon
      <3> QED
        BY <3>4 DEF e
    <2>3. \A e \in LogEntries : LET f == [e EXCEPT !.true = FALSE] IN
              f.id = e.id /\ f.prev = e.prev /\ f.at = e.at /\ f.key = e.key /\ ~f.true
      BY DEF LogEntries
    <2>4. DOMAIN lines = 1 .. Len(lines)
      BY Basics, LenProperties
    <2>5. CASE \E n \in 0 .. Len(lines) : lines' = SubSeq(lines, 1, n) /\ torn' = "no"
      BY <2>1, <2>5
    <2>6. CASE \E i \in DOMAIN lines : lines' = [lines EXCEPT ![i].true = FALSE] /\ UNCHANGED torn
      <3>1. /\ lines' \in Seq(LogEntries) /\ Len(lines') = Len(lines) /\ UNCHANGED torn
            /\ \A i \in 1 .. Len(lines) :
                   lines'[i] = lines[i] \/ lines'[i] = [lines[i] EXCEPT !.true = FALSE]
        BY <2>2, <2>4, <2>6
      <3>2. \A i \in 1 .. Len(lines) :
               /\ lines'[i].id = lines[i].id /\ lines'[i].prev = lines[i].prev
               /\ lines'[i].at = lines[i].at /\ lines'[i].key = lines[i].key
               /\ lines'[i].true => lines'[i] = lines[i]
        BY <2>0, <2>3, <3>1, ZenonT(60)
      <3> QED
        BY <3>1, <3>2, Basics DEF AuditLogTypeOK
    <2> QED
      BY <2>5, <2>6 DEF Harmed
  <1>4. /\ FileFits(lines', tally')
        /\ \A w \in Seq(LogEntries) : SealFits(w, lines, tally) => SealFits(w, lines', tally')
    BY <1>2, <1>3, Basics, HarmFits
  <1>5. AuditLogTypeOK'
    BY <1>1, <1>2, <1>3 DEF AuditLogTypeOK, Tallies
  <1> QED
    BY <1>1, <1>4, <1>5, Basics

-----------------------------------------------------------------------------
LEMMA InitAuditInv == AuditLogInit => AuditInv
  <1> SUFFICES ASSUME AuditLogInit PROVE AuditInv
    OBVIOUS
  <1> USE AuditLogAssumption DEF AuditLogInit
  <1>1. <<>> \in Seq(LogEntries) /\ Len(<<>>) = 0
    BY EmptySeq
  <1>2. NoHead \in Heads /\ HeadFits(NoHead) /\ NoHead.was = <<>>
    BY <1>1 DEF NoHead, Heads, HeadFits, LastId, NoId, MaybeKey
  <1>3. NoReader \in [on : BOOLEAN, key : MaybeKey, head : Heads]
        /\ NoReader.head = NoHead /\ NoReader.on = FALSE
    BY <1>2 DEF NoReader, MaybeKey
  <1>4. Down \in [up : BOOLEAN, key : MaybeKey, owes : Seq(LogEntries)] /\ Down.owes = <<>>
    BY <1>1 DEF Down, MaybeKey
  <1>5. keyAt \in MaybeKey
    BY DEF MaybeKey
  <1>6. tally \in Tallies
    BY DEF Tallies
  <1>7. AuditLogTypeOK
    BY <1>1, <1>2, <1>3, <1>4, <1>5, <1>6 DEF AuditLogTypeOK, Tallies
  <1>8. FileFits(lines, tally) /\ SealFits(<<>>, lines, tally)
    BY <1>1 DEF FileFits, SealFits, Chained
  <1> QED
    BY <1>2, <1>3, <1>4, <1>7, <1>8 DEF AuditInv

LEMMA AuditStepInv == AuditInv /\ [AuditLogNext]_auditLogVars => AuditInv'
  <1> SUFFICES ASSUME AuditInv, [AuditLogNext]_auditLogVars PROVE AuditInv'
    OBVIOUS
  <1>1. CASE StartServer \/ SealHead \/ StopServer
    BY <1>1, StartsAndSeals
  <1>2. CASE ReaderOpens \/ ReaderJudges \/ (\E k \in MaybeKey : KeyMoves(k)) \/ TrustDirLost
    BY <1>2, ReadsAndKeys
  <1>3. CASE AppendEntry
    BY <1>3, Appends
  <1>4. CASE AppendTears
    BY <1>4, Tears
  <1>5. CASE Harmed
    BY <1>5, Harms
  <1>6. CASE UNCHANGED auditLogVars
    BY <1>6 DEF AuditInv, AuditLogTypeOK, auditLogVars
  <1> QED
    BY <1>1, <1>2, <1>3, <1>4, <1>5, <1>6 DEF AuditLogNext

(* What the file, the seals and the reader hold, in every behaviour.       *)
THEOREM AuditInductive == AuditLogSpec => []AuditInv
  <1> QED
    BY InitAuditInv, AuditStepInv, PTL DEF AuditLogSpec

(* A log only the server wrote is never called tampered with, by the page  *)
(* or by audit verify between whose reads the server works on; and one     *)
(* called intact holds all that its seal was made of, whoever wrote to it. *)
THEOREM AuditAlwaysTrue == AuditLogSpec => []AuditIsTrue
  <1> QED
    BY AuditInductive, AuditInvSuffices, PTL
=============================================================================
