---------------------------- MODULE FormsProofs ----------------------------
(***************************************************************************)
(* Theorems about Forms, Editor and Records, for any values, subnets,      *)
(* items, records and bounds.  A form says "done" only of a change that    *)
(* was made in full, shows the role of the token typed last, and brings    *)
(* every run in the ledger to the list of changes; what is sent is what    *)
(* the preview on screen checked; only what was armed is deleted, only     *)
(* what was held is overwritten; and a list shows the server's first rows, *)
(* with none left out among them.  The exceptions are named where the      *)
(* theorems and the properties they prove are stated.                      *)
(*                                                                         *)
(* They rest on which call a flow waits for, on what the server is known   *)
(* to have done with one that was served, on the answers a preview on its  *)
(* way back was asked of, on totals that are never too low, and on the     *)
(* places the rows of a list have on the server.                           *)
(***************************************************************************)
EXTENDS Writes, FiniteSetTheorems, SequenceTheorems, WellFoundedInduction, TLAPS

Bodies == (Typed \union {None}) \X (Subnets \union {None})
FlowRecs == [status : {"idle", "busy", "previewed", "applied"}, stale : BOOLEAN, edited : BOOLEAN,
             shown : Bodies \union {<<>>}, counts : Outcomes, about : Nat]
FormCalls == [n : Nat, of : Nat, f : FlowNames, dry : BOOLEAN, body : Bodies, old : BOOLEAN,
              served : Outcomes \union {"no"}, run : BOOLEAN]
FormAnswers == [typed : Typed \union {None}, pin : Subnets \union {None}, roomy : Subnets \union {None},
                tried : BOOLEAN, confirmed : BOOLEAN]
Accesses == [says : {"unknown", "open", "readonly"}, reads : SUBSET {"sent", "open", "readonly"}]
TokenReads == [n : Nat, token : {"viewer", "admin"}]
Roles == [shown : {"viewer", "admin"}, token : {"viewer", "admin"}, seq : Nat, timer : BOOLEAN,
          reads : SUBSET TokenReads]
Applies == [n : Nat, how : Outcomes]
DeskViews == [ledger : SUBSET Nat, lost : SUBSET Nat, told : SUBSET Nat, reads : Nat,
              plan : {"no", "checking", "shown", "removing"}]

\* What everything holds.
FormBasics ==
    /\ driver \in Drivers /\ inst \in Nat \ {0} /\ count \in Nat /\ tenant \in {"open", "readonly"}
    /\ answers \in FormAnswers /\ flows \in [FlowNames -> FlowRecs] /\ calls \subseteq FormCalls
    /\ access \in Accesses /\ role \in Roles /\ done \in [FlowNames -> SUBSET Applies]
    /\ desk \in DeskViews

\* Calls are numbered as they are made, and what is known of one was made.
Numbered ==
    /\ \A f \in FlowNames : flows[f].about <= count /\ \A d \in done[f] : d.n \in 1 .. count
    /\ \A c \in calls : c.n \in 1 .. count /\ c.of \in 1 .. inst
    /\ \A c, d \in calls : c.n = d.n => c = d

\* The newest read of the role is for the token typed last, and is in the air,
\* is due again, or has landed.
RoleFits ==
    /\ \A r \in role.reads : r.n \in 1 .. role.seq /\ (r.n = role.seq => r.token = role.token)
    /\ driver = "role" => \/ role.shown = role.token \/ role.timer
                          \/ \E r \in role.reads : r.n = role.seq

\* What is in the ledger and not yet in the list has its answer, or a read, to come.
ListFits ==
    /\ desk.ledger \subseteq 0 .. count /\ desk.lost \subseteq desk.ledger /\ desk.told \subseteq desk.ledger
    /\ \A c \in calls : c.run => driver = "desk" /\ ~c.dry /\ c.served # "no" /\ c.n \in desk.ledger
    /\ \A n \in desk.ledger \ (desk.lost \union desk.told) :
           desk.reads > 0 \/ \E c \in calls : c.n = n /\ c.run

\* The calls of one flow of the form on screen.
CallsHere(f) == {c \in calls : c.of = inst /\ c.f = f}

\* But for the desk a flow waits for one call at a time.
OneCallEach ==
    driver # "desk" =>
        \A f \in FlowNames :
            /\ \A c \in CallsHere(f) : flows[f].status = "busy" /\ \A d \in done[f] : d.n <= c.n
            /\ \A c, d \in CallsHere(f) : c = d

\* An Apply that was served is known to have been, as it ended.
ServedIsDone ==
    \A f \in FlowNames :
        /\ \A c \in CallsHere(f) : ~c.dry /\ c.served # "no" => [n |-> c.n, how |-> c.served] \in done[f]
        /\ flows[f].status = "applied" =>
               /\ [n |-> flows[f].about, how |-> flows[f].counts] \in done[f]
               /\ driver = "desk" \/ \A d \in done[f] : d.n <= flows[f].about

\* Nothing is asked before something was typed, which is in three drivers.
AskedOfAnswers ==
    /\ answers.typed = None => \A f \in FlowNames : flows[f].status = "idle" /\ CallsHere(f) = {}
    /\ driver \notin {"stream", "write", "desk"} => answers.typed = None

\* A preview that may be applied, and one that will be, is of the answers on screen.
PreviewIsOfTheAnswers ==
    \A f \in FlowNames :
        /\ driver = "write" =>
               /\ ApplyShown(f) => flows[f].shown = Body /\ answers.pin # None
               /\ ~flows[f].edited => \A c \in CallsHere(f) : c.dry => c.body = Body /\ answers.pin # None
        /\ driver = "desk" =>
               /\ ApplyShown(f) => flows[f].shown = Body
               /\ \A c \in CallsHere(f) : c.dry /\ ~c.old => c.body = Body

FormsInv ==
    /\ FormBasics /\ Numbered /\ RoleFits /\ ListFits
    /\ OneCallEach /\ ServedIsDone /\ AskedOfAnswers /\ PreviewIsOfTheAnswers

-----------------------------------------------------------------------------
(* Steps beside the form: the permission, the role, the list of changes.   *)

\* The form and its calls are as they were.
LEMMA BesideTheForm ==
  ASSUME FormsInv, UNCHANGED <<driver, inst, answers, flows, calls, done>>,
         count' \in Nat, count <= count', tenant' \in {"open", "readonly"},
         access' \in Accesses, role' \in Roles, desk' \in DeskViews, RoleFits', ListFits'
  PROVE  FormsInv'
  <1>1. FormBasics'
    BY DEF FormsInv, FormBasics
  <1>2. Numbered'
    BY DEF FormsInv, FormBasics, Numbered, FormCalls, FlowRecs, Applies
  <1>3. OneCallEach' /\ ServedIsDone' /\ AskedOfAnswers' /\ PreviewIsOfTheAnswers'
    BY DEF FormsInv, OneCallEach, ServedIsDone, AskedOfAnswers, PreviewIsOfTheAnswers, CallsHere, ApplyShown,
           Body, Target
  <1> QED
    BY <1>1, <1>2, <1>3 DEF FormsInv

LEMMA RoleIsLeft ==
  ASSUME FormsInv, UNCHANGED <<driver, role>>
  PROVE  RoleFits' /\ role' \in Roles
  BY DEF FormsInv, FormBasics, RoleFits

LEMMA ListIsLeft ==
  ASSUME FormsInv, UNCHANGED <<driver, calls, count, desk>>
  PROVE  ListFits' /\ desk' \in DeskViews
  BY DEF FormsInv, FormBasics, ListFits

LEMMA PermissionKeeps ==
  ASSUME FormsInv,
         AccessServed \/ Allow \/ ChangedElsewhere \/ \E says \in {"open", "readonly"} : AccessLands(says)
  PROVE  FormsInv'
  <1>1. /\ UNCHANGED <<driver, inst, answers, flows, calls, count, role, done, desk>>
        /\ tenant' \in {"open", "readonly"} /\ count \in Nat
    BY DEF AccessServed, Allow, ChangedElsewhere, AccessLands, FormsInv, FormBasics
  <1>2. /\ access.says \in {"unknown", "open", "readonly"} /\ access.reads \in SUBSET {"sent", "open", "readonly"}
        /\ access \in Accesses /\ tenant \in {"open", "readonly"}
    BY DEF FormsInv, FormBasics, Accesses
  <1>3. \A R \in SUBSET {"sent", "open", "readonly"} : [access EXCEPT !.reads = R] \in Accesses
    BY <1>2 DEF Accesses
  <1>4. access' \in Accesses
    <2>1. CASE AccessServed
      <3>1. (access.reads \ {"sent"}) \union {tenant} \in SUBSET {"sent", "open", "readonly"}
        BY <1>2
      <3> QED
        BY <1>3, <2>1, <3>1 DEF AccessServed
    <2>2. CASE Allow
      <3>1. access.reads \union {"sent"} \in SUBSET {"sent", "open", "readonly"}
        BY <1>2
      <3> QED
        BY <1>3, <2>2, <3>1 DEF Allow
    <2>3. CASE ChangedElsewhere
      BY <1>2, <2>3 DEF ChangedElsewhere
    <2>4. ASSUME NEW says \in {"open", "readonly"}, AccessLands(says) PROVE access' \in Accesses
      <3>1. access.reads \ {says} \in SUBSET {"sent", "open", "readonly"}
        BY <1>2
      <3>2. CASE access' = [says |-> says, reads |-> access.reads \ {says}]
        BY <3>1, <3>2 DEF Accesses
      <3>3. CASE access' = [access EXCEPT !.reads = access.reads \ {says}]
        BY <1>3, <3>1, <3>3
      <3> QED
        BY <2>4, <3>2, <3>3 DEF AccessLands
    <2> QED
      BY <2>1, <2>2, <2>3, <2>4
  <1> QED
    BY <1>1, <1>4, RoleIsLeft, ListIsLeft, BesideTheForm

\* A read of the role is asked for the token typed last.
LEMMA ReadRoleKeeps ==
  ASSUME FormsInv, NEW token \in {"viewer", "admin"}, ReadRole(token), UNCHANGED driver
  PROVE  RoleFits' /\ role' \in Roles
  <1> DEFINE n == role.seq + 1
             read == [n |-> n, token |-> token]
             reads == role.reads \union {read}
  <1>1. /\ role.seq \in Nat /\ role.reads \subseteq TokenReads /\ role \in Roles
        /\ role' = [role EXCEPT !.token = token, !.seq = n, !.timer = FALSE, !.reads = reads]
    BY DEF ReadRole, FormsInv, FormBasics, Roles
  <1>2. n \in Nat /\ read \in TokenReads
    BY <1>1 DEF TokenReads
  <1>3. reads \in SUBSET TokenReads /\ \A r \in reads : r = read \/ r \in role.reads
    BY <1>1, <1>2
  <1>4. read.n = n /\ read.token = token /\ read \in reads
    OBVIOUS
  <1>5. n = role.seq + 1
    OBVIOUS
  <1> HIDE DEF n, read, reads
  <1>6. /\ role' \in Roles /\ role'.token = token /\ role'.seq = n /\ role'.timer = FALSE /\ role'.reads = reads
        /\ role'.shown = role.shown
    BY <1>1, <1>2, <1>3 DEF Roles
  <1>7. \A r \in role.reads : r.n \in Nat /\ r.n \in 1 .. role.seq
    BY <1>1 DEF FormsInv, RoleFits, TokenReads
  <1>8. \A r \in reads : r.n \in 1 .. n /\ (r.n = n => r.token = token)
    BY <1>1, <1>2, <1>3, <1>4, <1>5, <1>7
  <1>9. \E r \in reads : r.n = n
    BY <1>4
  <1> QED
    BY <1>6, <1>8, <1>9 DEF RoleFits

LEMMA RoleKeeps ==
  ASSUME FormsInv, \/ RoleTimer \/ \E token \in {"viewer", "admin"} : TypeToken(token)
                   \/ \E r \in role.reads : RoleLands(r) \/ RoleFails(r)
  PROVE  FormsInv'
  <1>1. /\ UNCHANGED <<driver, inst, answers, flows, calls, count, access, tenant, done, desk>>
        /\ tenant' \in {"open", "readonly"} /\ access' \in Accesses /\ count \in Nat
        /\ role \in Roles /\ role.token \in {"viewer", "admin"} /\ role.reads \subseteq TokenReads
        /\ role.timer \in BOOLEAN
    BY DEF RoleTimer, TypeToken, RoleLands, RoleFails, FormsInv, FormBasics, Roles
  <1>2. RoleFits' /\ role' \in Roles
    <2>1. CASE RoleTimer \/ \E token \in {"viewer", "admin"} : TypeToken(token)
      BY <1>1, <2>1, ReadRoleKeeps DEF RoleTimer, TypeToken
    <2>2. ASSUME NEW r \in role.reads, RoleLands(r) PROVE RoleFits' /\ role' \in Roles
      <3> DEFINE reads == role.reads \ {r}
                 saw == IF r.n = role.seq THEN r.token ELSE role.shown
      <3>1. role' = [role EXCEPT !.reads = reads, !.shown = saw]
        BY <2>2 DEF RoleLands, RoleFor
      <3>2. reads \in SUBSET TokenReads /\ saw \in {"viewer", "admin"}
        BY <1>1 DEF TokenReads, Roles
      <3>3. r.n = role.seq => saw = role.token
        BY DEF FormsInv, RoleFits
      <3>4. /\ reads \subseteq role.reads /\ \A x \in role.reads : x = r \/ x \in reads
            /\ r.n # role.seq => saw = role.shown
        OBVIOUS
      <3> HIDE DEF reads, saw
      <3>5. /\ role' \in Roles /\ role'.reads = reads /\ role'.shown = saw /\ role'.seq = role.seq
            /\ role'.token = role.token /\ role'.timer = role.timer
        BY <1>1, <3>1, <3>2 DEF Roles
      <3> QED
        BY <1>1, <3>3, <3>4, <3>5 DEF FormsInv, RoleFits
    <2>3. ASSUME NEW r \in role.reads, RoleFails(r) PROVE RoleFits' /\ role' \in Roles
      <3> DEFINE reads == role.reads \ {r}
                 timer == role.timer \/ r.n = role.seq
      <3>1. role' = [role EXCEPT !.reads = reads, !.timer = timer]
        BY <2>3 DEF RoleFails
      <3>2. reads \in SUBSET TokenReads /\ timer \in BOOLEAN
        BY <1>1
      <3>3. /\ reads \subseteq role.reads /\ \A x \in role.reads : x = r \/ x \in reads
            /\ (r.n = role.seq => timer) /\ (role.timer => timer)
        OBVIOUS
      <3> HIDE DEF reads, timer
      <3>4. /\ role' \in Roles /\ role'.reads = reads /\ role'.shown = role.shown /\ role'.seq = role.seq
            /\ role'.token = role.token /\ role'.timer = timer
        BY <1>1, <3>1, <3>2 DEF Roles
      <3> QED
        BY <1>1, <3>3, <3>4 DEF FormsInv, RoleFits
    <2> QED
      BY <2>1, <2>2, <2>3
  <1> QED
    BY <1>1, <1>2, ListIsLeft, BesideTheForm

LEMMA ListKeeps ==
  ASSUME FormsInv, ListArrives \/ PollList \/ PressRemove \/ PlanLands \/ CancelPlan \/ DeleteThese \/ RemoveLands
  PROVE  FormsInv'
  <1>1. /\ UNCHANGED <<driver, inst, answers, flows, calls, access, tenant, role, done>>
        /\ count' \in Nat /\ count <= count' /\ tenant' \in {"open", "readonly"} /\ access' \in Accesses
    BY DEF ListArrives, PollList, PressRemove, PlanLands, CancelPlan, DeleteThese, RemoveLands, RowTo, FormsInv,
           FormBasics
  <1>2. /\ desk \in DeskViews /\ desk.ledger \in SUBSET Nat /\ desk.told \in SUBSET Nat /\ desk.reads \in Nat
        /\ count \in Nat /\ desk.lost \in SUBSET Nat
    BY DEF FormsInv, FormBasics, DeskViews
  <1>3. ListFits
    BY DEF FormsInv
  <1>4. ListFits' /\ desk' \in DeskViews
    <2>1. CASE ListArrives
      <3> DEFINE reads == desk.reads - 1
                 told == desk.told \union desk.ledger
      <3>1. desk' = [desk EXCEPT !.reads = reads, !.told = told] /\ count' = count
        BY <2>1 DEF ListArrives
      <3>2. reads \in Nat /\ told \in SUBSET Nat /\ desk.ledger \subseteq told /\ told = desk.told \union desk.ledger
        BY <1>2, <2>1 DEF ListArrives
      <3> HIDE DEF reads, told
      <3>3. /\ desk' \in DeskViews /\ desk'.reads = reads /\ desk'.told = told /\ desk'.ledger = desk.ledger
            /\ desk'.lost = desk.lost
        BY <1>2, <3>1, <3>2 DEF DeskViews
      <3> QED
        BY <1>1, <1>3, <3>1, <3>2, <3>3 DEF ListFits
    <2>2. CASE PollList
      <3>1. desk' = [desk EXCEPT !.reads = 1] /\ count' = count /\ desk.reads = 0
        BY <2>2 DEF PollList
      <3>2. /\ desk' \in DeskViews /\ desk'.reads = 1 /\ desk'.told = desk.told /\ desk'.ledger = desk.ledger
            /\ desk'.lost = desk.lost
        BY <1>2, <3>1 DEF DeskViews
      <3> QED
        BY <1>1, <1>3, <3>1, <3>2 DEF ListFits
    <2>3. CASE PressRemove \/ PlanLands \/ CancelPlan \/ DeleteThese
      <3>1. PICK p \in {"no", "checking", "shown", "removing"} : desk' = [desk EXCEPT !.plan = p]
        BY <2>3 DEF PressRemove, PlanLands, CancelPlan, DeleteThese, RowTo
      <3>2. /\ desk' \in DeskViews /\ desk'.reads = desk.reads /\ desk'.told = desk.told
            /\ desk'.ledger = desk.ledger /\ desk'.lost = desk.lost
        BY <1>2, <3>1 DEF DeskViews
      <3>3. count' = count
        BY <2>3 DEF PressRemove, PlanLands, CancelPlan, DeleteThese, RowTo
      <3> QED
        BY <1>1, <1>3, <3>2, <3>3 DEF ListFits
    <2>4. CASE RemoveLands
      <3>1. PICK made \in {{}, {count + 1}} :
                desk' = [desk EXCEPT !.plan = "no", !.reads = desk.reads + 1, !.ledger = desk.ledger \union made]
        BY <2>4 DEF RemoveLands
      <3> DEFINE reads == desk.reads + 1
                 ledger == desk.ledger \union made
      <3>2. count' = count + 1
        BY <2>4 DEF RemoveLands
      <3>3. /\ reads \in Nat /\ reads > 0 /\ ledger \in SUBSET Nat /\ desk.ledger \subseteq ledger
            /\ ledger \subseteq 0 .. count'
        BY <1>2, <1>3, <3>2 DEF ListFits
      <3>4. desk' = [desk EXCEPT !.plan = "no", !.reads = reads, !.ledger = ledger]
        BY <3>1
      <3> HIDE DEF reads, ledger
      <3>5. /\ desk' \in DeskViews /\ desk'.reads = reads /\ desk'.told = desk.told /\ desk'.ledger = ledger
            /\ desk'.lost = desk.lost
        BY <1>2, <3>3, <3>4 DEF DeskViews
      <3> QED
        BY <1>1, <1>3, <3>3, <3>5 DEF ListFits
    <2> QED
      BY <2>1, <2>2, <2>3, <2>4
  <1> QED
    BY <1>1, <1>4, RoleIsLeft, BesideTheForm

-----------------------------------------------------------------------------
(* The answers.                                                            *)

\* A call is what another was, but may be an older one by now.
CallKept(u, c) ==
    /\ u.n = c.n /\ u.of = c.of /\ u.f = c.f /\ u.dry = c.dry /\ u.body = c.body
    /\ u.served = c.served /\ u.run = c.run

LEMMA OlderCalls ==
  ASSUME FormBasics
  PROVE  /\ \A u \in Older : \E c \in calls :
                u = [c EXCEPT !.old = TRUE] /\ u \in FormCalls /\ u.old = TRUE /\ CallKept(u, c)
         /\ \A c \in calls : \E u \in Older : u.n = c.n /\ u.run = c.run
  <1>1. \A c \in FormCalls :
            LET u == [c EXCEPT !.old = TRUE]
            IN  u \in FormCalls /\ u.old = TRUE /\ CallKept(u, c)
    BY DEF FormCalls, CallKept
  <1>2. \A c \in calls : c \in FormCalls
    BY DEF FormBasics
  <1>3. ASSUME NEW u \in Older
        PROVE  \E c \in calls :
                u = [c EXCEPT !.old = TRUE] /\ u \in FormCalls /\ u.old = TRUE /\ CallKept(u, c)
    <2>1. PICK c \in calls : u = [c EXCEPT !.old = TRUE]
      BY DEF Older
    <2> QED
      BY <1>1, <1>2, <2>1
  <1>4. ASSUME NEW c \in calls PROVE \E u \in Older : u.n = c.n /\ u.run = c.run
    <2>1. [c EXCEPT !.old = TRUE] \in Older
      BY DEF Older
    <2> QED
      BY <1>1, <1>2, <2>1 DEF CallKept
  <1> QED
    BY <1>3, <1>4

\* Calls are the same, or all of them older ones.
LEMMA SameCalls ==
  ASSUME FormsInv, calls' = calls \/ (driver = "desk" /\ calls' = Older)
  PROVE  /\ calls' \subseteq FormCalls
         /\ \A u \in calls' : \E c \in calls : CallKept(u, c)
         /\ \A u, v \in calls' : u.n = v.n => u = v
         /\ \A c \in calls : \E u \in calls' : u.n = c.n /\ u.run = c.run
  <1>1. CASE calls' = calls
    BY <1>1 DEF FormsInv, FormBasics, Numbered, CallKept
  <1>2. CASE driver = "desk" /\ calls' = Older
    <2>1. FormBasics /\ \A c, d \in calls : c.n = d.n => c = d
      BY DEF FormsInv, Numbered
    <2>2. calls' \subseteq FormCalls /\ \A u \in calls' : \E c \in calls : CallKept(u, c)
      BY <1>2, <2>1, OlderCalls
    <2>3. \A u, v \in calls' : u.n = v.n => u = v
      <3> TAKE u, v \in calls'
      <3>1. PICK c \in calls : u = [c EXCEPT !.old = TRUE] /\ CallKept(u, c)
        BY <1>2, <2>1, OlderCalls
      <3>2. PICK d \in calls : v = [d EXCEPT !.old = TRUE] /\ CallKept(v, d)
        BY <1>2, <2>1, OlderCalls
      <3>3. u.n = v.n => c = d
        BY <2>1, <3>1, <3>2 DEF CallKept
      <3> QED
        BY <3>1, <3>2, <3>3
    <2>4. \A c \in calls : \E u \in calls' : u.n = c.n /\ u.run = c.run
      BY <1>2, <2>1, OlderCalls
    <2> QED
      BY <1>2, <2>2, <2>3, <2>4
  <1> QED
    BY <1>1, <1>2

\* The answers change, and the flows take note of it.
LEMMA AnswersMove ==
  ASSUME FormsInv, UNCHANGED <<driver, inst, count, access, tenant, role, done, desk>>,
         answers' \in FormAnswers, flows' \in [FlowNames -> FlowRecs],
         calls' = calls \/ (driver = "desk" /\ calls' = Older),
         \A f \in FlowNames :
             /\ flows'[f].about = flows[f].about /\ flows'[f].counts = flows[f].counts
             /\ \/ flows'[f].status = flows[f].status
                \/ driver = "desk" /\ flows'[f].status = "idle",
         AskedOfAnswers', PreviewIsOfTheAnswers'
  PROVE  FormsInv'
  <1>0. /\ calls' \subseteq FormCalls
        /\ \A u \in calls' : \E c \in calls : CallKept(u, c)
        /\ \A u, v \in calls' : u.n = v.n => u = v
        /\ \A c \in calls : \E u \in calls' : u.n = c.n /\ u.run = c.run
    BY SameCalls
  <1>1. FormBasics'
    BY <1>0 DEF FormsInv, FormBasics
  <1>2. Numbered'
    <2>1. ASSUME NEW u \in calls' PROVE u.n \in 1 .. count /\ u.of \in 1 .. inst
      <3>1. PICK c \in calls : CallKept(u, c)
        BY <1>0
      <3> QED
        BY <3>1 DEF CallKept, FormsInv, Numbered
    <2> QED
      BY <1>0, <2>1 DEF FormsInv, Numbered
  <1>3. RoleFits'
    BY RoleIsLeft
  <1>4. ListFits'
    <2>1. ASSUME NEW u \in calls', u.run PROVE driver = "desk" /\ ~u.dry /\ u.served # "no" /\ u.n \in desk.ledger
      <3>1. PICK c \in calls : CallKept(u, c)
        BY <1>0
      <3> QED
        BY <2>1, <3>1 DEF CallKept, FormsInv, ListFits
    <2>2. ASSUME NEW c \in calls, c.run PROVE \E u \in calls' : u.n = c.n /\ u.run
      <3>1. PICK u \in calls' : u.n = c.n /\ u.run = c.run
        BY <1>0
      <3> QED
        BY <2>2, <3>1
    <2> QED
      BY <2>1, <2>2 DEF FormsInv, ListFits
  <1>5. OneCallEach'
    <2>1. CASE driver = "desk"
      BY <2>1 DEF OneCallEach
    <2>2. CASE driver # "desk"
      <3>1. calls' = calls /\ \A f \in FlowNames : flows'[f].status = flows[f].status
        BY <2>2
      <3> QED
        BY <3>1 DEF FormsInv, OneCallEach, CallsHere
    <2> QED
      BY <2>1, <2>2
  <1>6. ServedIsDone'
    <2>1. \A f \in FlowNames, c \in calls : c.of = inst /\ c.f = f /\ ~c.dry /\ c.served # "no" =>
              [n |-> c.n, how |-> c.served] \in done[f]
      BY DEF FormsInv, ServedIsDone, CallsHere
    <2>2. ASSUME NEW f \in FlowNames, NEW u \in calls', u.of = inst, u.f = f, ~u.dry, u.served # "no"
          PROVE  [n |-> u.n, how |-> u.served] \in done[f]
      <3>1. PICK c \in calls : CallKept(u, c)
        BY <1>0
      <3> QED
        BY <2>1, <2>2, <3>1 DEF CallKept
    <2>3. \A f \in FlowNames : flows'[f].status = "applied" => flows[f].status = "applied"
      OBVIOUS
    <2> QED
      BY <2>2, <2>3 DEF FormsInv, ServedIsDone, CallsHere
  <1> QED
    BY <1>1, <1>2, <1>3, <1>4, <1>5, <1>6 DEF FormsInv

\* What an edit makes of a flow.
LEMMA EditedFits ==
  ASSUME NEW fl \in FlowRecs, driver \in {"stream", "write", "desk"}
  PROVE  /\ Edited(fl) \in FlowRecs /\ Edited(fl).about = fl.about /\ Edited(fl).counts = fl.counts
         /\ driver # "desk" => Edited(fl).status = fl.status
         /\ driver = "desk" => Edited(fl).status = "idle"
         /\ driver = "write" => /\ fl.status = "previewed" => Edited(fl).stale
                                /\ fl.status = "busy" => Edited(fl).edited
  <1>1. MarkStaleWhenShown(fl) \in FlowRecs /\ MarkStaleWhenShown(fl).about = fl.about
        /\ MarkStaleWhenShown(fl).counts = fl.counts /\ MarkStaleWhenShown(fl).status = fl.status
    BY DEF MarkStaleWhenShown, FlowRecs
  <1>2. /\ MarkStale(fl) \in FlowRecs /\ MarkStale(fl).about = fl.about
        /\ MarkStale(fl).counts = fl.counts /\ MarkStale(fl).status = fl.status
        /\ fl.status = "previewed" => MarkStale(fl).stale
        /\ fl.status = "busy" => MarkStale(fl).edited
    BY DEF MarkStale, FlowRecs
  <1>3. /\ Reset(fl) \in FlowRecs /\ Reset(fl).about = fl.about /\ Reset(fl).counts = fl.counts
        /\ Reset(fl).status = "idle"
    BY DEF Reset, FlowRecs
  <1> QED
    BY <1>1, <1>2, <1>3 DEF Edited

\* A field is edited, or a subnet picked.
LEMMA EditKeeps ==
  ASSUME FormsInv, driver \in {"stream", "write", "desk"},
         answers' \in FormAnswers,
         answers'.typed # None \/ answers'.typed = answers.typed,
         flows' = [f \in FlowNames |-> Edited(flows[f])],
         calls' = IF driver = "desk" THEN Older ELSE calls,
         UNCHANGED <<driver, inst, count, access, tenant, role, done, desk>>
  PROVE  FormsInv'
  <1>1. \A f \in FlowNames : flows[f] \in FlowRecs
    BY DEF FormsInv, FormBasics
  <1>2. flows' \in [FlowNames -> FlowRecs]
    BY <1>1, EditedFits
  <1>3. \A f \in FlowNames :
            /\ flows'[f].about = flows[f].about /\ flows'[f].counts = flows[f].counts
            /\ driver # "desk" => flows'[f].status = flows[f].status
            /\ driver = "desk" => flows'[f].status = "idle"
            /\ driver = "write" => /\ flows[f].status = "previewed" => flows'[f].stale
                                   /\ flows[f].status = "busy" => flows'[f].edited
    BY <1>1, EditedFits
  <1>4. calls' = calls \/ (driver = "desk" /\ calls' = Older)
    OBVIOUS
  <1>5. AskedOfAnswers'
    <2>1. CASE answers'.typed # None
      BY <2>1 DEF AskedOfAnswers
    <2>2. CASE answers'.typed = answers.typed
      <3>1. answers.typed = None =>
                \A f \in FlowNames : flows[f].status = "idle" /\ \A c \in calls : ~(c.of = inst /\ c.f = f)
        BY DEF FormsInv, AskedOfAnswers, CallsHere
      <3>0. \A u \in calls' : \E c \in calls : CallKept(u, c)
        BY <1>4, SameCalls
      <3>2. \A u \in calls' : \E c \in calls : u.of = c.of /\ u.f = c.f
        BY <3>0 DEF CallKept
      <3>3. answers.typed = None =>
                \A f \in FlowNames : flows'[f].status = "idle" /\ \A u \in calls' : ~(u.of = inst /\ u.f = f)
        BY <1>3, <3>1, <3>2
      <3> QED
        BY <2>2, <3>3 DEF AskedOfAnswers, CallsHere
    <2> QED
      BY <2>1, <2>2
  <1>6. PreviewIsOfTheAnswers'
    <2>1. CASE driver = "write"
      <3>1. \A f \in FlowNames : ~ApplyShown(f)'
        BY <1>3, <2>1 DEF ApplyShown
      <3>2. \A f \in FlowNames : CallsHere(f)' # {} => flows[f].status = "busy"
        BY <2>1 DEF FormsInv, OneCallEach, CallsHere
      <3>3. \A f \in FlowNames : CallsHere(f)' # {} => flows'[f].edited
        BY <1>3, <2>1, <3>2
      <3> QED
        BY <2>1, <3>1, <3>3 DEF PreviewIsOfTheAnswers
    <2>2. CASE driver = "desk"
      <3>1. \A f \in FlowNames : ~ApplyShown(f)'
        BY <1>3, <2>2 DEF ApplyShown
      <3>2. \A u \in calls' : u.old
        BY <2>2, OlderCalls DEF FormsInv
      <3> QED
        BY <2>2, <3>1, <3>2 DEF PreviewIsOfTheAnswers, CallsHere
    <2> QED
      BY <2>1, <2>2 DEF PreviewIsOfTheAnswers
  <1> QED
    BY <1>2, <1>3, <1>4, <1>5, <1>6, AnswersMove

LEMMA EditsKeep ==
  ASSUME FormsInv, \/ \E v \in Typed : Edit(v)
                   \/ \E s \in Subnets : PickSubnet(s)
  PROVE  FormsInv'
  <1>1. answers \in FormAnswers
    BY DEF FormsInv, FormBasics
  <1>2. ASSUME NEW v \in Typed, Edit(v) PROVE FormsInv'
    <2>1. answers' = [answers EXCEPT !.typed = v] \/ answers' = [answers EXCEPT !.typed = v, !.pin = None, !.roomy = None]
      BY <1>2 DEF Edit
    <2>2. answers' \in FormAnswers /\ answers'.typed = v /\ v # None
      BY <1>1, <2>1, FormsAssumption DEF FormAnswers
    <2>3. /\ driver \in {"stream", "write", "desk"} /\ flows' = [f \in FlowNames |-> Edited(flows[f])]
          /\ calls' = IF driver = "desk" THEN Older ELSE calls
          /\ UNCHANGED <<driver, inst, count, access, tenant, role, done, desk>>
      BY <1>2 DEF Edit
    <2> QED
      BY <2>2, <2>3, EditKeeps
  <1>3. ASSUME NEW s \in Subnets, PickSubnet(s) PROVE FormsInv'
    <2>1. answers' = [answers EXCEPT !.pin = s]
      BY <1>3 DEF PickSubnet
    <2>2. answers' \in FormAnswers /\ answers'.typed = answers.typed
      BY <1>1, <2>1 DEF FormAnswers
    <2>3. /\ driver \in {"stream", "write", "desk"} /\ flows' = [f \in FlowNames |-> Edited(flows[f])]
          /\ calls' = IF driver = "desk" THEN Older ELSE calls
          /\ UNCHANGED <<driver, inst, count, access, tenant, role, done, desk>>
      BY <1>3 DEF PickSubnet
    <2> QED
      BY <2>2, <2>3, EditKeeps
  <1> QED
    BY <1>2, <1>3

LEMMA FillsKeep ==
  ASSUME FormsInv, \/ TypeConfirm \/ \E v \in Typed : AutoPick(v)
                   \/ \E s \in Subnets : SubnetsArrive(s)
  PROVE  FormsInv'
  <1>1. /\ answers \in FormAnswers /\ flows \in [FlowNames -> FlowRecs]
        /\ "teardown" \in FlowNames
    BY DEF FormsInv, FormBasics, FlowNames
  <1>2. CASE TypeConfirm
    <2> DEFINE new == Edited(flows["teardown"])
               sure == ~answers.confirmed
    <2>1. /\ driver = "stream" /\ answers' = [answers EXCEPT !.confirmed = sure]
          /\ flows' = [flows EXCEPT !["teardown"] = new]
          /\ UNCHANGED <<driver, inst, calls, count, access, tenant, role, done, desk>>
      BY <1>2 DEF TypeConfirm
    <2>2. /\ new \in FlowRecs /\ new.about = flows["teardown"].about /\ new.counts = flows["teardown"].counts
          /\ new.status = flows["teardown"].status
      BY <1>1, <2>1, EditedFits
    <2>3. sure \in BOOLEAN
      OBVIOUS
    <2> HIDE DEF new, sure
    <2>4. answers' \in FormAnswers /\ answers'.typed = answers.typed
      BY <1>1, <2>1, <2>3 DEF FormAnswers
    <2>5. /\ flows' \in [FlowNames -> FlowRecs]
          /\ \A f \in FlowNames : flows'[f].about = flows[f].about /\ flows'[f].counts = flows[f].counts
                                  /\ flows'[f].status = flows[f].status
      BY <1>1, <2>1, <2>2
    <2>6. AskedOfAnswers'
      BY <2>1, <2>4, <2>5 DEF FormsInv, AskedOfAnswers, CallsHere
    <2>7. PreviewIsOfTheAnswers'
      BY <2>1 DEF PreviewIsOfTheAnswers
    <2> QED
      BY <2>1, <2>4, <2>5, <2>6, <2>7, AnswersMove
  <1>3. ASSUME NEW v \in Typed, AutoPick(v) PROVE FormsInv'
    <2>1. /\ driver \in {"stream", "desk"} /\ answers.typed = None /\ answers' = [answers EXCEPT !.typed = v]
          /\ UNCHANGED <<driver, inst, calls, count, access, tenant, role, done, desk>>
          /\ flows' = IF driver = "desk" THEN [f \in FlowNames |-> Reset(flows[f])] ELSE flows
      BY <1>3 DEF AutoPick
    <2>2. answers' \in FormAnswers /\ answers'.typed # None
      BY <1>1, <2>1, FormsAssumption DEF FormAnswers
    <2>3. \A fl \in FlowRecs : /\ Reset(fl) \in FlowRecs /\ Reset(fl).status = "idle"
                               /\ Reset(fl).about = fl.about /\ Reset(fl).counts = fl.counts
      BY DEF Reset, FlowRecs
    <2>4. /\ flows' \in [FlowNames -> FlowRecs]
          /\ \A f \in FlowNames : flows'[f].about = flows[f].about /\ flows'[f].counts = flows[f].counts
                                  /\ (flows'[f].status = flows[f].status \/ (driver = "desk" /\ flows'[f].status = "idle"))
      BY <1>1, <2>1, <2>3
    <2>5. \A f \in FlowNames : flows[f].status = "idle" /\ CallsHere(f) = {}
      BY <2>1 DEF FormsInv, AskedOfAnswers
    <2>6. \A f \in FlowNames : flows'[f].status = "idle" /\ CallsHere(f)' = {}
      BY <2>1, <2>4, <2>5 DEF CallsHere
    <2>7. AskedOfAnswers' /\ PreviewIsOfTheAnswers'
      BY <2>1, <2>2, <2>6 DEF AskedOfAnswers, PreviewIsOfTheAnswers, ApplyShown
    <2> QED
      BY <2>1, <2>2, <2>4, <2>7, AnswersMove
  <1>4. ASSUME NEW s \in Subnets, SubnetsArrive(s) PROVE FormsInv'
    <2>1. PICK pin \in IF answers.tried \/ answers.pin # None THEN {answers.pin} ELSE Subnets \union {None} :
              answers' = [answers EXCEPT !.roomy = s, !.pin = pin, !.tried = TRUE]
      BY <1>4 DEF SubnetsArrive
    <2>2. driver = "write" /\ UNCHANGED <<driver, inst, flows, calls, count, access, tenant, role, done, desk>>
      BY <1>4 DEF SubnetsArrive
    <2>3. pin \in Subnets \union {None} /\ (answers.pin # None => pin = answers.pin)
      BY <1>1, <2>1 DEF FormAnswers
    <2>4. answers' \in FormAnswers /\ answers'.typed = answers.typed /\ answers'.pin = pin
      BY <1>1, <2>1, <2>3 DEF FormAnswers
    <2>5. answers.pin # None => Body' = Body /\ answers'.pin # None
      BY <2>3, <2>4 DEF Body, Target
    <2>6. AskedOfAnswers'
      BY <2>2, <2>4 DEF FormsInv, AskedOfAnswers, CallsHere
    <2>7. PreviewIsOfTheAnswers'
      BY <2>2, <2>5 DEF FormsInv, PreviewIsOfTheAnswers, CallsHere, ApplyShown
    <2>8. flows' \in [FlowNames -> FlowRecs]
      BY <1>1, <2>2
    <2> QED
      BY <2>2, <2>4, <2>6, <2>7, <2>8, AnswersMove
  <1> QED
    BY <1>2, <1>3, <1>4

-----------------------------------------------------------------------------
(* Preview and Apply.                                                      *)

\* The call that was sent, and one that was there before.
CallSent(u, f, dry, body) ==
    /\ u.n = count + 1 /\ u.of = inst /\ u.f = f /\ u.dry = dry /\ u.body = body
    /\ u.served = "no" /\ u.run = FALSE
CallBefore(u, c) ==
    CallKept(u, c) /\ (IF driver = "desk" THEN u.old = TRUE ELSE u = c)

\* A call is made: it is the newest, and for the desk the only one that is not
\* an older one.
LEMMA SendFits ==
  ASSUME FormsInv, NEW f \in FlowNames, NEW dry \in BOOLEAN, NEW body \in Bodies, Send(f, dry, body),
         UNCHANGED <<driver, inst, done>>
  PROVE  /\ count' = count + 1 /\ calls' \subseteq FormCalls
         /\ \A u \in calls' :
                CallSent(u, f, dry, body) \/ \E c \in calls : CallBefore(u, c)
         /\ \A u, v \in calls' : u.n = v.n => u = v
         /\ \A c \in calls : \E u \in calls' : u.n = c.n /\ u.run = c.run
         /\ flows' \in [FlowNames -> FlowRecs]
         /\ \A g \in FlowNames :
                /\ flows'[g].about = flows[g].about /\ flows'[g].counts = flows[g].counts
                /\ g # f => flows'[g] = flows[g]
         /\ flows'[f].status = "busy"
  <1> DEFINE base == IF driver = "desk" THEN Older ELSE calls
             new == [n |-> count + 1, of |-> inst, f |-> f, dry |-> dry, body |-> body, old |-> FALSE,
                     served |-> "no", run |-> FALSE]
             saw == IF driver = "stream" THEN <<>> ELSE flows[f].shown
             fl == [flows[f] EXCEPT !.status = "busy", !.edited = FALSE, !.shown = saw]
  <1>1. /\ count' = count + 1 /\ calls' = base \union {new}
        /\ flows' = [flows EXCEPT ![f] = fl]
    BY DEF Send
  <1>2. /\ FormBasics /\ count \in Nat /\ inst \in Nat /\ flows \in [FlowNames -> FlowRecs] /\ calls \subseteq FormCalls
        /\ \A c, d \in calls : c.n = d.n => c = d
    BY DEF FormsInv, FormBasics, Numbered
  <1>3. saw \in Bodies \union {<<>>}
    BY <1>2 DEF FlowRecs
  <1>4. /\ new \in FormCalls /\ new.n = count + 1 /\ new.of = inst /\ new.f = f /\ new.dry = dry /\ new.body = body
        /\ new.served = "no" /\ new.run = FALSE
    BY <1>2 DEF FormCalls
  <1> HIDE DEF saw
  <1>0. /\ fl \in FlowRecs /\ fl.status = "busy" /\ fl.about = flows[f].about
        /\ fl.counts = flows[f].counts
    <2>1. flows[f] \in FlowRecs
      BY <1>2
    <2>2. fl \in FlowRecs
      BY <1>3, <2>1 DEF FlowRecs
    <2>3. fl.status = "busy" /\ fl.about = flows[f].about /\ fl.counts = flows[f].counts
      BY <2>1 DEF FlowRecs
    <2> QED
      BY <2>2, <2>3
  <1> HIDE DEF new, fl
  <1>5. \A u \in base : \E c \in calls : CallBefore(u, c)
    <2>1. CASE driver = "desk"
      BY <1>2, <2>1, OlderCalls DEF CallBefore
    <2>2. CASE driver # "desk"
      BY <2>2 DEF CallBefore, CallKept
    <2> QED
      BY <2>1, <2>2
  <1>6. base \subseteq FormCalls /\ \A c \in calls : \E u \in base : u.n = c.n /\ u.run = c.run
    BY <1>2, OlderCalls
  <1>7. \A u, v \in base : u.n = v.n => u = v
    <2>1. CASE driver # "desk"
      BY <1>2, <2>1
    <2>2. CASE driver = "desk"
      <3> TAKE u, v \in base
      <3>1. PICK c \in calls : u = [c EXCEPT !.old = TRUE] /\ CallKept(u, c)
        BY <1>2, <2>2, OlderCalls
      <3>2. PICK d \in calls : v = [d EXCEPT !.old = TRUE] /\ CallKept(v, d)
        BY <1>2, <2>2, OlderCalls
      <3>3. u.n = v.n => c = d
        BY <1>2, <3>1, <3>2 DEF CallKept
      <3> QED
        BY <3>1, <3>2, <3>3
    <2> QED
      BY <2>1, <2>2
  <1> HIDE DEF base
  <1>8. \A u \in base : u.n \in 1 .. count
    BY <1>5 DEF FormsInv, Numbered, CallBefore, CallKept
  <1>9. \A u, v \in calls' : u.n = v.n => u = v
    BY <1>1, <1>2, <1>4, <1>7, <1>8
  <1>10. /\ flows' \in [FlowNames -> FlowRecs]
         /\ \A g \in FlowNames :
                /\ flows'[g].about = flows[g].about /\ flows'[g].counts = flows[g].counts
                /\ g # f => flows'[g] = flows[g]
         /\ flows'[f].status = "busy"
    BY <1>0, <1>1, <1>2
  <1>11. \A u \in calls' :
                CallSent(u, f, dry, body) \/ \E c \in calls : CallBefore(u, c)
    BY <1>1, <1>4, <1>5 DEF CallSent
  <1>12. calls' \subseteq FormCalls /\ \A c \in calls : \E u \in calls' : u.n = c.n /\ u.run = c.run
    BY <1>1, <1>4, <1>6
  <1> QED
    BY <1>1, <1>9, <1>10, <1>11, <1>12

\* An idle flow asks; what it asks of are the answers on screen.
LEMMA SendKeeps ==
  ASSUME FormsInv, NEW f \in FlowNames, NEW dry \in BOOLEAN, Send(f, dry, Body),
         UNCHANGED <<driver, inst, access, tenant, role, done, desk>>,
         flows[f].status # "busy", answers.typed # None, answers' \in FormAnswers,
         answers'.typed = answers.typed, Body' = Body,
         answers.pin # None => answers'.pin # None,
         dry /\ driver = "write" => answers'.pin # None
  PROVE  FormsInv'
  <1>1. Body \in Bodies /\ answers \in FormAnswers /\ count \in Nat
    BY DEF FormsInv, FormBasics, Body, Target, Bodies, FormAnswers
  <1>2. /\ count' = count + 1 /\ calls' \subseteq FormCalls
        /\ \A u, v \in calls' : u.n = v.n => u = v
        /\ flows' \in [FlowNames -> FlowRecs]
        /\ \A g \in FlowNames :
                /\ flows'[g].about = flows[g].about /\ flows'[g].counts = flows[g].counts
                /\ g # f => flows'[g] = flows[g]
        /\ flows'[f].status = "busy"
    BY <1>1, SendFits
  <1>3. \A u \in calls' : CallSent(u, f, dry, Body) \/ \E c \in calls : CallBefore(u, c)
    BY <1>1, SendFits
  <1>4. \A c \in calls : \E u \in calls' : u.n = c.n /\ u.run = c.run
    BY <1>1, SendFits
  <1>5. FormBasics'
    BY <1>2 DEF FormsInv, FormBasics
  <1>6. Numbered'
    <2>1. /\ \A g \in FlowNames : flows[g].about <= count /\ \A d \in done[g] : d.n \in 1 .. count
          /\ \A c \in calls : c.n \in 1 .. count /\ c.of \in 1 .. inst
          /\ \A g \in FlowNames : flows[g].about \in Nat
          /\ inst \in Nat \ {0}
      BY DEF FormsInv, Numbered, FormBasics, FlowRecs
    <2>2. ASSUME NEW u \in calls' PROVE u.n \in 1 .. count' /\ u.of \in 1 .. inst
      <3>1. CASE CallSent(u, f, dry, Body)
        BY <1>1, <1>2, <2>1, <3>1 DEF CallSent
      <3>2. CASE \E c \in calls : CallBefore(u, c)
        BY <1>1, <1>2, <2>1, <3>2 DEF CallBefore, CallKept
      <3> QED
        BY <1>3, <3>1, <3>2
    <2>3. \A g \in FlowNames : flows'[g].about <= count' /\ \A d \in done'[g] : d.n \in 1 .. count'
      BY <1>1, <1>2, <2>1
    <2> QED
      BY <1>2, <2>2, <2>3 DEF Numbered
  <1>7. RoleFits'
    BY RoleIsLeft
  <1>8. ListFits'
    <2>1. ListFits
      BY DEF FormsInv
    <2>2. ASSUME NEW u \in calls', u.run PROVE driver = "desk" /\ ~u.dry /\ u.served # "no" /\ u.n \in desk.ledger
      <3>1. PICK c \in calls : CallBefore(u, c)
        BY <1>3, <2>2 DEF CallSent
      <3> QED
        BY <2>1, <2>2, <3>1 DEF ListFits, CallBefore, CallKept
    <2>3. ASSUME NEW c \in calls, c.run PROVE \E u \in calls' : u.n = c.n /\ u.run
      <3>1. PICK u \in calls' : u.n = c.n /\ u.run = c.run
        BY <1>4
      <3> QED
        BY <2>3, <3>1
    <2>4. desk'.ledger \subseteq 0 .. count'
      BY <1>1, <1>2, <2>1 DEF ListFits
    <2> QED
      BY <2>1, <2>2, <2>3, <2>4 DEF ListFits
  <1>9. ASSUME NEW g \in FlowNames, NEW u \in CallsHere(g)'
        PROVE  (g = f /\ CallSent(u, f, dry, Body)) \/ \E c \in CallsHere(g) : CallBefore(u, c)
    BY <1>3, <1>9 DEF CallsHere, CallSent, CallBefore, CallKept
  <1>10. OneCallEach'
    <2>1. CASE driver = "desk"
      BY <2>1 DEF OneCallEach
    <2>2. CASE driver # "desk"
      <3>1. CallsHere(f) = {}
        BY <2>2 DEF FormsInv, OneCallEach
      <3>2. \A u \in CallsHere(f)' : CallSent(u, f, dry, Body) /\ u \in calls'
        BY <1>9, <3>1 DEF CallsHere
      <3>3. \A u, v \in CallsHere(f)' : u = v
        BY <1>2, <3>2 DEF CallSent
      <3>4. \A d \in done[f] : d.n <= count + 1
        BY <1>1 DEF FormsInv, Numbered
      <3>5. ASSUME NEW g \in FlowNames, g # f PROVE CallsHere(g)' \subseteq CallsHere(g) /\ flows'[g] = flows[g]
        BY <1>2, <1>9, <2>2, <3>5 DEF CallBefore
      <3>6. ASSUME NEW g \in FlowNames
            PROVE  /\ \A c \in CallsHere(g)' : flows'[g].status = "busy" /\ \A d \in done[g] : d.n <= c.n
                   /\ \A c, d \in CallsHere(g)' : c = d
        <4>1. CASE g = f
          BY <1>2, <3>2, <3>3, <3>4, <4>1 DEF CallSent
        <4>2. CASE g # f
          BY <2>2, <3>5, <4>2 DEF FormsInv, OneCallEach
        <4> QED
          BY <4>1, <4>2
      <3> QED
        BY <3>6 DEF OneCallEach
    <2> QED
      BY <2>1, <2>2
  <1>11. ServedIsDone'
    <2>1. ServedIsDone
      BY DEF FormsInv
    <2>2. ASSUME NEW g \in FlowNames, NEW u \in CallsHere(g)', ~u.dry, u.served # "no"
          PROVE  [n |-> u.n, how |-> u.served] \in done[g]
      <3>1. PICK c \in CallsHere(g) : CallBefore(u, c)
        BY <1>9, <2>2 DEF CallSent
      <3> QED
        BY <2>1, <2>2, <3>1 DEF ServedIsDone, CallBefore, CallKept
    <2>3. \A g \in FlowNames : flows'[g].status = "applied" => g # f /\ flows'[g] = flows[g]
      BY <1>2
    <2> QED
      BY <2>1, <2>2, <2>3 DEF ServedIsDone
  <1>12. AskedOfAnswers'
    BY DEF FormsInv, AskedOfAnswers
  <1>13. PreviewIsOfTheAnswers'
    <2>1. PreviewIsOfTheAnswers
      BY DEF FormsInv
    <2>2. ASSUME NEW g \in FlowNames, driver = "write"
          PROVE  /\ ApplyShown(g)' => flows'[g].shown = Body /\ answers'.pin # None
                 /\ ~flows'[g].edited => \A u \in CallsHere(g)' : u.dry => u.body = Body /\ answers'.pin # None
      <3>1. CASE g = f
        <4>1. CallsHere(f) = {}
          BY <2>2 DEF FormsInv, OneCallEach
        <4>2. \A u \in CallsHere(f)' : CallSent(u, f, dry, Body)
          BY <1>9, <4>1
        <4>3. ~ApplyShown(f)'
          BY <1>2 DEF ApplyShown
        <4> QED
          BY <2>2, <3>1, <4>2, <4>3 DEF CallSent
      <3>2. CASE g # f
        <4>0. \A u \in CallsHere(g)' : u \in CallsHere(g)
          BY <1>9, <2>2, <3>2 DEF CallBefore
        <4>1. flows'[g] = flows[g] /\ CallsHere(g)' \subseteq CallsHere(g)
          BY <1>2, <3>2, <4>0
        <4> QED
          BY <2>1, <2>2, <4>1 DEF PreviewIsOfTheAnswers, ApplyShown
      <3> QED
        BY <3>1, <3>2
    <2>3. ASSUME NEW g \in FlowNames, driver = "desk"
          PROVE  /\ ApplyShown(g)' => flows'[g].shown = Body
                 /\ \A u \in CallsHere(g)' : u.dry /\ ~u.old => u.body = Body
      <3>1. \A u \in CallsHere(g)' : CallSent(u, f, dry, Body) \/ u.old
        BY <1>9, <2>3 DEF CallBefore
      <3>2. ApplyShown(g)' => g # f /\ flows'[g] = flows[g]
        BY <1>2 DEF ApplyShown
      <3> QED
        BY <2>1, <2>3, <3>1, <3>2 DEF PreviewIsOfTheAnswers, ApplyShown, CallSent
    <2> QED
      BY <2>2, <2>3 DEF PreviewIsOfTheAnswers
  <1> QED
    BY <1>5, <1>6, <1>7, <1>8, <1>10, <1>11, <1>12, <1>13 DEF FormsInv

LEMMA PreviewKeeps ==
  ASSUME FormsInv, NEW f \in FlowNames, Preview(f)
  PROVE  FormsInv'
  <1>1. /\ Send(f, TRUE, Body) /\ UNCHANGED <<driver, inst, access, tenant, role, done, desk>>
        /\ flows[f].status # "busy" /\ answers.typed # None /\ (driver = "write" => Target # None)
        /\ answers' = IF driver = "write" THEN [answers EXCEPT !.pin = Target] ELSE answers
    BY DEF Preview, Complete, Pin
  <1>2. answers \in FormAnswers /\ Target \in Subnets \union {None}
    BY DEF FormsInv, FormBasics, Target, FormAnswers
  <1>3. /\ answers' \in FormAnswers /\ answers'.typed = answers.typed /\ answers'.roomy = answers.roomy
        /\ answers'.pin = IF driver = "write" THEN Target ELSE answers.pin
    BY <1>1, <1>2 DEF FormAnswers
  <1>4. Body' = Body
    BY <1>1, <1>3 DEF Body, Target
  <1>5. answers.pin # None => answers'.pin # None
    BY <1>1, <1>3
  <1>6. driver = "write" => answers'.pin # None
    BY <1>1, <1>3
  <1>7. TRUE \in BOOLEAN
    OBVIOUS
  <1> QED
    BY <1>1, <1>3, <1>4, <1>5, <1>6, <1>7, SendKeeps

LEMMA ApplyKeeps ==
  ASSUME FormsInv, NEW f \in FlowNames, Apply(f)
  PROVE  FormsInv'
  <1>1. /\ Send(f, FALSE, Body) /\ UNCHANGED <<driver, inst, answers, access, tenant, role, done, desk>>
        /\ flows[f].status = "previewed"
    BY DEF Apply, ApplyShown
  <1>2. answers.typed # None
    BY <1>1 DEF FormsInv, AskedOfAnswers
  <1>3. answers' \in FormAnswers /\ Body' = Body
    BY <1>1 DEF FormsInv, FormBasics, Body, Target
  <1>4. FALSE \in BOOLEAN
    OBVIOUS
  <1> QED
    BY <1>1, <1>2, <1>3, <1>4, SendKeeps

-----------------------------------------------------------------------------
(* What becomes of a call.                                                 *)

\* The server runs one.
LEMMA ServeKeeps ==
  ASSUME FormsInv, NEW c \in calls, Serve(c)
  PROVE  FormsInv'
  <1>1. PICK how \in Outcomes, run \in BOOLEAN :
            /\ run => driver = "desk" /\ ~c.dry
            /\ calls' = (calls \ {c}) \union {[c EXCEPT !.served = how, !.run = run]}
            /\ done' = IF c.dry \/ c.of # inst THEN done
                       ELSE [done EXCEPT ![c.f] = @ \union {[n |-> c.n, how |-> how]}]
            /\ desk' = IF run THEN [desk EXCEPT !.ledger = @ \union {c.n}] ELSE desk
    BY DEF Serve, Outcomes
  <1>2. c.served = "no" /\ UNCHANGED <<driver, inst, answers, flows, count, access, tenant, role>>
    BY DEF Serve
  <1>3. /\ c \in FormCalls /\ calls \subseteq FormCalls /\ count \in Nat /\ done \in [FlowNames -> SUBSET Applies]
        /\ c.f \in FlowNames /\ c.n \in 1 .. count /\ c.n \in Nat /\ c.of \in 1 .. inst
        /\ \A b, d \in calls : b.n = d.n => b = d
    BY DEF FormsInv, FormBasics, Numbered, FormCalls
  <1> DEFINE new == [c EXCEPT !.served = how, !.run = run]
             made == [n |-> c.n, how |-> how]
             ledger == desk.ledger \union {c.n}
  <1>4. /\ new \in FormCalls /\ new.n = c.n /\ new.of = c.of /\ new.f = c.f /\ new.dry = c.dry /\ new.body = c.body
        /\ new.old = c.old /\ new.served = how /\ new.run = run /\ how # "no"
    BY <1>3 DEF FormCalls, Outcomes
  <1>5. calls' = (calls \ {c}) \union {new}
    BY <1>1
  <1>6. made \in Applies /\ made.n = c.n /\ made.how = how
    BY <1>3 DEF Applies
  <1>7. done' = IF c.dry \/ c.of # inst THEN done ELSE [done EXCEPT ![c.f] = @ \union {made}]
    BY <1>1
  <1>8. /\ desk' = (IF run THEN [desk EXCEPT !.ledger = ledger] ELSE desk) /\ desk \in DeskViews
        /\ ledger \in SUBSET Nat /\ \A n \in ledger : n \in desk.ledger \/ n = c.n
        /\ c.n \in ledger /\ desk.ledger \subseteq ledger
    BY <1>1, <1>3 DEF FormsInv, FormBasics, DeskViews
  <1>9. made = [n |-> c.n, how |-> how]
    OBVIOUS
  <1> HIDE DEF new, made, ledger
  <1>10. /\ done' \in [FlowNames -> SUBSET Applies]
         /\ \A f \in FlowNames : /\ done[f] \subseteq done'[f]
                                 /\ \A d \in done'[f] : d \in done[f] \/ (d = made /\ f = c.f /\ c.of = inst)
         /\ ~c.dry /\ c.of = inst => made \in done'[c.f]
    BY <1>3, <1>6, <1>7
  <1>11. /\ desk' \in DeskViews /\ desk'.lost = desk.lost /\ desk'.told = desk.told /\ desk'.reads = desk.reads
         /\ desk'.ledger = IF run THEN ledger ELSE desk.ledger
    BY <1>8 DEF DeskViews
  <1>12. FormBasics'
    BY <1>2, <1>4, <1>5, <1>10, <1>11 DEF FormsInv, FormBasics
  <1>13. Numbered'
    <2>1. \A f \in FlowNames : flows[f].about <= count /\ \A d \in done'[f] : d.n \in 1 .. count
      BY <1>3, <1>6, <1>10 DEF FormsInv, Numbered
    <2>2. \A u \in calls' : u.n \in 1 .. count /\ u.of \in 1 .. inst
      BY <1>3, <1>4, <1>5 DEF FormsInv, Numbered
    <2>3. \A u, v \in calls' : u.n = v.n => u = v
      BY <1>3, <1>4, <1>5
    <2> QED
      BY <1>2, <2>1, <2>2, <2>3 DEF Numbered
  <1>14. RoleFits'
    BY <1>2, RoleIsLeft
  <1>15. ListFits'
    <2>1. ListFits /\ ~c.run
      BY <1>2 DEF FormsInv, ListFits
    <2>2. ASSUME NEW u \in calls', u.run PROVE driver = "desk" /\ ~u.dry /\ u.served # "no" /\ u.n \in desk'.ledger
      <3>1. CASE u = new
        BY <1>1, <1>4, <1>8, <1>11, <2>2, <3>1
      <3>2. CASE u \in calls
        BY <1>8, <1>11, <2>1, <2>2, <3>2 DEF ListFits
      <3> QED
        BY <1>5, <3>1, <3>2
    <2>3. ASSUME NEW n \in desk'.ledger \ (desk.lost \union desk.told)
          PROVE  desk.reads > 0 \/ \E u \in calls' : u.n = n /\ u.run
      <3>1. CASE n \in desk.ledger
        <4>1. desk.reads > 0 \/ \E b \in calls : b.n = n /\ b.run
          BY <2>1, <2>3, <3>1 DEF ListFits
        <4>2. \A b \in calls : b.run => b \in calls'
          BY <1>5, <2>1
        <4> QED
          BY <4>1, <4>2
      <3>2. CASE n \notin desk.ledger
        <4>1. run /\ n = c.n
          BY <1>8, <1>11, <2>3, <3>2
        <4> QED
          BY <1>4, <1>5, <4>1
      <3> QED
        BY <3>1, <3>2
    <2>4. desk'.ledger \subseteq 0 .. count /\ desk.lost \subseteq desk'.ledger /\ desk.told \subseteq desk'.ledger
      BY <1>3, <1>8, <1>11, <2>1 DEF ListFits
    <2> QED
      BY <1>2, <1>11, <2>2, <2>3, <2>4 DEF ListFits
  <1>16. \A f \in FlowNames : \A u \in CallsHere(f)' :
             u \in CallsHere(f) \/ (u = new /\ c \in CallsHere(f) /\ f = c.f /\ c.of = inst)
    BY <1>2, <1>4, <1>5 DEF CallsHere
  <1>17. OneCallEach'
    <2>1. CASE driver = "desk"
      BY <1>2, <2>1 DEF OneCallEach
    <2>2. CASE driver # "desk"
      <3>1. ASSUME NEW f \in FlowNames
            PROVE  /\ \A u \in CallsHere(f)' : flows[f].status = "busy" /\ \A d \in done'[f] : d.n <= u.n
                   /\ \A u, v \in CallsHere(f)' : u = v
        <4>1. /\ \A b \in CallsHere(f) : flows[f].status = "busy" /\ \A d \in done[f] : d.n <= b.n
              /\ \A b, d \in CallsHere(f) : b = d
          BY <2>2 DEF FormsInv, OneCallEach
        <4>2. CASE f = c.f /\ c.of = inst
          <5>1. CallsHere(f) = {c}
            BY <4>1, <4>2 DEF CallsHere
          <5>2. \A u \in CallsHere(f)' : u = new
            BY <1>2, <1>5, <1>16, <5>1 DEF CallsHere
          <5>3. \A d \in done'[f] : d.n <= c.n
            BY <1>3, <1>6, <1>10, <4>1, <5>1
          <5> QED
            BY <1>4, <4>1, <5>1, <5>2, <5>3
        <4>3. CASE ~(f = c.f /\ c.of = inst)
          <5>1. CallsHere(f)' \subseteq CallsHere(f)
            BY <1>16, <4>3
          <5>2. \A d \in done'[f] : d \in done[f]
            BY <1>10, <4>3
          <5> QED
            BY <4>1, <5>1, <5>2
        <4> QED
          BY <4>2, <4>3
      <3> QED
        BY <1>2, <3>1 DEF OneCallEach
    <2> QED
      BY <2>1, <2>2
  <1>18. ServedIsDone'
    <2>1. ServedIsDone
      BY DEF FormsInv
    <2>2. ASSUME NEW f \in FlowNames, NEW u \in CallsHere(f)', ~u.dry, u.served # "no"
          PROVE  [n |-> u.n, how |-> u.served] \in done'[f]
      <3>1. CASE u \in CallsHere(f)
        BY <1>10, <2>1, <2>2, <3>1 DEF ServedIsDone
      <3>2. CASE u = new /\ f = c.f /\ c.of = inst
        BY <1>4, <1>9, <1>10, <2>2, <3>2
      <3> QED
        BY <1>16, <2>2, <3>1, <3>2
    <2>3. ASSUME NEW f \in FlowNames, flows[f].status = "applied"
          PROVE  /\ [n |-> flows[f].about, how |-> flows[f].counts] \in done'[f]
                 /\ driver = "desk" \/ \A d \in done'[f] : d.n <= flows[f].about
      <3>1. driver # "desk" => ~(f = c.f /\ c.of = inst)
        BY <2>3 DEF FormsInv, OneCallEach, CallsHere
      <3>2. driver # "desk" => \A d \in done'[f] : d \in done[f]
        BY <1>10, <3>1
      <3> QED
        BY <1>10, <2>1, <2>3, <3>2 DEF ServedIsDone
    <2> QED
      BY <1>2, <2>2, <2>3 DEF ServedIsDone
  <1>19. AskedOfAnswers'
    <2>1. \A f \in FlowNames : CallsHere(f) = {} => CallsHere(f)' = {}
      BY <1>16
    <2> QED
      BY <1>2, <2>1 DEF FormsInv, AskedOfAnswers
  <1>20. PreviewIsOfTheAnswers'
    <2>1. \A f \in FlowNames : \A u \in CallsHere(f)' :
              \E b \in CallsHere(f) : u.dry = b.dry /\ u.body = b.body /\ u.old = b.old
      BY <1>4, <1>16
    <2>2. Body' = Body /\ answers' = answers /\ flows' = flows /\ driver' = driver
      BY <1>2 DEF Body, Target
    <2>3. \A f \in FlowNames : ApplyShown(f)' = ApplyShown(f)
      BY <1>2 DEF ApplyShown
    <2>4. PreviewIsOfTheAnswers
      BY DEF FormsInv
    <2>5. ASSUME NEW f \in FlowNames, driver = "write", ~flows[f].edited, NEW u \in CallsHere(f)', u.dry
          PROVE  u.body = Body /\ answers.pin # None
      BY <2>1, <2>4, <2>5 DEF PreviewIsOfTheAnswers
    <2>6. ASSUME NEW f \in FlowNames, driver = "desk", NEW u \in CallsHere(f)', u.dry, ~u.old
          PROVE  u.body = Body
      BY <2>1, <2>4, <2>6 DEF PreviewIsOfTheAnswers
    <2> QED
      BY <2>2, <2>3, <2>4, <2>5, <2>6 DEF PreviewIsOfTheAnswers
  <1> QED
    BY <1>12, <1>13, <1>14, <1>15, <1>17, <1>18, <1>19, <1>20 DEF FormsInv


\* A call is gone: its flow waits no more, and shows what became of it.
LEMMA CallGone ==
  ASSUME FormsInv, NEW c \in calls, calls' = calls \ {c},
         UNCHANGED <<driver, inst, answers, count, tenant, role, done>>, access' \in Accesses, desk' \in DeskViews,
         desk'.ledger = desk.ledger, desk'.told = desk.told, desk.lost \subseteq desk'.lost,
         desk'.lost \subseteq desk.ledger, desk.reads <= desk'.reads,
         c.run => c.n \in desk'.lost \/ desk'.reads > 0,
         flows' \in [FlowNames -> FlowRecs],
         \A f \in FlowNames :
             \/ flows'[f] = flows[f]
             \/ /\ f = c.f /\ c.of = inst /\ flows'[f].edited = flows[f].edited
                /\ flows'[f].about = flows[f].about \/ flows'[f].about = c.n
                /\ flows'[f].status = "applied" =>
                       /\ ~c.dry /\ c.served # "no" /\ flows'[f].about = c.n /\ flows'[f].counts = c.served
                /\ flows'[f].status = "previewed" =>
                       /\ c.dry /\ flows'[f].shown = c.body
                       /\ driver = "write" => flows'[f].stale = flows[f].edited
                       /\ driver = "desk" => ~c.old
  PROVE  FormsInv'
  <1>1. /\ c \in FormCalls /\ c.f \in FlowNames /\ c.n \in 1 .. count /\ count \in Nat /\ desk \in DeskViews
        /\ \A f \in FlowNames : flows[f].about <= count
    BY DEF FormsInv, FormBasics, Numbered, FormCalls
  <1>2. FormBasics'
    BY DEF FormsInv, FormBasics
  <1>3. Numbered'
    BY <1>1 DEF FormsInv, Numbered
  <1>4. RoleFits'
    BY RoleIsLeft
  <1>5. ListFits'
    <2>1. ListFits
      BY DEF FormsInv
    <2>2. desk.reads \in Nat /\ desk'.reads \in Nat
      BY <1>1 DEF DeskViews
    <2>3. ASSUME NEW n \in desk'.ledger \ (desk'.lost \union desk'.told)
          PROVE  desk'.reads > 0 \/ \E u \in calls' : u.n = n /\ u.run
      <3>1. desk.reads > 0 \/ \E b \in calls : b.n = n /\ b.run
        BY <2>1, <2>3 DEF ListFits
      <3>2. \A b \in calls : b.n = n /\ b.run => b \in calls' \/ desk'.reads > 0
        BY <2>3
      <3> QED
        BY <2>2, <3>1, <3>2
    <2> QED
      BY <2>1, <2>3 DEF ListFits
  <1>6. \A f \in FlowNames : CallsHere(f)' \subseteq CallsHere(f)
    BY DEF CallsHere
  <1>7. \A f \in FlowNames : \A u \in CallsHere(f) : u # c => u \in CallsHere(f)'
    BY DEF CallsHere
  <1>8. c.of = inst => c \in CallsHere(c.f)
    BY DEF CallsHere
  <1>9. OneCallEach'
    <2>1. CASE driver = "desk"
      BY <2>1 DEF OneCallEach
    <2>2. CASE driver # "desk"
      <3>1. OneCallEach
        BY DEF FormsInv
      <3>2. c.of = inst => CallsHere(c.f)' = {}
        BY <1>1, <1>6, <1>8, <2>2, <3>1 DEF OneCallEach, CallsHere
      <3>3. \A f \in FlowNames : CallsHere(f)' # {} => flows'[f] = flows[f]
        BY <3>2
      <3> QED
        BY <1>6, <2>2, <3>1, <3>3 DEF OneCallEach
    <2> QED
      BY <2>1, <2>2
  <1>10. ServedIsDone'
    <2>1. ServedIsDone
      BY DEF FormsInv
    <2>2. ASSUME NEW f \in FlowNames, flows'[f].status = "applied"
          PROVE  /\ [n |-> flows'[f].about, how |-> flows'[f].counts] \in done[f]
                 /\ driver = "desk" \/ \A d \in done[f] : d.n <= flows'[f].about
      <3>1. CASE flows'[f] = flows[f]
        BY <2>1, <2>2, <3>1 DEF ServedIsDone
      <3>2. CASE flows'[f] # flows[f]
        <4>1. /\ f = c.f /\ c \in CallsHere(f) /\ ~c.dry /\ c.served # "no" /\ flows'[f].about = c.n
              /\ flows'[f].counts = c.served
          BY <1>8, <2>2, <3>2
        <4>2. driver = "desk" \/ \A d \in done[f] : d.n <= c.n
          BY <4>1 DEF FormsInv, OneCallEach
        <4> QED
          BY <2>1, <4>1, <4>2 DEF ServedIsDone
      <3> QED
        BY <3>1, <3>2
    <2> QED
      BY <1>6, <2>1, <2>2 DEF ServedIsDone
  <1>11. AskedOfAnswers'
    <2>1. AskedOfAnswers
      BY DEF FormsInv
    <2>2. answers.typed = None => \A f \in FlowNames : flows'[f] = flows[f]
      BY <1>1, <1>8, <2>1 DEF AskedOfAnswers
    <2> QED
      BY <1>6, <2>1, <2>2 DEF AskedOfAnswers
  <1>12. PreviewIsOfTheAnswers'
    <2>1. PreviewIsOfTheAnswers /\ Body' = Body
      BY DEF FormsInv, Body, Target
    <2>2. ASSUME NEW f \in FlowNames, flows'[f] # flows[f], ApplyShown(f)'
          PROVE  /\ c \in CallsHere(f) /\ c.dry /\ flows'[f].shown = c.body
                 /\ driver = "write" => ~flows[f].edited
                 /\ driver = "desk" => ~c.old
      BY <1>8, <2>2 DEF ApplyShown
    <2>3. ASSUME NEW f \in FlowNames, driver = "write"
          PROVE  /\ ApplyShown(f)' => flows'[f].shown = Body /\ answers.pin # None
                 /\ ~flows'[f].edited => \A u \in CallsHere(f)' : u.dry => u.body = Body /\ answers.pin # None
      <3>1. flows'[f].edited = flows[f].edited
        OBVIOUS
      <3>2. ASSUME ApplyShown(f)' PROVE flows'[f].shown = Body /\ answers.pin # None
        <4>1. CASE flows'[f] = flows[f]
          BY <2>1, <2>3, <3>2, <4>1 DEF PreviewIsOfTheAnswers, ApplyShown
        <4>2. CASE flows'[f] # flows[f]
          BY <2>1, <2>2, <2>3, <3>2, <4>2 DEF PreviewIsOfTheAnswers
        <4> QED
          BY <4>1, <4>2
      <3> QED
        BY <1>6, <2>1, <2>3, <3>1, <3>2 DEF PreviewIsOfTheAnswers
    <2>4. ASSUME NEW f \in FlowNames, driver = "desk"
          PROVE  /\ ApplyShown(f)' => flows'[f].shown = Body
                 /\ \A u \in CallsHere(f)' : u.dry /\ ~u.old => u.body = Body
      <3>1. ASSUME ApplyShown(f)' PROVE flows'[f].shown = Body
        <4>1. CASE flows'[f] = flows[f]
          BY <2>1, <2>4, <3>1, <4>1 DEF PreviewIsOfTheAnswers, ApplyShown
        <4>2. CASE flows'[f] # flows[f]
          BY <2>1, <2>2, <2>4, <3>1, <4>2 DEF PreviewIsOfTheAnswers
        <4> QED
          BY <4>1, <4>2
      <3> QED
        BY <1>6, <2>1, <2>4, <3>1 DEF PreviewIsOfTheAnswers
    <2> QED
      BY <2>1, <2>3, <2>4 DEF PreviewIsOfTheAnswers
  <1> QED
    BY <1>2, <1>3, <1>4, <1>5, <1>9, <1>10, <1>11, <1>12 DEF FormsInv

\* What its answer makes of a flow.
LEMMA TakenFits ==
  ASSUME FormsInv, NEW c \in calls, c.served # "no"
  PROVE  LET fl == flows[c.f] IN
         /\ Taken(c) \in FlowRecs /\ Taken(c).edited = fl.edited
         /\ Taken(c).about = fl.about \/ Taken(c).about = c.n
         /\ Taken(c).status = "applied" => ~c.dry /\ Taken(c).about = c.n /\ Taken(c).counts = c.served
         /\ Taken(c).status = "previewed" =>
                /\ c.dry /\ Taken(c).shown = c.body
                /\ driver = "write" => Taken(c).stale = fl.edited
  <1> DEFINE fl == flows[c.f]
             stale == driver = "write" /\ fl.edited
             saw == IF driver = "stream" THEN c.body ELSE <<>>
  <1>1. /\ fl \in FlowRecs /\ c.served \in Outcomes /\ c.body \in Bodies \union {<<>>} /\ c.n \in Nat
        /\ c.dry \in BOOLEAN
    BY DEF FormsInv, FormBasics, FormCalls
  <1>2. /\ stale \in BOOLEAN /\ saw \in Bodies \union {<<>>} /\ <<>> \in Bodies \union {<<>>}
        /\ driver = "write" => stale = fl.edited
    BY <1>1 DEF FlowRecs
  <1>3. Taken(c) = IF c.served = "failed" THEN [fl EXCEPT !.status = "idle", !.shown = <<>>]
                   ELSE IF c.dry
                   THEN [fl EXCEPT !.status = "previewed", !.shown = c.body, !.counts = c.served, !.stale = stale]
                   ELSE [fl EXCEPT !.status = "applied", !.stale = FALSE, !.counts = c.served, !.about = c.n,
                                   !.shown = saw]
    BY DEF Taken, Failing
  <1> HIDE DEF fl, stale, saw
  <1>4. /\ Taken(c) \in FlowRecs /\ Taken(c).edited = fl.edited
        /\ Taken(c).about = fl.about \/ Taken(c).about = c.n
        /\ Taken(c).status = "applied" => ~c.dry /\ Taken(c).about = c.n /\ Taken(c).counts = c.served
        /\ Taken(c).status = "previewed" => c.dry /\ Taken(c).shown = c.body /\ Taken(c).stale = stale
    <2>1. CASE c.served = "failed"
      BY <1>1, <1>2, <1>3, <2>1 DEF FlowRecs
    <2>2. CASE c.served # "failed" /\ c.dry
      <3> DEFINE new == [fl EXCEPT !.status = "previewed", !.shown = c.body, !.counts = c.served, !.stale = stale]
      <3>1. new \in FlowRecs
        BY <1>1, <1>2 DEF FlowRecs
      <3>2. new.status = "previewed" /\ new.shown = c.body /\ new.stale = stale
        BY <1>1 DEF FlowRecs
      <3>3. new.edited = fl.edited /\ new.about = fl.about
        BY <1>1 DEF FlowRecs
      <3>4. Taken(c) = new
        BY <1>3, <2>2
      <3> HIDE DEF new
      <3> QED
        BY <2>2, <3>1, <3>2, <3>3, <3>4
    <2>3. CASE c.served # "failed" /\ ~c.dry
      <3> DEFINE new == [fl EXCEPT !.status = "applied", !.stale = FALSE, !.counts = c.served, !.about = c.n,
                                   !.shown = saw]
      <3>1. new \in FlowRecs
        BY <1>1, <1>2 DEF FlowRecs
      <3>2. new.status = "applied" /\ new.about = c.n /\ new.counts = c.served
        BY <1>1 DEF FlowRecs
      <3>3. new.edited = fl.edited
        BY <1>1 DEF FlowRecs
      <3>4. Taken(c) = new
        BY <1>3, <2>3
      <3> HIDE DEF new
      <3> QED
        BY <2>3, <3>1, <3>2, <3>3, <3>4
    <2> QED
      BY <1>1, <2>1, <2>2, <2>3
  <1> QED
    BY <1>2, <1>4 DEF fl

\* An answer lands.
LEMMA LandKeeps ==
  ASSUME FormsInv, NEW c \in calls, Land(c)
  PROVE  FormsInv'
  <1>1. /\ c.served # "no" /\ calls' = calls \ {c}
        /\ UNCHANGED <<driver, inst, answers, count, access, tenant, role, done>>
    BY DEF Land
  <1>2. /\ access' \in Accesses /\ desk \in DeskViews /\ desk.reads \in Nat /\ desk.lost \subseteq desk.ledger
        /\ flows \in [FlowNames -> FlowRecs] /\ c.f \in FlowNames
        /\ c.run => driver = "desk" /\ ~c.dry
    BY <1>1 DEF FormsInv, FormBasics, DeskViews, ListFits, FormCalls
  <1>3. CASE Dropped(c)
    <2>1. ~c.run /\ flows' = flows /\ desk' = desk
      BY <1>2, <1>3 DEF Land, Dropped
    <2>2. desk.reads <= desk'.reads
      BY <1>2, <2>1
    <2> QED
      BY <1>1, <1>2, <2>1, <2>2, CallGone
  <1>4. CASE ~Dropped(c)
    <2> DEFINE reads == desk.reads + 1
    <2>1. /\ flows' = IF c.of = inst THEN [flows EXCEPT ![c.f] = Taken(c)] ELSE flows
          /\ desk' = IF c.run THEN [desk EXCEPT !.reads = reads] ELSE desk
      BY <1>4 DEF Land
    <2>2. reads \in Nat /\ reads > 0 /\ desk.reads <= reads
      BY <1>2
    <2> HIDE DEF reads
    <2>3. /\ desk' \in DeskViews /\ desk'.ledger = desk.ledger /\ desk'.told = desk.told /\ desk'.lost = desk.lost
          /\ desk.reads <= desk'.reads /\ (c.run => desk'.reads > 0)
      BY <1>2, <2>1, <2>2 DEF DeskViews
    <2>4. Taken(c) \in FlowRecs
      BY <1>1, TakenFits
    <2>5. flows' \in [FlowNames -> FlowRecs]
      BY <1>2, <2>1, <2>4
    <2>6. driver = "desk" /\ c.dry => ~c.old
      BY <1>4 DEF Dropped
    <2>7. ASSUME NEW f \in FlowNames, flows'[f] # flows[f]
          PROVE  /\ f = c.f /\ c.of = inst /\ flows'[f].edited = flows[f].edited
                 /\ flows'[f].about = flows[f].about \/ flows'[f].about = c.n
                 /\ flows'[f].status = "applied" =>
                       /\ ~c.dry /\ c.served # "no" /\ flows'[f].about = c.n /\ flows'[f].counts = c.served
                 /\ flows'[f].status = "previewed" =>
                       /\ c.dry /\ flows'[f].shown = c.body
                       /\ driver = "write" => flows'[f].stale = flows[f].edited
                       /\ driver = "desk" => ~c.old
      <3>1. f = c.f /\ c.of = inst /\ flows'[f] = Taken(c)
        BY <1>2, <2>1, <2>7
      <3> QED
        BY <1>1, <2>6, <3>1, TakenFits
    <2> QED
      BY <1>1, <1>2, <2>3, <2>5, <2>7, CallGone
  <1> QED
    BY <1>3, <1>4

\* A connection breaks.
LEMMA LostKeeps ==
  ASSUME FormsInv, NEW c \in calls, Lost(c)
  PROVE  FormsInv'
  <1> DEFINE reads == access.reads \union {"sent"}
             lost == desk.lost \union {c.n}
             shut == Failing(flows[c.f])
  <1>1. /\ calls' = calls \ {c} /\ UNCHANGED <<driver, inst, answers, count, tenant, role, done>>
        /\ flows' = IF c.of = inst /\ ~Dropped(c) THEN [flows EXCEPT ![c.f] = shut] ELSE flows
        /\ access' = IF driver = "stream" THEN [access EXCEPT !.reads = reads] ELSE access
        /\ desk' = IF c.run THEN [desk EXCEPT !.lost = lost] ELSE desk
    BY DEF Lost
  <1>2. /\ access \in Accesses /\ desk \in DeskViews /\ desk.reads \in Nat /\ desk.lost \subseteq desk.ledger
        /\ flows \in [FlowNames -> FlowRecs] /\ c.f \in FlowNames /\ c.n \in Nat
        /\ c.run => c.n \in desk.ledger
    BY DEF FormsInv, FormBasics, DeskViews, ListFits, FormCalls
  <1>3. /\ reads \in SUBSET {"sent", "open", "readonly"} /\ lost \in SUBSET Nat
        /\ (c.run => lost \subseteq desk.ledger) /\ desk.lost \subseteq lost /\ c.n \in lost
    BY <1>2 DEF Accesses, DeskViews
  <1>4. /\ shut \in FlowRecs /\ shut.status = "idle" /\ shut.edited = flows[c.f].edited
        /\ shut.about = flows[c.f].about
    <2>1. flows[c.f] \in FlowRecs
      BY <1>2
    <2>2. \A fl \in FlowRecs : /\ Failing(fl) \in FlowRecs /\ Failing(fl).status = "idle"
                               /\ Failing(fl).edited = fl.edited /\ Failing(fl).about = fl.about
      BY DEF Failing, FlowRecs
    <2> QED
      BY <2>1, <2>2
  <1> HIDE DEF reads, lost, shut
  <1>5. access' \in Accesses
    BY <1>1, <1>2, <1>3 DEF Accesses
  <1>6. /\ desk' \in DeskViews /\ desk'.ledger = desk.ledger /\ desk'.told = desk.told
        /\ desk'.reads = desk.reads /\ desk'.lost = IF c.run THEN lost ELSE desk.lost
    BY <1>1, <1>2, <1>3 DEF DeskViews
  <1>7. /\ desk.lost \subseteq desk'.lost /\ desk'.lost \subseteq desk.ledger /\ desk.reads <= desk'.reads
        /\ c.run => c.n \in desk'.lost
    <2>1. desk.reads <= desk'.reads
      BY <1>2, <1>6
    <2>2. CASE c.run
      BY <1>2, <1>3, <1>6, <2>1, <2>2
    <2>3. CASE ~c.run
      BY <1>2, <1>6, <2>1, <2>3
    <2> QED
      BY <2>2, <2>3
  <1>8. flows' \in [FlowNames -> FlowRecs]
    BY <1>1, <1>2, <1>4
  <1>9. \A f \in FlowNames : flows'[f] = flows[f] \/ (f = c.f /\ c.of = inst /\ flows'[f] = shut)
    BY <1>1, <1>2
  <1>10. ASSUME NEW f \in FlowNames, flows'[f] # flows[f]
         PROVE  /\ f = c.f /\ c.of = inst /\ flows'[f].edited = flows[f].edited
                /\ flows'[f].about = flows[f].about /\ flows'[f].status = "idle"
    BY <1>4, <1>9, <1>10
  <1> QED
    BY <1>1, <1>5, <1>6, <1>7, <1>8, <1>10, CallGone


\* A form is left, and a fresh one mounted.
LEMMA LeaveKeeps ==
  ASSUME FormsInv, Leave
  PROVE  FormsInv'
  <1>1. /\ inst' = inst + 1 /\ answers' = Fresh /\ flows' = [f \in FlowNames |-> Idle]
        /\ done' = [f \in FlowNames |-> {}] /\ calls' = (IF driver = "stream" THEN {} ELSE calls)
        /\ UNCHANGED <<driver, count, access, tenant, role, desk>>
    BY DEF Leave
  <1>2. Fresh \in FormAnswers /\ Fresh.typed = None
    BY DEF Fresh, FormAnswers
  <1>3. Idle \in FlowRecs /\ Idle.status = "idle" /\ Idle.about = 0
    BY DEF Idle, FlowRecs, Outcomes
  <1>4. \A f \in FlowNames : flows'[f] = Idle /\ done'[f] = {}
    BY <1>1
  <1>5. inst \in Nat \ {0} /\ inst' \in Nat \ {0} /\ count \in Nat /\ calls' \subseteq calls
    BY <1>1 DEF FormsInv, FormBasics
  <1>6. FormBasics'
    <2>1. flows' \in [FlowNames -> FlowRecs] /\ done' \in [FlowNames -> SUBSET Applies]
      BY <1>1, <1>3
    <2> QED
      BY <1>1, <1>2, <1>5, <2>1 DEF FormsInv, FormBasics
  <1>7. Numbered'
    <2>1. \A c \in calls : c.n \in 1 .. count /\ c.of \in 1 .. inst
      BY DEF FormsInv, Numbered
    <2>2. \A c \in calls' : c.n \in 1 .. count /\ c.of \in 1 .. inst'
      BY <1>1, <1>5, <2>1
    <2>3. \A f \in FlowNames : flows'[f].about <= count /\ \A d \in done'[f] : d.n \in 1 .. count
      BY <1>3, <1>4, <1>5
    <2>4. \A c, d \in calls' : c.n = d.n => c = d
      BY <1>5 DEF FormsInv, Numbered
    <2> QED
      BY <1>1, <2>2, <2>3, <2>4 DEF Numbered
  <1>8. RoleFits'
    BY <1>1, RoleIsLeft
  <1>9. ListFits'
    BY <1>1 DEF FormsInv, ListFits
  <1>10. \A f \in FlowNames : CallsHere(f)' = {}
    BY <1>1, <1>5 DEF FormsInv, Numbered, CallsHere
  <1>11. OneCallEach' /\ ServedIsDone' /\ AskedOfAnswers'
    BY <1>1, <1>2, <1>3, <1>4, <1>10 DEF OneCallEach, ServedIsDone, AskedOfAnswers
  <1>12. PreviewIsOfTheAnswers'
    BY <1>3, <1>4, <1>10 DEF PreviewIsOfTheAnswers, ApplyShown
  <1> QED
    BY <1>6, <1>7, <1>8, <1>9, <1>11, <1>12 DEF FormsInv

\* At first a form that asked for nothing is on screen.
LEMMA FormsStart ==
  ASSUME FormsInit
  PROVE  FormsInv
  <1>1. /\ driver \in Drivers /\ inst = 1 /\ answers = Fresh /\ flows = [f \in FlowNames |-> Idle] /\ calls = {}
        /\ count = 0 /\ tenant \in {"open", "readonly"} /\ done = [f \in FlowNames |-> {}]
    BY DEF FormsInit
  <1>2. access \in Accesses
    <2>1. access = [says |-> "unknown", reads |-> IF driver = "stream" THEN {"sent"} ELSE {}]
      BY DEF FormsInit
    <2> QED
      BY <2>1 DEF Accesses
  <1>3. PICK who \in {"viewer", "admin"} :
            role = [shown |-> who, token |-> who, seq |-> 1, timer |-> FALSE,
                    reads |-> IF driver = "role" THEN {[n |-> 1, token |-> who]} ELSE {}]
    BY DEF FormsInit
  <1>4. [n |-> 1, token |-> who] \in TokenReads
    BY DEF TokenReads
  <1>5. role \in Roles
    BY <1>3, <1>4 DEF Roles
  <1>6. RoleFits
    BY <1>3 DEF RoleFits
  <1>7. PICK listed \in {{}, {0}} :
            desk = [ledger |-> listed, lost |-> {}, told |-> listed, reads |-> 0, plan |-> "no"]
    BY DEF FormsInit
  <1>8. desk \in DeskViews
    BY <1>7 DEF DeskViews
  <1>9. ListFits
    BY <1>1, <1>7 DEF ListFits
  <1>10. Fresh \in FormAnswers /\ Fresh.typed = None
    BY DEF Fresh, FormAnswers
  <1>11. Idle \in FlowRecs /\ Idle.status = "idle" /\ Idle.about = 0
    BY DEF Idle, FlowRecs, Outcomes
  <1>12. \A f \in FlowNames : flows[f] = Idle /\ done[f] = {} /\ CallsHere(f) = {}
    BY <1>1 DEF CallsHere
  <1>13. FormBasics
    BY <1>1, <1>2, <1>5, <1>8, <1>10, <1>11 DEF FormBasics
  <1>14. Numbered
    BY <1>1, <1>11, <1>12 DEF Numbered
  <1>15. OneCallEach /\ ServedIsDone /\ AskedOfAnswers
    BY <1>1, <1>10, <1>11, <1>12 DEF OneCallEach, ServedIsDone, AskedOfAnswers
  <1>16. PreviewIsOfTheAnswers
    BY <1>11, <1>12 DEF PreviewIsOfTheAnswers, ApplyShown
  <1> QED
    BY <1>6, <1>9, <1>13, <1>14, <1>15, <1>16 DEF FormsInv

-----------------------------------------------------------------------------
(* The theorems.                                                           *)

LEMMA FormsStep ==
  ASSUME FormsInv, [FormsNext]_formVars
  PROVE  FormsInv'
  <1>1. CASE UNCHANGED formVars
    <2>1. /\ UNCHANGED <<driver, inst, answers, flows, calls, count, access, tenant, role, done, desk>>
          /\ count' \in Nat /\ count <= count' /\ tenant' \in {"open", "readonly"} /\ access' \in Accesses
      BY <1>1 DEF formVars, FormsInv, FormBasics
    <2> QED
      BY <2>1, RoleIsLeft, ListIsLeft, BesideTheForm
  <1>2. CASE FormsNext
    <2>1. CASE \/ \E v \in Typed : Edit(v)
               \/ \E s \in Subnets : PickSubnet(s)
      BY <2>1, EditsKeep
    <2>2. CASE \/ TypeConfirm \/ \E v \in Typed : AutoPick(v)
               \/ \E s \in Subnets : SubnetsArrive(s)
      BY <2>2, FillsKeep
    <2>3. CASE \E f \in FlowNames : Preview(f) \/ Apply(f)
      BY <2>3, PreviewKeeps, ApplyKeeps
    <2>4. CASE \E c \in calls : Serve(c) \/ Land(c) \/ Lost(c)
      BY <2>4, ServeKeeps, LandKeeps, LostKeeps
    <2>5. CASE Leave
      BY <2>5, LeaveKeeps
    <2>6. CASE AccessServed \/ Allow \/ ChangedElsewhere \/ \E says \in {"open", "readonly"} : AccessLands(says)
      BY <2>6, PermissionKeeps
    <2>7. CASE \/ RoleTimer \/ \E token \in {"viewer", "admin"} : TypeToken(token)
               \/ \E r \in role.reads : RoleLands(r) \/ RoleFails(r)
      BY <2>7, RoleKeeps
    <2>8. CASE ListArrives \/ PollList \/ PressRemove \/ PlanLands \/ CancelPlan \/ DeleteThese \/ RemoveLands
      BY <2>8, ListKeeps
    <2> QED
      BY <1>2, <2>1, <2>2, <2>3, <2>4, <2>5, <2>6, <2>7, <2>8 DEF FormsNext
  <1> QED
    BY <1>1, <1>2

\* The inductive invariant of the forms: calls are numbered, a flow but for the
\* desk's waits for one call at a time, an Apply that was served is known as it
\* ended, and a preview that may be applied is of the answers on screen
\* (SelfService.jsx useWriteFlow, Automate.jsx useDeskFlow, Provision.jsx
\* useStreamFlow and useRole).
THEOREM FormsInductive ==
  FormsSpec => []FormsInv
  <1>1. FormsInit => FormsInv
    BY FormsStart
  <1>2. FormsInv /\ [FormsNext]_formVars => FormsInv'
    BY FormsStep
  <1> QED
    BY <1>1, <1>2, PTL DEF FormsSpec

\* Whatever is typed, sent, lost or left, a page says "done" only of a change
\* the server made in full, the last one asked for but for the desk's jobs, and
\* the role on screen is that of the token typed last (Provision.jsx 124-156,
\* 367-384).
THEOREM SaysAlwaysWhatIs ==
  FormsSpec => []SaysWhatIs
  <1>1. FormsInv => SaysWhatIs
    <2> SUFFICES ASSUME FormsInv PROVE SaysWhatIs
      OBVIOUS
    <2>1. DoneMeansDone
      BY DEF FormsInv, ServedIsDone, DoneMeansDone, SaysDone
    <2>2. RoleIsOfTheLastToken
      BY DEF FormsInv, RoleFits, RoleIsOfTheLastToken, RoleFor
    <2>3. /\ driver \in Drivers /\ inst \in Nat \ {0} /\ count \in Nat /\ tenant \in {"open", "readonly"}
          /\ answers \in [typed : Typed \union {None}, pin : Subnets \union {None},
                          roomy : Subnets \union {None}, tried : BOOLEAN, confirmed : BOOLEAN]
      BY DEF FormsInv, FormBasics, FormAnswers
    <2>4. \A f \in FlowNames :
              /\ flows[f].status \in {"idle", "busy", "previewed", "applied"}
              /\ flows[f].stale \in BOOLEAN /\ flows[f].edited \in BOOLEAN
              /\ flows[f].counts \in Outcomes /\ flows[f].about \in 0 .. count
      BY <2>3 DEF FormsInv, FormBasics, FlowRecs, Numbered
    <2>5. /\ \A c \in calls : /\ c.n \in 1 .. count /\ c.of \in 1 .. inst /\ c.f \in FlowNames
                              /\ c.dry \in BOOLEAN /\ c.old \in BOOLEAN /\ c.run \in BOOLEAN
                              /\ c.served \in Outcomes \union {"no"}
          /\ \A c, d \in calls : c.n = d.n => c = d
      BY DEF FormsInv, FormBasics, FormCalls, Numbered
    <2>6. access.says \in {"unknown", "open", "readonly"} /\ access.reads \subseteq {"sent", "open", "readonly"}
      BY DEF FormsInv, FormBasics, Accesses
    <2>7. role \in [shown : {"viewer", "admin"}, token : {"viewer", "admin"}, seq : Nat, timer : BOOLEAN,
                    reads : SUBSET [n : 1 .. role.seq, token : {"viewer", "admin"}]]
      <3>1. role \in Roles /\ \A r \in role.reads : r \in TokenReads /\ r.n \in 1 .. role.seq
        BY DEF FormsInv, FormBasics, RoleFits, Roles
      <3>2. role.reads \in SUBSET [n : 1 .. role.seq, token : {"viewer", "admin"}]
        BY <3>1 DEF TokenReads
      <3> QED
        BY <3>1, <3>2 DEF Roles
    <2>8. done \in [FlowNames -> SUBSET [n : 1 .. count, how : Outcomes]]
      <3>1. done \in [FlowNames -> SUBSET Applies] /\ \A f \in FlowNames : \A d \in done[f] : d.n \in 1 .. count
        BY DEF FormsInv, FormBasics, Numbered
      <3> QED
        BY <3>1 DEF Applies
    <2>9. /\ desk.ledger \subseteq 0 .. count /\ desk.lost \subseteq desk.ledger
          /\ desk.told \subseteq desk.ledger /\ desk.reads \in Nat
          /\ desk.plan \in {"no", "checking", "shown", "removing"}
      BY DEF FormsInv, FormBasics, ListFits, DeskViews
    <2> QED
      BY <2>1, <2>2, <2>3, <2>4, <2>5, <2>6, <2>7, <2>8, <2>9 DEF SaysWhatIs, FormsTypeOK
  <1> QED
    BY <1>1, FormsInductive, PTL

\* A run that was entered in the ledger reaches Your recent changes, though its
\* form was edited or left before the answer came (Automate.jsx 73-108).
THEOREM BuildsAlwaysReachTheList ==
  FormsSpec => []BuildsReachTheList
  <1>1. FormsInv => BuildsReachTheList
    BY DEF FormsInv, FormBasics, DeskViews, ListFits, BuildsReachTheList
  <1> QED
    BY <1>1, FormsInductive, PTL

\* The call that is new is the one that was sent.
LEMMA NewIsSent ==
  ASSUME FormsInv, NEW f \in FlowNames, NEW dry \in BOOLEAN, NEW body \in Bodies, Send(f, dry, body),
         UNCHANGED <<driver, inst, done>>, NEW u \in calls', \A c \in calls : u.n # c.n
  PROVE  u.f = f /\ u.dry = dry /\ u.body = body
  <1>1. \A w \in calls' : CallSent(w, f, dry, body) \/ \E c \in calls : CallBefore(w, c)
    BY SendFits
  <1>2. ASSUME NEW c \in calls PROVE ~CallBefore(u, c)
    BY DEF CallBefore, CallKept
  <1>3. CallSent(u, f, dry, body)
    BY <1>1, <1>2
  <1> QED
    BY <1>3 DEF CallSent

LEMMA ApplyIsSent ==
  ASSUME FormsInv, NEW f \in FlowNames, Apply(f), NEW u \in calls', \A c \in calls : u.n # c.n
  PROVE  u.f = f /\ u.body = Body
  <1>1. \E dry \in BOOLEAN : Send(f, dry, Body)
    BY DEF Apply
  <1>2. PICK dry \in BOOLEAN : Send(f, dry, Body)
    BY <1>1
  <1>3. UNCHANGED <<driver, inst, done>>
    BY DEF Apply
  <1>4. Body \in Bodies
    BY DEF FormsInv, FormBasics, Body, Target, Bodies, FormAnswers
  <1> QED
    BY <1>2, <1>3, <1>4, NewIsSent

\* What an Apply or a Build sends is what the preview on screen checked: an
\* edit, or a list that arrived, while the preview was being made takes its
\* button away (SelfService.jsx 48-62, Automate.jsx 51-53).  Of Provision's
\* streams, where that is false, it says nothing.
THEOREM AppliesAlwaysSeen ==
  FormsSpec => ApplyIsWhatWasPreviewed
  <1>1. FormsInv /\ [FormsNext]_formVars
            => [driver # "stream" => \A c \in Started : c.body = flows[c.f].shown]_formVars
    <2> SUFFICES ASSUME FormsInv, [FormsNext]_formVars, driver # "stream", NEW c \in Started
                 PROVE  c.body = flows[c.f].shown
      OBVIOUS
    <2>1. c \in calls' /\ c.n > count /\ ~c.dry
      BY DEF Started
    <2>2. count \in Nat /\ FormBasics /\ \A b \in calls : b.n \in 1 .. count
      BY DEF FormsInv, FormBasics, Numbered
    <2>3. \A b \in calls : c.n # b.n
      BY <2>1, <2>2
    <2>4. CASE \E f \in FlowNames : Apply(f)
      <3>1. PICK f \in FlowNames : Apply(f)
        BY <2>4
      <3>2. ApplyShown(f)
        BY <3>1 DEF Apply
      <3>3. c.f = f /\ c.body = Body
        BY <2>1, <2>3, <3>1, ApplyIsSent
      <3>4. driver \in {"write", "desk"}
        <4>1. answers.typed # None
          BY <3>2 DEF FormsInv, AskedOfAnswers, ApplyShown
        <4> QED
          BY <4>1 DEF FormsInv, AskedOfAnswers
      <3> QED
        BY <3>2, <3>3, <3>4 DEF FormsInv, PreviewIsOfTheAnswers
    <2>5. CASE \E f \in FlowNames : Preview(f)
      <3>1. PICK f \in FlowNames : Preview(f)
        BY <2>5
      <3>2. Send(f, TRUE, Body) /\ UNCHANGED <<driver, inst, done>>
        BY <3>1 DEF Preview
      <3>3. Body \in Bodies /\ TRUE \in BOOLEAN
        BY <2>2 DEF FormBasics, Body, Target, Bodies, FormAnswers
      <3>4. c.f = f /\ c.dry = TRUE /\ c.body = Body
        BY <2>1, <2>3, <3>2, <3>3, NewIsSent
      <3> QED
        BY <2>1, <3>4
    <2>6. CASE calls' \subseteq calls
      BY <2>1, <2>3, <2>6
    <2>7. CASE calls' = Older
      <3>1. PICK b \in calls : CallKept(c, b)
        BY <2>1, <2>2, <2>7, OlderCalls
      <3> QED
        BY <2>3, <3>1 DEF CallKept
    <2>8. CASE \E b \in calls : Serve(b)
      <3>1. PICK b \in calls : Serve(b)
        BY <2>8
      <3>2. PICK how \in Outcomes, run \in BOOLEAN :
                calls' = (calls \ {b}) \union {[b EXCEPT !.served = how, !.run = run]}
        BY <3>1 DEF Serve, Outcomes
      <3>3. b \in FormCalls
        BY <2>2 DEF FormBasics
      <3>4. [b EXCEPT !.served = how, !.run = run].n = b.n
        BY <3>3 DEF FormCalls
      <3> QED
        BY <2>1, <2>3, <3>2, <3>4
    <2>9. CASE \/ \E v \in Typed : Edit(v) \/ AutoPick(v)
               \/ \E s \in Subnets : PickSubnet(s) \/ SubnetsArrive(s)
               \/ TypeConfirm \/ Leave
               \/ \E b \in calls : Land(b) \/ Lost(b)
      <3>1. calls' \subseteq calls \/ calls' = Older
        BY <2>9 DEF Edit, AutoPick, PickSubnet, SubnetsArrive, TypeConfirm, Leave, Land, Lost
      <3> QED
        BY <2>6, <2>7, <3>1
    <2>10. CASE \/ AccessServed \/ Allow \/ ChangedElsewhere \/ \E says \in {"open", "readonly"} : AccessLands(says)
                \/ RoleTimer \/ \E token \in {"viewer", "admin"} : TypeToken(token)
                \/ \E r \in role.reads : RoleLands(r) \/ RoleFails(r)
                \/ ListArrives \/ PollList \/ PressRemove \/ PlanLands \/ CancelPlan \/ DeleteThese \/ RemoveLands
                \/ UNCHANGED formVars
      <3>1. calls' = calls
        BY <2>10 DEF AccessServed, Allow, ChangedElsewhere, AccessLands, RoleTimer, TypeToken, RoleLands, RoleFails,
           ListArrives, PollList, PressRemove, PlanLands, CancelPlan, DeleteThese, RemoveLands, RowTo, formVars
      <3> QED
        BY <2>6, <3>1
    <2> QED
      BY <2>4, <2>5, <2>8, <2>9, <2>10 DEF FormsNext
  <1> QED
    BY <1>1, FormsInductive, PTL DEF FormsSpec, ApplyIsWhatWasPreviewed

-----------------------------------------------------------------------------
(* The Editor.                                                             *)

ItemRecs == [kind : Kinds, id : MaybeItem, loaded : Values \union {NotHeld}, fields : Values]
Arms == [on : BOOLEAN, kind : Kinds, id : MaybeItem]
Finds == [box : Searches \union {NoSearch}, got : Searches \union {NoSearch}]

\* A flow's status, its marks, and whatever was seen.
ItemFlow(fl) == fl \in [status : {"idle", "busy", "previewed", "applied"}, stale : BOOLEAN,
                        edited : BOOLEAN, seen : {fl.seen}]

\* What everything holds; the form is busy exactly while a request is in the air.
EditorBasics ==
    /\ item \in ItemRecs /\ ItemFlow(flow) /\ armed \in Arms /\ find \in Finds
    /\ IF flow.status = "busy" THEN sent.kind \in {"dry", "apply", "delete"} /\ sent.with \in ItemRecs
                               ELSE sent = NoCall
    /\ sends \in Nat /\ repressed \in BOOLEAN

\* A preview that may be applied, and one on its way back that will be, is of
\* the item on screen.
PreviewIsOfTheItem ==
    ~repressed =>
        /\ flow.status = "previewed" /\ ~flow.stale => flow.seen = Payload
        /\ flow.status = "busy" /\ sent.kind = "dry" /\ ~flow.edited => sent.payload = Payload

\* Delete stays armed for the item on screen, or nothing is there to delete.
ArmedForTheItem == armed.on /\ item.id # NoItem => armed.kind = item.kind /\ armed.id = item.id

EditorInv == EditorBasics /\ PreviewIsOfTheItem /\ ArmedForTheItem

LEMMA NotArmedFits ==
  ASSUME EditorBasics
  PROVE  NotArmed \in Arms /\ ~NotArmed.on
  <1>1. item.kind \in Kinds
    BY DEF EditorBasics, ItemRecs
  <1>2. (CHOOSE t \in Kinds : TRUE) \in Kinds
    BY <1>1
  <1> QED
    BY <1>2 DEF NotArmed, Arms, MaybeItem

\* What a press, and an answer, make of a flow.
LEMMA StatusFits ==
  ASSUME NEW fl, ItemFlow(fl), NEW st \in {"idle", "busy", "previewed", "applied"}
  PROVE  ItemFlow([fl EXCEPT !.status = st]) /\ [fl EXCEPT !.status = st].status = st
  BY DEF ItemFlow

LEMMA FlowMoves ==
  ASSUME NEW fl, ItemFlow(fl)
  PROVE  /\ LET x == [fl EXCEPT !.status = "busy", !.edited = FALSE]
            IN  ItemFlow(x) /\ x.status = "busy"
         /\ LET x == [fl EXCEPT !.status = "applied", !.stale = FALSE]
            IN  ItemFlow(x) /\ x.status = "applied"
         /\ LET x == [FlowIdle EXCEPT !.edited = fl.edited]
            IN  ItemFlow(x) /\ x.status = "idle"
  BY DEF ItemFlow, FlowIdle

LEMMA MarkFits ==
  ASSUME EditorBasics
  PROVE  /\ ItemFlow(MarkEdited) /\ MarkEdited.status = flow.status /\ MarkEdited.seen = flow.seen
         /\ flow.status = "previewed" => MarkEdited.stale
         /\ flow.status = "busy" => MarkEdited.edited
  <1> DEFINE stale == flow.stale \/ flow.status = "previewed"
             edited == flow.edited \/ flow.status = "busy"
  <1>1. MarkEdited = [flow EXCEPT !.stale = stale, !.edited = edited]
    BY DEF MarkEdited
  <1>2. ItemFlow(flow) /\ flow.stale \in BOOLEAN /\ flow.edited \in BOOLEAN
    BY DEF EditorBasics, ItemFlow
  <1>3. stale \in BOOLEAN /\ edited \in BOOLEAN /\ (flow.status = "previewed" => stale) /\ (flow.status = "busy" => edited)
    BY <1>2
  <1> HIDE DEF stale, edited
  <1> QED
    BY <1>1, <1>2, <1>3 DEF ItemFlow

\* Nothing is previewed, and no request is in the air.
LEMMA NothingAsked ==
  ASSUME EditorBasics', ArmedForTheItem', flow'.status \in {"idle", "applied"}
  PROVE  EditorInv'
  BY DEF EditorInv, PreviewIsOfTheItem

\* The item is edited.
LEMMA EditMarks ==
  ASSUME EditorInv, item' \in ItemRecs, armed' \in Arms, ArmedForTheItem', flow' = MarkEdited,
         UNCHANGED <<sent, find, sends, repressed>>
  PROVE  EditorInv'
  <1>1. /\ ItemFlow(flow') /\ flow'.status = flow.status
        /\ flow.status = "previewed" => flow'.stale
        /\ flow.status = "busy" => flow'.edited
    BY MarkFits DEF EditorInv
  <1>2. EditorBasics'
    BY <1>1 DEF EditorInv, EditorBasics
  <1>3. PreviewIsOfTheItem'
    BY <1>1 DEF PreviewIsOfTheItem
  <1> QED
    BY <1>2, <1>3 DEF EditorInv

LEMMA PressKindKeeps ==
  ASSUME EditorInv, NEW t \in Kinds, PressKind(t)
  PROVE  EditorInv'
  <1>1. /\ item \in ItemRecs /\ ItemFlow(flow) /\ flow.status # "busy" /\ UNCHANGED <<armed, sent, sends>>
        /\ find \in Finds /\ EditorBasics /\ sent = NoCall
    BY DEF PressKind, EditorInv, EditorBasics
  <1>2. CASE t # item.kind
    <2>0. PICK link \in Values :
              item' = [kind |-> t, id |-> NoItem, loaded |-> NotHeld, fields |-> link]
      BY <1>2 DEF PressKind
    <2>1. /\ flow' = [FlowIdle EXCEPT !.edited = flow.edited] /\ find' = NoFind /\ repressed' = repressed
      BY <1>2 DEF PressKind
    <2>2. item' \in ItemRecs /\ item'.id = NoItem
      BY <2>0 DEF ItemRecs, MaybeItem
    <2>3. ItemFlow(flow') /\ flow'.status = "idle"
      BY <1>1, <2>1, FlowMoves
    <2>4. find' \in Finds
      BY <2>1 DEF NoFind, Finds
    <2>5. EditorBasics' /\ ArmedForTheItem'
      BY <1>1, <2>1, <2>2, <2>3, <2>4 DEF EditorBasics, ArmedForTheItem
    <2> QED
      BY <2>3, <2>5, NothingAsked
  <1>3. CASE t = item.kind
    <2>1. /\ item' = [item EXCEPT !.id = NoItem, !.loaded = NotHeld] /\ UNCHANGED <<flow, find>>
          /\ repressed' = (repressed \/ flow.status = "previewed")
      BY <1>3 DEF PressKind
    <2>2. item' \in ItemRecs /\ item'.id = NoItem
      BY <1>1, <2>1 DEF ItemRecs, MaybeItem
    <2>3. repressed' \in BOOLEAN /\ (flow.status = "previewed" => repressed')
      BY <1>1, <2>1 DEF EditorBasics
    <2>4. EditorBasics' /\ ArmedForTheItem'
      BY <1>1, <2>1, <2>2, <2>3 DEF EditorBasics, ArmedForTheItem
    <2>5. PreviewIsOfTheItem'
      BY <1>1, <2>1, <2>3 DEF PreviewIsOfTheItem
    <2> QED
      BY <2>4, <2>5 DEF EditorInv
  <1> QED
    BY <1>2, <1>3

LEMMA SearchKeeps ==
  ASSUME EditorInv, SearchAnswers \/ \E q \in Searches \union {NoSearch} : TypeSearch(q)
  PROVE  EditorInv'
  <1>1. UNCHANGED <<item, flow, armed, sent, sends, repressed>>
    BY DEF SearchAnswers, TypeSearch
  <1>2. find \in Finds
    BY DEF EditorInv, EditorBasics
  <1>3. find' \in Finds
    <2>1. CASE SearchAnswers
      BY <1>2, <2>1 DEF SearchAnswers, Finds
    <2>2. CASE \E q \in Searches \union {NoSearch} : TypeSearch(q)
      BY <1>2, <2>2 DEF TypeSearch, Finds
    <2> QED
      BY <2>1, <2>2
  <1>4. Payload' = Payload
    BY <1>1 DEF Payload, IsUpdate, ItemBody
  <1> QED
    BY <1>1, <1>3, <1>4 DEF EditorInv, EditorBasics, PreviewIsOfTheItem, ArmedForTheItem

\* A pick and a clear: another item, disarmed, and what was previewed dropped.
LEMMA PickKeeps ==
  ASSUME EditorInv, \/ MakeNewInstead
                    \/ \E id \in ItemIds : \E held \in [Fields -> Texts] : PickFound(id, held)
  PROVE  EditorInv'
  <1>1. /\ item \in ItemRecs /\ ItemFlow(flow) /\ flow.status # "busy" /\ UNCHANGED <<sent, find, sends, repressed>>
        /\ EditorBasics /\ sent = NoCall
        /\ flow' = [FlowIdle EXCEPT !.edited = flow.edited] /\ armed' = NotArmed
    BY DEF MakeNewInstead, PickFound, Forgetting, EditorInv, EditorBasics
  <1>2. item' \in ItemRecs
    <2>1. CASE MakeNewInstead
      <3>1. Empty \in Values /\ NoItem \in MaybeItem
        BY DEF Empty, Values, MaybeItem
      <3>2. item' = [item EXCEPT !.id = NoItem, !.fields = Empty, !.loaded = NotHeld]
        BY <2>1 DEF MakeNewInstead
      <3> HIDE DEF NotHeld
      <3> QED
        BY <1>1, <3>1, <3>2 DEF ItemRecs
    <2>2. ASSUME NEW id \in ItemIds, NEW held \in [Fields -> Texts], PickFound(id, held)
          PROVE  item' \in ItemRecs
      <3>1. held \in Values /\ id \in MaybeItem
        BY DEF Values, MaybeItem
      <3>2. CASE item' = [item EXCEPT !.id = id, !.fields = held, !.loaded = held]
        BY <1>1, <3>1, <3>2 DEF ItemRecs
      <3>3. CASE item' = [item EXCEPT !.id = id, !.loaded = NotHeld]
        BY <1>1, <3>1, <3>3 DEF ItemRecs
      <3> QED
        BY <2>2, <3>2, <3>3 DEF PickFound
    <2> QED
      BY <2>1, <2>2
  <1>3. ItemFlow(flow') /\ flow'.status = "idle"
    BY <1>1, FlowMoves
  <1>4. EditorBasics' /\ ArmedForTheItem'
    BY <1>1, <1>2, <1>3, NotArmedFits DEF EditorBasics, ArmedForTheItem
  <1> QED
    BY <1>3, <1>4, NothingAsked

LEMMA FieldsKeep ==
  ASSUME EditorInv, \/ \E id \in ItemIds \union {NoItem} : TypeId(id)
                    \/ \E k \in Fields, v \in Texts \union {Blank} : SetField(k, v)
  PROVE  EditorInv'
  <1>1. item \in ItemRecs /\ EditorBasics /\ armed \in Arms
    BY DEF EditorInv, EditorBasics
  <1>2. ASSUME NEW id \in ItemIds \union {NoItem}, TypeId(id) PROVE EditorInv'
    <2>1. /\ item' = [item EXCEPT !.id = id, !.loaded = NotHeld] /\ armed' = NotArmed /\ flow' = MarkEdited
          /\ UNCHANGED <<sent, find, sends, repressed>>
      BY <1>2 DEF TypeId, TypedIdDisarms
    <2>2. item' \in ItemRecs
      BY <1>1, <2>1 DEF ItemRecs, MaybeItem
    <2>3. armed' \in Arms /\ ArmedForTheItem'
      BY <1>1, <2>1, NotArmedFits DEF ArmedForTheItem
    <2> QED
      BY <2>1, <2>2, <2>3, EditMarks
  <1>3. ASSUME NEW k \in Fields, NEW v \in Texts \union {Blank}, SetField(k, v) PROVE EditorInv'
    <2> DEFINE fields == [item.fields EXCEPT ![k] = v]
    <2>1. /\ item' = [item EXCEPT !.fields = fields] /\ armed' = armed /\ flow' = MarkEdited
          /\ UNCHANGED <<sent, find, sends, repressed>>
      BY <1>3 DEF SetField
    <2>2. fields \in Values
      BY <1>1 DEF ItemRecs, Values
    <2> HIDE DEF fields
    <2>3. item' \in ItemRecs /\ item'.id = item.id /\ item'.kind = item.kind
      BY <1>1, <2>1, <2>2 DEF ItemRecs
    <2>4. armed' \in Arms /\ ArmedForTheItem'
      BY <1>1, <2>1, <2>3 DEF EditorInv, ArmedForTheItem
    <2> QED
      BY <2>1, <2>3, <2>4, EditMarks
  <1> QED
    BY <1>2, <1>3

LEMMA PressSendKeeps ==
  ASSUME EditorInv, NEW dry \in BOOLEAN, SendBody(dry)
  PROVE  EditorInv' /\ sent'.payload = Payload /\ sent'.kind = IF dry THEN "dry" ELSE "apply"
  <1> DEFINE kind == IF dry THEN "dry" ELSE "apply"
  <1>1. /\ sent' = [kind |-> kind, payload |-> Payload, with |-> item]
        /\ flow' = [flow EXCEPT !.status = "busy", !.edited = FALSE] /\ sends' = sends + 1
        /\ UNCHANGED <<item, armed, find, repressed>> /\ EditorBasics
    BY DEF SendBody, EditorInv
  <1>2. kind \in {"dry", "apply", "delete"}
    OBVIOUS
  <1> HIDE DEF kind
  <1>3. sent'.kind = kind /\ sent'.payload = Payload /\ sent'.with = item
    BY <1>1
  <1>4. ItemFlow(flow') /\ flow'.status = "busy"
    BY <1>1, FlowMoves DEF EditorBasics
  <1>5. EditorBasics'
    BY <1>1, <1>2, <1>3, <1>4 DEF EditorBasics
  <1>6. Payload' = Payload
    BY <1>1 DEF Payload, IsUpdate, ItemBody
  <1>7. PreviewIsOfTheItem' /\ ArmedForTheItem'
    BY <1>1, <1>3, <1>4, <1>6 DEF EditorInv, PreviewIsOfTheItem, ArmedForTheItem
  <1> QED
    BY <1>3, <1>5, <1>7 DEF EditorInv, kind

LEMMA AnswersKeep ==
  ASSUME EditorInv, DryAnswered \/ ApplyAnswered \/ SendFails \/ DeleteAnswered
  PROVE  EditorInv' /\ sent'.kind = "none"
  <1>1. /\ EditorBasics /\ ItemFlow(flow) /\ item \in ItemRecs /\ armed \in Arms
        /\ sent' = NoCall /\ NoCall.kind = "none"
        /\ UNCHANGED <<armed, find, sends, repressed>>
    BY DEF EditorInv, EditorBasics, DryAnswered, ApplyAnswered, SendFails, DeleteAnswered, Answered, NoCall
  <1>2. flow.status = "busy" /\ sent.with \in ItemRecs
    BY DEF EditorInv, EditorBasics, DryAnswered, ApplyAnswered, SendFails, DeleteAnswered, NoCall
  <1>3. CASE DryAnswered
    <2> DEFINE x == [flow EXCEPT !.status = "previewed", !.stale = flow.edited, !.seen = sent.payload]
    <2>1. item' = item /\ sent.kind = "dry" /\ flow' = x
      BY <1>3 DEF DryAnswered
    <2>2. ItemFlow(x) /\ x.status = "previewed" /\ x.stale = flow.edited /\ x.seen = sent.payload
      BY <1>1 DEF ItemFlow
    <2> HIDE DEF x
    <2>3. Payload' = Payload
      BY <2>1 DEF Payload, IsUpdate, ItemBody
    <2>4. EditorBasics'
      BY <1>1, <2>1, <2>2 DEF EditorBasics
    <2>5. PreviewIsOfTheItem' /\ ArmedForTheItem'
      BY <1>1, <1>2, <2>1, <2>2, <2>3 DEF EditorInv, PreviewIsOfTheItem, ArmedForTheItem
    <2> QED
      BY <1>1, <2>4, <2>5 DEF EditorInv
  <1>4. CASE ApplyAnswered
    <2>1. /\ flow' = [flow EXCEPT !.status = "applied", !.stale = FALSE]
          /\ \/ item' = [item EXCEPT !.fields = Empty] \/ item' = item
             \/ item' = [item EXCEPT !.loaded = sent.with.fields]
      BY <1>4 DEF ApplyAnswered
    <2>2. Empty \in Values /\ sent.with.fields \in Values
      BY <1>2 DEF Empty, Values, ItemRecs
    <2>3. item' \in ItemRecs /\ item'.id = item.id /\ item'.kind = item.kind
      BY <1>1, <2>1, <2>2 DEF ItemRecs
    <2>4. ItemFlow(flow') /\ flow'.status = "applied"
      BY <1>1, <2>1, FlowMoves
    <2>5. EditorBasics' /\ ArmedForTheItem'
      BY <1>1, <2>3, <2>4 DEF EditorInv, EditorBasics, ArmedForTheItem
    <2> QED
      BY <1>1, <2>4, <2>5, NothingAsked
  <1>5. CASE SendFails
    <2>1. flow' = [flow EXCEPT !.status = "idle"] /\ item' = item
      BY <1>5 DEF SendFails
    <2>2. ItemFlow(flow') /\ flow'.status = "idle"
      BY <1>1, <2>1, StatusFits
    <2>3. EditorBasics' /\ ArmedForTheItem'
      BY <1>1, <2>1, <2>2 DEF EditorInv, EditorBasics, ArmedForTheItem
    <2> QED
      BY <1>1, <2>2, <2>3, NothingAsked
  <1>6. CASE DeleteAnswered
    <2>1. CASE /\ flow' = [flow EXCEPT !.status = "applied", !.stale = FALSE]
               /\ item' = [item EXCEPT !.id = NoItem, !.loaded = NotHeld, !.fields = Empty]
      <3>1. Empty \in Values /\ NoItem \in MaybeItem
        BY DEF Empty, Values, MaybeItem
      <3>2. item' \in ItemRecs /\ item'.id = NoItem
        BY <1>1, <2>1, <3>1 DEF ItemRecs
      <3>3. ItemFlow(flow') /\ flow'.status = "applied"
        BY <1>1, <2>1, FlowMoves
      <3>4. EditorBasics' /\ ArmedForTheItem'
        BY <1>1, <3>2, <3>3 DEF EditorBasics, ArmedForTheItem
      <3> QED
        BY <1>1, <3>3, <3>4, NothingAsked
    <2>2. CASE flow' = [flow EXCEPT !.status = "idle"] /\ item' = item
      <3>1. ItemFlow(flow') /\ flow'.status = "idle"
        BY <1>1, <2>2, StatusFits
      <3>2. EditorBasics' /\ ArmedForTheItem'
        BY <1>1, <2>2, <3>1 DEF EditorInv, EditorBasics, ArmedForTheItem
      <3> QED
        BY <1>1, <3>1, <3>2, NothingAsked
    <2> QED
      BY <1>6, <2>1, <2>2 DEF DeleteAnswered
  <1> QED
    BY <1>3, <1>4, <1>5, <1>6

\* Delete's two clicks, and the four seconds between them.
LEMMA DeleteKeeps ==
  ASSUME EditorInv, PressDeleteItem \/ ArmEnds \/ PressDeleteAgain
  PROVE  EditorInv'
  <1>1. /\ EditorBasics /\ ItemFlow(flow) /\ item \in ItemRecs /\ item' = item
        /\ UNCHANGED <<find, repressed>> /\ NotArmed \in Arms /\ ~NotArmed.on
    BY NotArmedFits DEF EditorInv, EditorBasics, PressDeleteItem, ArmEnds, PressDeleteAgain
  <1>2. Payload' = Payload
    BY <1>1 DEF Payload, IsUpdate, ItemBody
  <1>3. CASE PressDeleteItem \/ ArmEnds
    <2>1. UNCHANGED <<item, flow, sent, find, sends, repressed>>
      BY <1>3 DEF PressDeleteItem, ArmEnds
    <2>2. armed' \in Arms /\ ArmedForTheItem'
      <3>1. CASE ArmEnds
        BY <1>1, <3>1 DEF ArmEnds, ArmedForTheItem
      <3>2. CASE PressDeleteItem
        <4>1. armed' = [on |-> TRUE, kind |-> item.kind, id |-> item.id]
          BY <3>2 DEF PressDeleteItem
        <4>2. item.kind \in Kinds /\ item.id \in MaybeItem
          BY <1>1 DEF ItemRecs
        <4> QED
          BY <1>1, <4>1, <4>2 DEF Arms, ArmedForTheItem
      <3> QED
        BY <1>3, <3>1, <3>2
    <2> QED
      BY <1>1, <1>2, <2>1, <2>2 DEF EditorInv, EditorBasics, PreviewIsOfTheItem
  <1>4. CASE PressDeleteAgain
    <2>1. /\ sent' = [kind |-> "delete", payload |-> [Payload EXCEPT !.id = item.id], with |-> item]
          /\ armed' = NotArmed /\ flow' = [flow EXCEPT !.status = "busy"] /\ sends' = sends + 1
      BY <1>4 DEF PressDeleteAgain
    <2>2. sent'.kind = "delete" /\ sent'.with = item
      BY <2>1
    <2>3. ItemFlow(flow') /\ flow'.status = "busy"
      BY <1>1, <2>1, StatusFits
    <2>4. EditorBasics'
      BY <1>1, <2>1, <2>2, <2>3 DEF EditorBasics
    <2>5. PreviewIsOfTheItem' /\ ArmedForTheItem'
      BY <1>1, <2>1, <2>2, <2>3 DEF PreviewIsOfTheItem, ArmedForTheItem
    <2> QED
      BY <2>4, <2>5 DEF EditorInv
  <1> QED
    BY <1>3, <1>4

LEMMA EditorStarts ==
  ASSUME EditorInit
  PROVE  EditorInv
  <1>1. PICK t \in Kinds, id \in MaybeItem, f \in Values :
            item = [kind |-> t, id |-> id, loaded |-> NotHeld, fields |-> f]
    BY DEF EditorInit
  <1>2. item \in ItemRecs
    BY <1>1 DEF ItemRecs
  <1>3. /\ flow = FlowIdle /\ armed = NotArmed /\ sent = NoCall /\ find = NoFind
        /\ sends = 0 /\ repressed = FALSE
    BY DEF EditorInit
  <1>4. ItemFlow(FlowIdle) /\ FlowIdle.status = "idle"
    BY DEF ItemFlow, FlowIdle
  <1>5. NotArmed \in Arms /\ ~NotArmed.on
    <2>1. (CHOOSE x \in Kinds : TRUE) \in Kinds
      OBVIOUS
    <2> QED
      BY <2>1 DEF NotArmed, Arms, MaybeItem
  <1>6. find \in Finds
    BY <1>3 DEF NoFind, Finds
  <1> QED
    BY <1>2, <1>3, <1>4, <1>5, <1>6 DEF EditorInv, EditorBasics, PreviewIsOfTheItem, ArmedForTheItem

LEMMA EditorStep ==
  ASSUME EditorInv, [EditorNext]_editorVars
  PROVE  EditorInv'
  <1>1. CASE UNCHANGED editorVars
    BY <1>1 DEF editorVars, EditorInv, EditorBasics, PreviewIsOfTheItem, ArmedForTheItem, Payload, IsUpdate, ItemBody
  <1>2. CASE EditorNext
    <2>1. CASE \E t \in Kinds : PressKind(t)
      BY <2>1, PressKindKeeps
    <2>2. CASE SearchAnswers \/ \E q \in Searches \union {NoSearch} : TypeSearch(q)
      BY <2>2, SearchKeeps
    <2>3. CASE MakeNewInstead \/ \E id \in ItemIds : \E held \in [Fields -> Texts] : PickFound(id, held)
      BY <2>3, PickKeeps
    <2>4. CASE \/ \E id \in ItemIds \union {NoItem} : TypeId(id)
               \/ \E k \in Fields, v \in Texts \union {Blank} : SetField(k, v)
      BY <2>4, FieldsKeep
    <2>5. CASE PressPreviewItem
      <3>1. \E dry \in BOOLEAN : SendBody(dry)
        BY <2>5 DEF PressPreviewItem
      <3> QED
        BY <3>1, PressSendKeeps
    <2>6. CASE PressApplyItem
      <3>1. \E dry \in BOOLEAN : SendBody(dry)
        BY <2>6 DEF PressApplyItem
      <3> QED
        BY <3>1, PressSendKeeps
    <2>7. CASE DryAnswered \/ ApplyAnswered \/ SendFails \/ DeleteAnswered
      BY <2>7, AnswersKeep
    <2>8. CASE PressDeleteItem \/ ArmEnds \/ PressDeleteAgain
      BY <2>8, DeleteKeeps
    <2> QED
      BY <1>2, <2>1, <2>2, <2>3, <2>4, <2>5, <2>6, <2>7, <2>8 DEF EditorNext
  <1> QED
    BY <1>1, <1>2


\* The inductive invariant of the Editor: busy exactly while a request is in
\* the air, a preview that may be applied is of the item on screen, and so is
\* what Delete is armed for, if there is an item (Editor.jsx 227-330).
THEOREM EditorInductive ==
  EditorSpec => []EditorInv
  <1>1. EditorInit => EditorInv
    BY EditorStarts
  <1>2. EditorInv /\ [EditorNext]_editorVars => EditorInv'
    BY EditorStep
  <1> QED
    BY <1>1, <1>2, PTL DEF EditorSpec

LEMMA EditorTypes == EditorInv => EditorTypeOK
  <1> SUFFICES ASSUME EditorInv PROVE EditorTypeOK
    OBVIOUS
  <1>1. /\ item \in ItemRecs /\ armed \in Arms /\ find \in Finds /\ sends \in Nat /\ repressed \in BOOLEAN
        /\ ItemFlow(flow)
    BY DEF EditorInv, EditorBasics
  <1>2. /\ flow.status \in {"idle", "busy", "previewed", "applied"} /\ flow.stale \in BOOLEAN
        /\ flow.edited \in BOOLEAN
    BY <1>1 DEF ItemFlow
  <1>3. sent.kind \in {"none", "dry", "apply", "delete"}
    BY DEF EditorInv, EditorBasics, NoCall
  <1>4. (flow.status = "busy") = (sent # NoCall)
    BY DEF EditorInv, EditorBasics, NoCall
  <1> QED
    BY <1>1, <1>2, <1>3, <1>4 DEF EditorTypeOK, ItemRecs, Arms, Finds

\* Which step made a request: Apply, or the second click on Delete.
LEMMA WhoFired ==
  ASSUME EditorInv, [EditorNext]_editorVars
  PROVE  /\ Fired = "apply" => PressApplyItem
         /\ Fired = "delete" => PressDeleteAgain
  <1>1. CASE sent' = sent
    BY <1>1 DEF Fired, EditorInv, EditorBasics, NoCall
  <1>2. CASE PressPreviewItem
    <2>1. sent'.kind = "dry"
      BY <1>2 DEF PressPreviewItem, SendBody
    <2> QED
      BY <2>1 DEF Fired
  <1>3. CASE PressApplyItem
    <2>1. sent'.kind = "apply"
      BY <1>3 DEF PressApplyItem, SendBody
    <2> QED
      BY <1>3, <2>1 DEF Fired
  <1>4. CASE PressDeleteAgain
    <2>1. sent'.kind = "delete"
      BY <1>4 DEF PressDeleteAgain
    <2> QED
      BY <1>4, <2>1 DEF Fired
  <1>5. CASE DryAnswered \/ ApplyAnswered \/ SendFails \/ DeleteAnswered
    BY <1>5, AnswersKeep DEF Fired
  <1> QED
    BY <1>1, <1>2, <1>3, <1>4, <1>5 DEF EditorNext, editorVars, PressKind, TypeSearch, SearchAnswers, PickFound,
       MakeNewInstead, TypeId, SetField, PressDeleteItem, ArmEnds

\* Create and Update send what the last Preview sent, unless the chosen type
\* was pressed again under it (Editor.jsx 227-229).
THEOREM ItemAppliesAlwaysSeen ==
  EditorSpec => ItemApplyIsSeenUnlessRepressed
  <1>1. EditorInv /\ [EditorNext]_editorVars
            => [Fired = "apply" /\ ~repressed => sent'.payload = flow.seen]_editorVars
    <2> SUFFICES ASSUME EditorInv, [EditorNext]_editorVars, Fired = "apply", ~repressed
                 PROVE  sent'.payload = flow.seen
      OBVIOUS
    <2>1. PressApplyItem
      BY WhoFired
    <2>2. flow.status = "previewed" /\ ~flow.stale /\ \E dry \in BOOLEAN : SendBody(dry)
      BY <2>1 DEF PressApplyItem
    <2>3. sent'.payload = Payload
      BY <2>2, PressSendKeeps
    <2> QED
      BY <2>2, <2>3 DEF EditorInv, PreviewIsOfTheItem
  <1> QED
    BY <1>1, EditorInductive, PTL DEF EditorSpec, ItemApplyIsSeenUnlessRepressed

\* A Delete armed for one item never fires on another, though the ID may be
\* typed over and the type changed between its two clicks (Editor.jsx 283-330).
THEOREM DeletesAlwaysHitWhatWasArmed ==
  EditorSpec => DeleteHitsWhatWasArmed
  <1>1. EditorInv /\ [EditorNext]_editorVars
            => [Fired = "delete" => <<item.kind, item.id>> = <<armed.kind, armed.id>>]_editorVars
    <2> SUFFICES ASSUME EditorInv, [EditorNext]_editorVars, Fired = "delete"
                 PROVE  <<item.kind, item.id>> = <<armed.kind, armed.id>>
      OBVIOUS
    <2>1. PressDeleteAgain
      BY WhoFired
    <2> QED
      BY <2>1 DEF PressDeleteAgain, CanDelete, EditorInv, ArmedForTheItem
  <1> QED
    BY <1>1, EditorInductive, PTL DEF EditorSpec, DeleteHitsWhatWasArmed

-----------------------------------------------------------------------------
(* Lists.                                                                  *)

\* What holds at zero, and of each next number up to the last, holds of all.
LEMMA UpTo ==
    ASSUME NEW N \in Nat, NEW G, 0 \in G, \A n \in 0 .. N : n \in G /\ n < N => n + 1 \in G
    PROVE  \A n \in 0 .. N : n \in G
  <1> DEFINE Less == {ss \in Nat \X Nat : ss[1] < ss[2]}
             T == {n \in 0 .. N : n \notin G}
  <1> SUFFICES ASSUME T # {} PROVE FALSE
    OBVIOUS
  <1>1. IsWellFoundedOn(Less, Nat)
    BY NatLessThanWellFounded DEF OpToRel
  <1>2. PICK x \in T : \A y \in T : ~ (<<y, x>> \in Less)
    <2>1. T \subseteq Nat
      OBVIOUS
    <2> HIDE DEF Less, T
    <2> QED
      BY <1>1, <2>1, WFMin
  <1>3. x \in 0 .. N /\ x \notin G /\ x # 0
    OBVIOUS
  <1>4. x - 1 \in 0 .. N /\ x - 1 < N /\ <<x - 1, x>> \in Less /\ (x - 1) + 1 = x
    BY <1>3
  <1>5. x - 1 \in G
    BY <1>2, <1>4
  <1> QED
    BY <1>3, <1>4, <1>5

\* No two places of a list hold the same.
NoTwins(s) == \A i, j \in 1 .. Len(s) : s[i] = s[j] => i = j

LEMMA MembersAre ==
  ASSUME NEW S, NEW s \in Seq(S)
  PROVE  /\ Members(s) = {s[i] : i \in 1 .. Len(s)} /\ Members(s) \subseteq S
         /\ IsFiniteSet(Members(s)) /\ Cardinality(Members(s)) \in Nat
         /\ Cardinality(Members(s)) = Len(s) <=> NoTwins(s)
  <1>1. DOMAIN s = 1 .. Len(s) /\ Len(s) \in Nat
    OBVIOUS
  <1>2. Members(s) = {s[i] : i \in 1 .. Len(s)} /\ Members(s) \subseteq S
    BY <1>1 DEF Members
  <1>3. s \in [1 .. Len(s) -> Members(s)]
    BY <1>1, <1>2
  <1>4. s \in Surjection(1 .. Len(s), Members(s))
    BY <1>2, <1>3 DEF Surjection
  <1>5. IsFiniteSet(1 .. Len(s)) /\ Cardinality(1 .. Len(s)) = Len(s)
    <2>1. 1 \in Int /\ Len(s) \in Int
      BY <1>1
    <2>2. IsFiniteSet(1 .. Len(s))
          /\ Cardinality(1 .. Len(s)) = IF 1 > Len(s) THEN 0 ELSE Len(s) - 1 + 1
      BY <2>1, FS_Interval
    <2> QED
      BY <1>1, <2>2
  <1>6. IsFiniteSet(Members(s)) /\ (Cardinality(Members(s)) = Len(s) <=> s \in Injection(1 .. Len(s), Members(s)))
    BY <1>4, <1>5, FS_Surjection
  <1>7. s \in Injection(1 .. Len(s), Members(s)) <=> NoTwins(s)
    BY <1>3 DEF Injection, IsInjective, NoTwins
  <1>8. Cardinality(Members(s)) \in Nat
    BY <1>6, FS_CardinalityType
  <1> QED
    BY <1>2, <1>6, <1>7, <1>8

\* The table Without is read from: entry n is what remains of the first n.
Kept(k, s, id) ==
    k = [n \in 0 .. Len(s) |->
            IF n = 0 THEN <<>> ELSE IF s[n] = id THEN k[n - 1] ELSE Append(k[n - 1], s[n])]

\* There is such a table, built one entry at a time.
LEMMA KeptExists ==
  ASSUME NEW S, NEW s \in Seq(S), NEW id
  PROVE  \E k : Kept(k, s, id)
  <1> DEFINE Step(k, n) == IF n = 0 THEN <<>> ELSE IF s[n] = id THEN k[n - 1] ELSE Append(k[n - 1], s[n])
             Fine(k, m) == k = [n \in 0 .. m |-> k[n]] /\ \A n \in 0 .. m : k[n] = Step(k, n)
             G == {m \in 0 .. Len(s) : \E k : Fine(k, m)}
  <1>0. Len(s) \in Nat
    OBVIOUS
  <1>1. 0 \in G
    <2> DEFINE k == [n \in 0 .. 0 |-> <<>>]
    <2>1. Fine(k, 0)
      OBVIOUS
    <2> HIDE DEF Fine
    <2> QED
      BY <1>0, <2>1
  <1>2. ASSUME NEW m \in 0 .. Len(s), m \in G, m < Len(s) PROVE m + 1 \in G
    <2>1. PICK k : Fine(k, m)
      BY <1>2
    <2> DEFINE last == Step(k, m + 1)
               l == [n \in 0 .. m + 1 |-> IF n = m + 1 THEN last ELSE k[n]]
    <2>0. m \in Nat /\ m + 1 \in 0 .. Len(s)
      BY <1>0, <1>2
    <2>2. ASSUME NEW n \in 0 .. m + 1 PROVE l[n] = Step(l, n)
      <3>1. CASE n = 0
        BY <2>0, <2>1, <3>1
      <3>2. CASE n = m + 1
        <4>1. n # 0 /\ n - 1 = m /\ n - 1 \in 0 .. m + 1 /\ n - 1 # m + 1
          BY <2>0, <3>2
        <4>2. l[n - 1] = k[n - 1] /\ l[n] = last
          <5> HIDE DEF last
          <5> QED
            BY <3>2, <4>1
        <4> HIDE DEF l
        <4> QED
          BY <3>2, <4>1, <4>2
      <3>3. CASE n # 0 /\ n # m + 1
        <4>1. n \in 0 .. m /\ n - 1 \in 0 .. m + 1 /\ n - 1 # m + 1
          BY <2>0, <3>3
        <4>2. l[n] = k[n] /\ l[n - 1] = k[n - 1]
          <5> HIDE DEF last
          <5> QED
            BY <3>3, <4>1
        <4>3. k[n] = Step(k, n)
          BY <2>1, <4>1
        <4> HIDE DEF l
        <4> QED
          BY <3>3, <4>2, <4>3
      <3> QED
        BY <3>1, <3>2, <3>3
    <2>3. l = [n \in 0 .. m + 1 |-> l[n]]
      <3> HIDE DEF last
      <3> QED
        OBVIOUS
    <2> HIDE DEF l
    <2>4. Fine(l, m + 1)
      BY <2>2, <2>3
    <2> HIDE DEF Fine
    <2> QED
      BY <2>0, <2>4
  <1>3. \A m \in 0 .. Len(s) : m \in G /\ m < Len(s) => m + 1 \in G
    <2> HIDE DEF G
    <2> QED
      BY <1>2
  <1>4. Len(s) \in G
    <2> HIDE DEF G
    <2>1. \A m \in 0 .. Len(s) : m \in G
      BY <1>0, <1>1, <1>3, UpTo
    <2> QED
      BY <1>0, <2>1
  <1>5. PICK k : Fine(k, Len(s))
    BY <1>4
  <1>6. [n \in 0 .. Len(s) |-> k[n]] = [n \in 0 .. Len(s) |-> Step(k, n)]
    BY <1>5
  <1>7. k = [n \in 0 .. Len(s) |-> Step(k, n)]
    BY <1>5, <1>6
  <1> QED
    BY <1>7 DEF Kept

\* What remains are the members but the one, and no twins come about.
LEMMA WithoutIs ==
  ASSUME NEW S, NEW s \in Seq(S), NEW id
  PROVE  /\ Without(s, id) \in Seq(S)
         /\ Members(Without(s, id)) = Members(s) \ {id}
         /\ Len(Without(s, id)) <= Len(s)
         /\ NoTwins(s) => NoTwins(Without(s, id))
  <1> DEFINE K == CHOOSE k : Kept(k, s, id)
             First(n) == {s[i] : i \in 1 .. n}
             G == {n \in 0 .. Len(s) : /\ K[n] \in Seq(S) /\ Len(K[n]) <= n
                                       /\ Members(K[n]) = First(n) \ {id}
                                       /\ NoTwins(s) => NoTwins(K[n])}
  <1>0. Len(s) \in Nat /\ \A i \in 1 .. Len(s) : s[i] \in S
    OBVIOUS
  <1>1. Kept(K, s, id)
    BY KeptExists
  <1>2. Without(s, id) = K[Len(s)]
    BY DEF Without, Kept
  <1> HIDE DEF K
  <1>3. /\ K[0] = <<>>
        /\ \A n \in 0 .. Len(s) : n # 0 => K[n] = IF s[n] = id THEN K[n - 1] ELSE Append(K[n - 1], s[n])
    <2> DEFINE Step(n) == IF n = 0 THEN <<>> ELSE IF s[n] = id THEN K[n - 1] ELSE Append(K[n - 1], s[n])
    <2>1. K = [n \in 0 .. Len(s) |-> Step(n)]
      BY <1>1 DEF Kept
    <2> HIDE DEF Step
    <2>2. \A n \in 0 .. Len(s) : K[n] = Step(n)
      BY <2>1
    <2>3. 0 \in 0 .. Len(s)
      BY <1>0
    <2> QED
      BY <2>2, <2>3 DEF Step
  <1>4. 0 \in G
    <2>1. K[0] \in Seq(S) /\ Len(K[0]) = 0
      BY <1>3
    <2>2. Members(K[0]) = {} /\ NoTwins(K[0])
      BY <2>1, MembersAre DEF NoTwins
    <2>3. First(0) = {}
      OBVIOUS
    <2> QED
      BY <1>0, <2>1, <2>2, <2>3
  <1>5. ASSUME NEW m \in 0 .. Len(s), m \in G, m < Len(s) PROVE m + 1 \in G
    <2>1. /\ K[m] \in Seq(S) /\ Len(K[m]) <= m /\ Members(K[m]) = First(m) \ {id}
          /\ NoTwins(s) => NoTwins(K[m])
      BY <1>5
    <2>2. m + 1 \in 0 .. Len(s) /\ m + 1 # 0 /\ (m + 1) - 1 = m /\ m + 1 \in 1 .. Len(s)
      BY <1>0, <1>5
    <2> DEFINE x == s[m + 1]
    <2>3. K[m + 1] = IF x = id THEN K[m] ELSE Append(K[m], x)
      BY <1>3, <2>2
    <2>4. First(m + 1) = First(m) \union {x}
      <3>1. 1 .. m + 1 = (1 .. m) \union {m + 1}
        BY <2>2
      <3> QED
        BY <3>1
    <2>5. x \in S
      BY <1>0, <2>2
    <2>6. CASE x = id
      <3>1. K[m + 1] = K[m] /\ First(m + 1) \ {id} = First(m) \ {id}
        BY <2>3, <2>4, <2>6
      <3>2. Len(K[m]) <= m + 1
        BY <2>1, <2>2
      <3> HIDE DEF First
      <3> QED
        BY <2>1, <2>2, <3>1, <3>2
    <2>7. CASE x # id
      <3> DEFINE t == Append(K[m], x)
      <3>1. /\ t \in Seq(S) /\ Len(t) = Len(K[m]) + 1 /\ t[Len(K[m]) + 1] = x
            /\ \A i \in 1 .. Len(K[m]) : t[i] = K[m][i]
        BY <2>1, <2>5
      <3>2. K[m + 1] = t
        BY <2>3, <2>7
      <3> HIDE DEF t
      <3>3. Members(K[m]) = {K[m][i] : i \in 1 .. Len(K[m])} /\ Members(t) = {t[i] : i \in 1 .. Len(t)}
        BY <2>1, <3>1, MembersAre
      <3>4. Len(K[m]) \in Nat
        BY <2>1
      <3>5. Members(t) = Members(K[m]) \union {x}
        <4>1. \A i \in 1 .. Len(t) : t[i] = x \/ (i \in 1 .. Len(K[m]) /\ t[i] = K[m][i])
          BY <3>1, <3>4
        <4>2. \A i \in 1 .. Len(K[m]) : i \in 1 .. Len(t) /\ t[i] = K[m][i]
          BY <3>1, <3>4
        <4>3. Len(K[m]) + 1 \in 1 .. Len(t)
          BY <3>1, <3>4
        <4>4. Members(t) \subseteq Members(K[m]) \union {x}
          BY <3>3, <4>1
        <4>5. Members(K[m]) \union {x} \subseteq Members(t)
          BY <3>1, <3>3, <4>2, <4>3
        <4> QED
          BY <4>4, <4>5
      <3>6. Members(t) = First(m + 1) \ {id}
        <4> HIDE DEF First
        <4> QED
          BY <2>1, <2>4, <2>7, <3>5
      <3>7. ASSUME NoTwins(s) PROVE NoTwins(t)
        <4>1. x \notin First(m)
          BY <3>7, <2>2, <1>0 DEF NoTwins
        <4>2. x \notin Members(K[m])
          BY <2>1, <4>1
        <4>3. \A i \in 1 .. Len(K[m]) : t[i] # x
          BY <3>1, <3>3, <4>2
        <4>4. NoTwins(K[m])
          BY <2>1, <3>7
        <4>5. ASSUME NEW i \in 1 .. Len(t), NEW j \in 1 .. Len(t), t[i] = t[j] PROVE i = j
          <5>1. CASE i \in 1 .. Len(K[m]) /\ j \in 1 .. Len(K[m])
            BY <3>1, <4>4, <4>5, <5>1 DEF NoTwins
          <5>2. CASE ~(i \in 1 .. Len(K[m]) /\ j \in 1 .. Len(K[m]))
            <6>1. \A h \in 1 .. Len(t) : h \in 1 .. Len(K[m]) \/ h = Len(K[m]) + 1
              BY <3>1, <3>4
            <6>2. t[Len(K[m]) + 1] = x
              BY <3>1
            <6> QED
              BY <4>3, <4>5, <5>2, <6>1, <6>2
          <5> QED
            BY <5>1, <5>2
        <4> QED
          BY <4>5 DEF NoTwins
      <3>8. Len(t) <= m + 1
        BY <2>1, <3>1, <3>4
      <3> HIDE DEF First
      <3> QED
        BY <2>2, <3>1, <3>2, <3>6, <3>7, <3>8
    <2> QED
      BY <2>6, <2>7
  <1>6. Len(s) \in G
    <2> HIDE DEF G
    <2>1. \A m \in 0 .. Len(s) : m \in G /\ m < Len(s) => m + 1 \in G
      BY <1>5
    <2>2. \A m \in 0 .. Len(s) : m \in G
      BY <1>0, <1>4, <2>1, UpTo
    <2> QED
      BY <1>0, <2>2
  <1>7. First(Len(s)) = Members(s)
    BY MembersAre
  <1>8. /\ K[Len(s)] \in Seq(S) /\ Len(K[Len(s)]) <= Len(s)
        /\ Members(K[Len(s)]) = First(Len(s)) \ {id}
        /\ NoTwins(s) => NoTwins(K[Len(s)])
    <2> HIDE DEF First
    <2> QED
      BY <1>6
  <1> QED
    BY <1>2, <1>7, <1>8

\* What is left of a list when one is taken out.
LEMMA TakenIs ==
  ASSUME NEW S, NEW s \in Seq(S), NEW k \in 1 .. Len(s)
  PROVE  LET t == TakenOut(s, k)
         IN  /\ t \in Seq(S) /\ Len(t) = Len(s) - 1
             /\ \A i \in 1 .. Len(t) : t[i] = IF i < k THEN s[i] ELSE s[i + 1]
             /\ NoTwins(s) => NoTwins(t) /\ Members(t) = Members(s) \ {s[k]}
  <1> DEFINE t == TakenOut(s, k)
  <1>0. Len(s) \in Nat /\ k \in Nat /\ Len(s) - 1 \in Nat /\ \A i \in 1 .. Len(s) : s[i] \in S
    OBVIOUS
  <1>1. t = [i \in 1 .. Len(s) - 1 |-> IF i < k THEN s[i] ELSE s[i + 1]]
    BY DEF TakenOut
  <1> HIDE DEF t
  <1>2. \A i \in 1 .. Len(s) - 1 : i + 1 \in 1 .. Len(s) /\ i \in 1 .. Len(s)
    BY <1>0
  <1>3. \A i \in 1 .. Len(s) - 1 : t[i] = (IF i < k THEN s[i] ELSE s[i + 1]) /\ t[i] \in S
    BY <1>0, <1>1, <1>2
  <1>4. t \in Seq(S) /\ Len(t) = Len(s) - 1
    BY <1>0, <1>1, <1>3
  <1>5. \A i \in 1 .. Len(t) : t[i] = IF i < k THEN s[i] ELSE s[i + 1]
    BY <1>3, <1>4
  <1>6. ASSUME NoTwins(s) PROVE NoTwins(t) /\ Members(t) = Members(s) \ {s[k]}
    <2>1. NoTwins(t)
      <3> SUFFICES ASSUME NEW i \in 1 .. Len(t), NEW j \in 1 .. Len(t), t[i] = t[j] PROVE i = j
        BY DEF NoTwins
      <3> DEFINE a == IF i < k THEN i ELSE i + 1
                 b == IF j < k THEN j ELSE j + 1
      <3>1. a \in 1 .. Len(s) /\ b \in 1 .. Len(s) /\ s[a] = s[b]
        BY <1>0, <1>2, <1>4, <1>5
      <3>2. a = b
        BY <1>6, <3>1 DEF NoTwins
      <3> QED
        BY <1>0, <1>4, <3>2
    <2>2. Members(t) = {t[i] : i \in 1 .. Len(t)} /\ Members(s) = {s[i] : i \in 1 .. Len(s)}
      BY <1>4, MembersAre
    <2>3. Members(t) \subseteq Members(s) \ {s[k]}
      <3> SUFFICES ASSUME NEW i \in 1 .. Len(t) PROVE t[i] \in Members(s) /\ t[i] # s[k]
        BY <2>2
      <3> DEFINE a == IF i < k THEN i ELSE i + 1
      <3>1. a \in 1 .. Len(s) /\ t[i] = s[a] /\ a # k
        BY <1>0, <1>2, <1>4, <1>5
      <3> HIDE DEF a
      <3> QED
        BY <1>6, <2>2, <3>1 DEF NoTwins
    <2>4. Members(s) \ {s[k]} \subseteq Members(t)
      <3> SUFFICES ASSUME NEW a \in 1 .. Len(s), s[a] # s[k] PROVE s[a] \in Members(t)
        BY <2>2
      <3> DEFINE i == IF a < k THEN a ELSE a - 1
      <3>1. a # k
        OBVIOUS
      <3>2. i \in 1 .. Len(t) /\ t[i] = s[a]
        <4>1. CASE a < k
          BY <1>0, <1>4, <1>5, <4>1
        <4>2. CASE ~(a < k)
          <5>1. i = a - 1 /\ i \in 1 .. Len(t) /\ ~(i < k) /\ i + 1 = a
            BY <1>0, <1>4, <3>1, <4>2
          <5> HIDE DEF i
          <5> QED
            BY <1>5, <5>1
        <4> QED
          BY <4>1, <4>2
      <3> HIDE DEF i
      <3> QED
        BY <2>2, <3>2
    <2> QED
      BY <2>1, <2>3, <2>4
  <1> QED
    BY <1>4, <1>5, <1>6 DEF t

\* What a list is when one is put in.
LEMMA PutIs ==
  ASSUME NEW S, NEW s \in Seq(S), NEW k \in 1 .. Len(s) + 1, NEW x \in S
  PROVE  LET t == PutIn(s, k, x)
         IN  /\ t \in Seq(S) /\ Len(t) = Len(s) + 1
             /\ \A i \in 1 .. Len(t) : t[i] = IF i < k THEN s[i] ELSE IF i = k THEN x ELSE s[i - 1]
             /\ NoTwins(s) /\ x \notin Members(s) => NoTwins(t) /\ Members(t) \subseteq Members(s) \union {x}
             /\ Members(s) \subseteq Members(t)
  <1> DEFINE t == PutIn(s, k, x)
  <1>0. Len(s) \in Nat /\ k \in Nat /\ \A i \in 1 .. Len(s) : s[i] \in S
    OBVIOUS
  <1>1. t = [i \in 1 .. Len(s) + 1 |-> IF i < k THEN s[i] ELSE IF i = k THEN x ELSE s[i - 1]]
    BY DEF PutIn
  <1> HIDE DEF t
  <1>2. \A i \in 1 .. Len(s) + 1 : (i < k => i \in 1 .. Len(s)) /\ (i > k => i - 1 \in 1 .. Len(s))
    BY <1>0
  <1>3. \A i \in 1 .. Len(s) + 1 :
           t[i] = (IF i < k THEN s[i] ELSE IF i = k THEN x ELSE s[i - 1]) /\ t[i] \in S
    BY <1>0, <1>1, <1>2
  <1>4. t \in Seq(S) /\ Len(t) = Len(s) + 1
    BY <1>0, <1>1, <1>3
  <1>5. \A i \in 1 .. Len(t) : t[i] = IF i < k THEN s[i] ELSE IF i = k THEN x ELSE s[i - 1]
    BY <1>3, <1>4
  <1>6. Members(t) = {t[i] : i \in 1 .. Len(t)} /\ Members(s) = {s[i] : i \in 1 .. Len(s)}
    BY <1>4, MembersAre
  <1>7. ASSUME NEW i \in 1 .. Len(t) PROVE i = k \/ \E a \in 1 .. Len(s) : t[i] = s[a] /\ i # k
                                                       /\ a = (IF i < k THEN i ELSE i - 1)
    BY <1>0, <1>2, <1>4, <1>5
  <1>8. ASSUME NoTwins(s), x \notin Members(s) PROVE NoTwins(t) /\ Members(t) \subseteq Members(s) \union {x}
    <2>1. k \in 1 .. Len(t) /\ t[k] = x
      BY <1>0, <1>4, <1>5
    <2>2. \A a \in 1 .. Len(s) : s[a] # x
      BY <1>6, <1>8
    <2>3. ASSUME NEW i \in 1 .. Len(t), NEW j \in 1 .. Len(t), t[i] = t[j] PROVE i = j
      <3>1. CASE i = k \/ j = k
        BY <1>7, <2>1, <2>2, <2>3, <3>1
      <3>2. CASE i # k /\ j # k
        <4>1. PICK a \in 1 .. Len(s) : t[i] = s[a] /\ a = (IF i < k THEN i ELSE i - 1)
          BY <1>7, <3>2
        <4>2. PICK b \in 1 .. Len(s) : t[j] = s[b] /\ b = (IF j < k THEN j ELSE j - 1)
          BY <1>7, <3>2
        <4>3. a = b
          BY <1>8, <2>3, <4>1, <4>2 DEF NoTwins
        <4> QED
          BY <1>0, <1>4, <3>2, <4>1, <4>2, <4>3
      <3> QED
        BY <3>1, <3>2
    <2>4. \A i \in 1 .. Len(t) : t[i] \in Members(s) \union {x}
      BY <1>6, <1>7, <2>1
    <2> QED
      BY <1>6, <2>3, <2>4 DEF NoTwins
  <1>9. Members(s) \subseteq Members(t)
    <2> SUFFICES ASSUME NEW a \in 1 .. Len(s) PROVE s[a] \in Members(t)
      BY <1>6
    <2>1. CASE a < k
      <3>1. a \in 1 .. Len(t) /\ t[a] = s[a]
        BY <1>0, <1>4, <1>5, <2>1
      <3> QED
        BY <1>6, <3>1
    <2>2. CASE ~(a < k)
      <3>1. a + 1 \in 1 .. Len(t) /\ ~(a + 1 < k) /\ a + 1 # k /\ (a + 1) - 1 = a
        BY <1>0, <1>4, <2>2
      <3>2. t[a + 1] = s[a]
        BY <1>5, <3>1
      <3> QED
        BY <1>6, <3>1, <3>2
    <2> QED
      BY <2>1, <2>2
  <1> QED
    BY <1>4, <1>5, <1>8, <1>9 DEF t

\* What is put together has the members of both.
LEMMA ConcatMembers ==
  ASSUME NEW S, NEW a \in Seq(S), NEW b \in Seq(S)
  PROVE  a \o b \in Seq(S) /\ Members(a \o b) = Members(a) \union Members(b)
  <1> DEFINE c == a \o b
  <1>1. c \in Seq(S) /\ Len(c) = Len(a) + Len(b) /\ Len(a) \in Nat /\ Len(b) \in Nat
    BY ConcatProperties
  <1>2. \A i \in 1 .. Len(c) : c[i] = IF i <= Len(a) THEN a[i] ELSE b[i - Len(a)]
    BY ConcatProperties
  <1> HIDE DEF c
  <1>3. ASSUME NEW i \in 1 .. Len(c)
        PROVE  c[i] \in Members(a) \union Members(b)
    <2>1. CASE i <= Len(a)
      <3>1. i \in 1 .. Len(a) /\ c[i] = a[i]
        BY <1>1, <1>2, <2>1
      <3> QED
        BY <3>1, MembersAre
    <2>2. CASE ~(i <= Len(a))
      <3>1. i - Len(a) \in 1 .. Len(b) /\ c[i] = b[i - Len(a)]
        BY <1>1, <1>2, <2>2
      <3> QED
        BY <3>1, MembersAre
    <2> QED
      BY <2>1, <2>2
  <1>4. Members(c) = {c[i] : i \in 1 .. Len(c)}
    BY <1>1, MembersAre
  <1>5. ASSUME NEW i \in 1 .. Len(a) PROVE a[i] \in Members(c)
    <2>1. i \in 1 .. Len(c) /\ c[i] = a[i]
      BY <1>1, <1>2
    <2> QED
      BY <1>4, <2>1
  <1>6. ASSUME NEW i \in 1 .. Len(b) PROVE b[i] \in Members(c)
    <2>1. i + Len(a) \in 1 .. Len(c) /\ ~(i + Len(a) <= Len(a)) /\ (i + Len(a)) - Len(a) = i
      BY <1>1
    <2>2. c[i + Len(a)] = b[i]
      BY <1>2, <2>1
    <2> QED
      BY <1>4, <2>1, <2>2
  <1>7. Members(a) = {a[i] : i \in 1 .. Len(a)} /\ Members(b) = {b[i] : i \in 1 .. Len(b)}
    BY MembersAre
  <1>8. Members(c) \subseteq Members(a) \union Members(b)
    BY <1>3, <1>4
  <1>9. Members(a) \subseteq Members(c) /\ Members(b) \subseteq Members(c)
    BY <1>5, <1>6, <1>7
  <1> QED
    BY <1>1, <1>8, <1>9 DEF c

\* Past the first page, the rows of s that are in S have no gap among them.
FollowsIn(s, S) ==
    \A j \in 1 .. Len(s) : s[j] \in S => \A i \in 1 .. j : i <= PageSize \/ s[i] \in S

\* Taking one out of the list leaves no gap.
LEMMA FollowsTaken ==
  ASSUME NEW R, NEW s \in Seq(R), NEW k \in 1 .. Len(s), NEW S, FollowsIn(s, S)
  PROVE  FollowsIn(TakenOut(s, k), S)
  <1> DEFINE t == TakenOut(s, k)
  <1>1. /\ Len(t) = Len(s) - 1 /\ Len(s) \in Nat /\ k \in Nat
        /\ \A i \in 1 .. Len(t) : t[i] = IF i < k THEN s[i] ELSE s[i + 1]
    BY TakenIs
  <1> HIDE DEF t
  <1> SUFFICES ASSUME NEW j \in 1 .. Len(t), t[j] \in S, NEW i \in 1 .. j
               PROVE  i <= PageSize \/ t[i] \in S
    BY DEF FollowsIn, t
  <1> DEFINE a == IF i < k THEN i ELSE i + 1
             b == IF j < k THEN j ELSE j + 1
  <1>2. /\ b \in 1 .. Len(s) /\ a \in 1 .. b /\ i \in 1 .. Len(t) /\ i <= a /\ i \in Nat /\ a \in Nat
        /\ t[i] = s[a] /\ t[j] = s[b]
    BY <1>1
  <1> HIDE DEF a, b
  <1>3. a <= PageSize \/ s[a] \in S
    BY <1>2 DEF FollowsIn
  <1>4. PageSize \in Nat
    BY RecordsAssumption
  <1> QED
    BY <1>2, <1>3, <1>4

\* Nor does putting one in behind them.
LEMMA FollowsPut ==
  ASSUME NEW R, NEW s \in Seq(R), NEW k \in 1 .. Len(s) + 1, NEW x \in R, NEW S, FollowsIn(s, S),
         x \notin S, \A j \in k .. Len(s) : s[j] \notin S
  PROVE  FollowsIn(PutIn(s, k, x), S)
  <1> DEFINE t == PutIn(s, k, x)
  <1>1. /\ Len(t) = Len(s) + 1 /\ Len(s) \in Nat /\ k \in Nat
        /\ \A i \in 1 .. Len(t) : t[i] = IF i < k THEN s[i] ELSE IF i = k THEN x ELSE s[i - 1]
    BY PutIs
  <1> HIDE DEF t
  <1> SUFFICES ASSUME NEW j \in 1 .. Len(t), t[j] \in S, NEW i \in 1 .. j
               PROVE  i <= PageSize \/ t[i] \in S
    BY DEF FollowsIn, t
  <1>2. j < k
    <2> SUFFICES ASSUME ~(j < k) PROVE FALSE
      BY <1>1
    <2>1. CASE j = k
      BY <1>1, <2>1
    <2>2. CASE j # k
      <3>1. j - 1 \in k .. Len(s) /\ t[j] = s[j - 1]
        BY <1>1, <2>2
      <3> QED
        BY <3>1
    <2> QED
      BY <2>1, <2>2
  <1>3. j \in 1 .. Len(s) /\ i \in 1 .. Len(t) /\ i < k /\ t[i] = s[i] /\ t[j] = s[j]
    BY <1>1, <1>2
  <1> QED
    BY <1>3 DEF FollowsIn

\* Nor does forgetting one that is not in the list.
LEMMA FollowsLess ==
  ASSUME NEW R, NEW s \in Seq(R), NEW S, FollowsIn(s, S), NEW id, id \notin Members(s)
  PROVE  FollowsIn(s, S \ {id})
  <1>1. \A i \in 1 .. Len(s) : s[i] # id
    BY MembersAre
  <1>2. \A j \in 1 .. Len(s) : \A i \in 1 .. j : i \in 1 .. Len(s)
    OBVIOUS
  <1> QED
    BY <1>1, <1>2 DEF FollowsIn

-----------------------------------------------------------------------------
(* The list of records.                                                    *)

FirstReads == {<<>>} \union (Seq(Ids) \X Nat \X Nat)
MoreReads == [offset : Nat, state : {"none", "sent", "ok"}, rows : Seq(Ids), total : Nat, knew : Nat]
RowDeletes == [id : Ids, state : {"sent", "ok"}]
RecordPages == [first : Seq(Ids), extra : Seq(Ids), total : Nat, knew : Nat, loaded : BOOLEAN,
                paged : BOOLEAN, armed : Ids \union {0}, deletes : Nat]
RecordNets == [reads : SUBSET FirstReads, more : MoreReads, rereads : SUBSET Ids,
               deletes : SUBSET RowDeletes]

\* What the list view holds.
ListBasics ==
    /\ server \in Seq(Ids) /\ NoTwins(server) /\ added \in Nat /\ astray \in BOOLEAN
    /\ page \in RecordPages /\ net \in RecordNets

\* A total that knew of all that was added counts at least what is left.
Reaches(total, knew) == knew <= added /\ (knew = added => Len(server) <= total)

TotalsReach ==
    /\ page.loaded => Reaches(page.total, page.knew)
    /\ \A r \in net.reads : r # <<>> => Reaches(r[2], r[3])
    /\ net.more.state = "ok" => Reaches(net.more.total, net.more.knew)
    /\ page.paged \/ net.more.state # "none" => page.loaded

\* Deletes made and not yet answered.
Gone == {d.id : d \in {e \in net.deletes : e.state = "ok"}}

\* While nothing led them astray, the rows Show more brought are on the server
\* but for those whose delete is on its way back, and follow the first page
\* with no gap; so do those it is bringing.
Astern ==
    /\ net.more.state # "none" => net.deletes = {}
    /\ Members(page.extra) \subseteq Members(server) \union Gone
    /\ FollowsIn(server, Members(page.extra))
    /\ net.more.state = "sent" =>
           /\ net.more.offset <= Len(server)
           /\ \A i \in 1 .. net.more.offset : i <= PageSize \/ server[i] \in Members(page.extra)
    /\ net.more.state = "ok" =>
           /\ Members(net.more.rows) \subseteq Members(server)
           /\ FollowsIn(server, Members(page.extra) \union Members(net.more.rows))

RowsFollow ==
    /\ Gone \intersect Members(server) = {}
    /\ ~astray => Astern

ListInv == ListBasics /\ TotalsReach /\ RowsFollow

LEMMA IdsAre == Listed \in Nat /\ MaxWrites \in Nat /\ IsFiniteSet(Ids) /\ Ids \subseteq Nat \ {0}
  <1>1. Listed + MaxWrites \in Nat /\ Listed \in Nat /\ MaxWrites \in Nat
    BY RecordsAssumption
  <1>2. IsFiniteSet(1 .. Listed + MaxWrites)
    BY <1>1, FS_Interval
  <1> QED
    BY <1>1, <1>2 DEF Ids

\* What From takes: the places after n, as far as a page and the list go.
LEMMA FromIs ==
  ASSUME server \in Seq(Ids), NEW n \in Nat
  PROVE  /\ From(n) \in Seq(Ids) /\ Members(From(n)) \subseteq Members(server)
         /\ \A i \in 1 .. Len(server) : n < i /\ i <= n + PageSize => server[i] \in Members(From(n))
         /\ \A x \in Members(From(n)) :
               \E i \in 1 .. Len(server) : n < i /\ i <= n + PageSize /\ x = server[i]
  <1> DEFINE hi == IF n + PageSize < Len(server) THEN n + PageSize ELSE Len(server)
             t == SubSeq(server, n + 1, hi)
  <1>0. PageSize \in Nat
    BY RecordsAssumption
  <1>1. /\ n + 1 \in Int /\ hi \in Int /\ Len(server) \in Nat /\ hi <= Len(server) /\ n + 1 >= 1
        /\ hi <= n + PageSize
        /\ \A i \in 1 .. Len(server) : i <= n + PageSize => i <= hi
    BY <1>0
  <1>2. \A i \in n + 1 .. hi : i \in 1 .. Len(server) /\ server[i] \in Ids
    BY <1>1
  <1>3. From(n) = t
    BY DEF From
  <1> HIDE DEF hi
  <1>4. t \in Seq(Ids) /\ Len(t) = (IF n + 1 <= hi THEN hi - (n + 1) + 1 ELSE 0)
    BY <1>1, <1>2, SubSeqProperties
  <1>4a. \A i \in 1 .. hi - (n + 1) + 1 : t[i] = server[n + 1 + i - 1]
    BY <1>1, <1>2, SubSeqProperties
  <1> HIDE DEF t
  <1>5. \A i \in 1 .. Len(t) : n + i \in n + 1 .. hi /\ t[i] = server[n + i]
    BY <1>1, <1>4, <1>4a
  <1>6. Members(t) = {t[i] : i \in 1 .. Len(t)} /\ Members(server) = {server[i] : i \in 1 .. Len(server)}
    BY <1>4, MembersAre
  <1>7. \A i \in n + 1 .. hi : i - n \in 1 .. Len(t) /\ t[i - n] = server[i]
    BY <1>1, <1>4, <1>4a
  <1>8. \A x \in Members(t) :
            \E i \in 1 .. Len(server) : n < i /\ i <= n + PageSize /\ x = server[i]
    <2> SUFFICES ASSUME NEW i \in 1 .. Len(t)
                 PROVE  \E a \in 1 .. Len(server) : n < a /\ a <= n + PageSize /\ t[i] = server[a]
      BY <1>6
    <2>1. n + i \in n + 1 .. hi /\ t[i] = server[n + i]
      BY <1>5
    <2>2. n + i \in 1 .. Len(server) /\ n < n + i /\ n + i <= n + PageSize
      BY <1>0, <1>1, <1>2, <2>1
    <2> QED
      BY <2>1, <2>2
  <1>9. \A i \in 1 .. Len(server) : n < i /\ i <= n + PageSize => server[i] \in Members(t)
    <2> SUFFICES ASSUME NEW i \in 1 .. Len(server), n < i, i <= n + PageSize
                 PROVE  server[i] \in Members(t)
      OBVIOUS
    <2>1. i \in n + 1 .. hi
      BY <1>1
    <2>2. i - n \in 1 .. Len(t) /\ t[i - n] = server[i]
      BY <1>7, <2>1
    <2> QED
      BY <1>6, <2>2
  <1>10. Members(t) \subseteq Members(server)
    BY <1>6, <1>8
  <1> QED
    BY <1>3, <1>4, <1>8, <1>9, <1>10

LEMMA CountIs ==
  ASSUME ListBasics
  PROVE  OnScreen \subseteq Ids /\ IsFiniteSet(OnScreen) /\ Count \in Nat /\ Count = Cardinality(OnScreen)
  <1>1. page.first \in Seq(Ids) /\ page.extra \in Seq(Ids)
    BY DEF ListBasics, RecordPages
  <1>2. OnScreen \subseteq Ids
    BY <1>1, MembersAre DEF OnScreen
  <1>3. IsFiniteSet(OnScreen) /\ Cardinality(OnScreen) \in Nat
    BY <1>2, IdsAre, FS_Subset, FS_CardinalityType
  <1> QED
    BY <1>2, <1>3 DEF OnScreen, Count

LEMMA ListStarts == RecordsInit => ListInv
  <1> SUFFICES ASSUME RecordsInit PROVE ListInv
    OBVIOUS
  <1>1. server \in Seq(Ids) /\ NoTwins(server)
    <2>1. Listed \in Nat /\ MaxWrites \in Nat
      BY RecordsAssumption
    <2>2. server = [i \in 1 .. Listed |-> i]
      BY DEF RecordsInit
    <2> QED
      BY <2>1, <2>2 DEF Ids, NoTwins
  <1>2. page \in RecordPages /\ page.extra = <<>> /\ ~page.loaded /\ ~page.paged
    BY DEF RecordsInit, RecordPages
  <1>3. /\ net \in RecordNets /\ net.reads \subseteq {<<>>} /\ net.more.state = "none"
        /\ net.deletes = {}
    <2>1. NoMore \in MoreReads /\ NoMore.state = "none"
      BY DEF NoMore, MoreReads
    <2> DEFINE R == IF view = "list" THEN {<<>>} ELSE {}
    <2>2. net = [reads |-> R, more |-> NoMore, rereads |-> {}, deletes |-> {}]
      BY DEF RecordsInit
    <2>3. R \subseteq {<<>>} /\ R \in SUBSET FirstReads
      BY DEF FirstReads
    <2> HIDE DEF R
    <2> QED
      BY <2>1, <2>2, <2>3 DEF RecordNets
  <1>4. Members(page.extra) = {}
    BY <1>2 DEF Members
  <1>5. added = 0 /\ astray = FALSE
    BY DEF RecordsInit
  <1>6. ListBasics
    BY <1>1, <1>2, <1>3, <1>5 DEF ListBasics
  <1>7. TotalsReach
    BY <1>2, <1>3 DEF TotalsReach
  <1>8. Gone = {} /\ FollowsIn(server, {})
    BY <1>3 DEF Gone, FollowsIn
  <1>9. RowsFollow
    BY <1>3, <1>4, <1>8 DEF RowsFollow, Astern
  <1> QED
    BY <1>6, <1>7, <1>9 DEF ListInv

\* A step that moves no rows keeps all that is said of them.
LEMMA RowsStay ==
  ASSUME ListInv, ListBasics', server' = server, added' = added, astray' = astray,
         page'.extra = page.extra, page'.total = page.total, page'.knew = page.knew,
         page'.loaded = page.loaded, page'.paged = page.paged,
         net'.more = net.more \/ net'.more = NoMore, net'.deletes = net.deletes,
         \A r \in net'.reads : r # <<>> => r \in net.reads
  PROVE  ListInv'
  <1>1. NoMore.state = "none"
    BY DEF NoMore
  <1>2. Gone' = Gone
    BY DEF Gone
  <1>3. \A t, k : Reaches(t, k)' <=> Reaches(t, k)
    BY DEF Reaches
  <1>4. TotalsReach'
    BY <1>1 DEF ListInv, TotalsReach, Reaches
  <1>5. Astern => Astern'
    BY <1>1, <1>2 DEF Astern
  <1>6. RowsFollow'
    BY <1>2, <1>5 DEF ListInv, RowsFollow
  <1> QED
    BY <1>4, <1>6 DEF ListInv

LEMMA ReadFirstKeeps == ListInv /\ ReadFirst => ListInv'
  <1> SUFFICES ASSUME ListInv, ReadFirst PROVE ListInv'
    OBVIOUS
  <1> DEFINE read == <<From(0), Len(server), added>>
             reads == (net.reads \ {<<>>}) \union {read}
  <1>0. /\ net \in RecordNets /\ page \in RecordPages /\ server \in Seq(Ids) /\ NoTwins(server)
        /\ added \in Nat /\ Len(server) \in Nat
    BY DEF ListInv, ListBasics
  <1>1. read \in FirstReads /\ read[2] = Len(server) /\ read[3] = added
    BY <1>0, FromIs DEF FirstReads
  <1> HIDE DEF read
  <1>2. reads \in SUBSET FirstReads
    BY <1>0, <1>1 DEF RecordNets
  <1>3. net' = [net EXCEPT !.reads = reads]
    BY DEF ReadFirst, read
  <1>4. \A r \in reads : r \in net.reads \/ r = read
    OBVIOUS
  <1> HIDE DEF reads
  <1>5. net' \in RecordNets
    BY <1>0, <1>2, <1>3 DEF RecordNets
  <1>6. net'.reads = reads /\ net'.more = net.more /\ net'.deletes = net.deletes
    BY <1>0, <1>3 DEF RecordNets
  <1>7. server' = server /\ page' = page /\ added' = added /\ astray' = astray
    BY DEF ReadFirst
  <1>8. ListBasics' /\ Gone' = Gone
    BY <1>5, <1>6, <1>7 DEF ListInv, ListBasics, Gone
  <1>9. Reaches(read[2], read[3])
    BY <1>0, <1>1 DEF Reaches
  <1>10. \A r \in net'.reads : r # <<>> => Reaches(r[2], r[3])
    BY <1>4, <1>6, <1>9 DEF ListInv, TotalsReach
  <1>11. TotalsReach'
    BY <1>6, <1>7, <1>10 DEF ListInv, TotalsReach, Reaches
  <1>12. RowsFollow'
    BY <1>6, <1>7, <1>8 DEF ListInv, RowsFollow, Astern
  <1> QED
    BY <1>8, <1>11, <1>12 DEF ListInv

\* The first page as it is when a read of it has landed.
LEMMA FirstLanded ==
  ASSUME page \in RecordPages, NEW rows \in Seq(Ids), NEW t \in Nat, NEW k \in Nat,
         page' = [page EXCEPT !.first = rows, !.loaded = TRUE, !.total = t, !.knew = k]
  PROVE  /\ page' \in RecordPages /\ page'.first = rows /\ page'.loaded = TRUE /\ page'.total = t
         /\ page'.knew = k /\ page'.extra = page.extra /\ page'.paged = page.paged
  BY DEF RecordPages

LEMMA FirstLandsKeeps ==
  ASSUME ListInv, NEW r \in net.reads, FirstLands(r)
  PROVE  ListInv'
  <1> DEFINE total == IF page.paged THEN page.total ELSE r[2]
             knew == IF page.paged THEN page.knew ELSE r[3]
  <1>0. net \in RecordNets /\ page \in RecordPages /\ r # <<>>
    BY DEF ListInv, ListBasics, FirstLands
  <1>1. r \in Seq(Ids) \X Nat \X Nat
    BY <1>0 DEF RecordNets, FirstReads
  <1>2. r[1] \in Seq(Ids) /\ r[2] \in Nat /\ r[3] \in Nat /\ Reaches(r[2], r[3])
    BY <1>0, <1>1 DEF ListInv, TotalsReach
  <1>3. total \in Nat /\ knew \in Nat /\ Reaches(total, knew)
    BY <1>0, <1>2 DEF ListInv, TotalsReach, RecordPages
  <1>4. page' = [page EXCEPT !.first = r[1], !.loaded = TRUE, !.total = total, !.knew = knew]
    BY DEF FirstLands
  <1> HIDE DEF total, knew
  <1>5. /\ page' \in RecordPages /\ page'.loaded /\ page'.total = total
        /\ page'.knew = knew /\ page'.extra = page.extra /\ page'.paged = page.paged
    BY <1>0, <1>2, <1>3, <1>4, FirstLanded
  <1>7. net' = [net EXCEPT !.reads = net.reads \ {r}]
    BY <1>0 DEF FirstLands, RecordNets
  <1>8. net' \in RecordNets
    BY <1>0, <1>7 DEF RecordNets
  <1>9. net'.reads = net.reads \ {r} /\ net'.more = net.more /\ net'.deletes = net.deletes
    BY <1>0, <1>7 DEF RecordNets
  <1>10. server' = server /\ added' = added /\ astray' = astray
    BY DEF FirstLands
  <1>11. ListBasics' /\ Gone' = Gone
    BY <1>5, <1>8, <1>9, <1>10 DEF ListInv, ListBasics, Gone
  <1>12. TotalsReach'
    BY <1>3, <1>5, <1>9, <1>10 DEF ListInv, TotalsReach, Reaches
  <1>13. RowsFollow'
    BY <1>5, <1>9, <1>10, <1>11 DEF ListInv, RowsFollow, Astern
  <1> QED
    BY <1>11, <1>12, <1>13 DEF ListInv

LEMMA FirstFailsKeeps ==
  ASSUME ListInv, NEW r \in net.reads, FirstFails(r)
  PROVE  ListInv'
  <1>0. net \in RecordNets
    BY DEF ListInv, ListBasics
  <1>1. /\ net' = [net EXCEPT !.reads = net.reads \ {r}]
        /\ server' = server /\ page' = page /\ added' = added /\ astray' = astray
    BY <1>0 DEF FirstFails, RecordNets
  <1>2. net' \in RecordNets
    BY <1>0, <1>1 DEF RecordNets
  <1>3. net'.reads = net.reads \ {r} /\ net'.more = net.more /\ net'.deletes = net.deletes
    BY <1>0, <1>1 DEF RecordNets
  <1>4. ListBasics'
    BY <1>1, <1>2 DEF ListInv, ListBasics
  <1> QED
    BY <1>1, <1>3, <1>4, RowsStay

LEMMA MoreAsked ==
  ASSUME NEW n \in Nat
  PROVE  LET m == [NoMore EXCEPT !.offset = n, !.state = "sent"]
         IN  m \in MoreReads /\ m.state = "sent" /\ m.offset = n
  <1>1. NoMore \in MoreReads
    BY DEF NoMore, MoreReads
  <1> QED
    BY <1>1 DEF MoreReads

\* With no delete unfinished and the first page the server's, the rows on
\* screen are the server's first ones.
LEMMA ScreenIsFirst ==
  ASSUME ListInv, ~astray, net.deletes = {}, page.first = From(0)
  PROVE  /\ OnScreen \subseteq Members(server) /\ Count <= Len(server)
         /\ \A j \in 1 .. Len(server) : server[j] \in OnScreen => \A i \in 1 .. j : server[i] \in OnScreen
         /\ \A i \in 1 .. Count : i <= PageSize \/ server[i] \in Members(page.extra)
  <1>0. /\ server \in Seq(Ids) /\ NoTwins(server) /\ page \in RecordPages /\ Len(server) \in Nat
        /\ PageSize \in Nat
    BY RecordsAssumption DEF ListInv, ListBasics
  <1>1. /\ Members(server) = {server[i] : i \in 1 .. Len(server)} /\ IsFiniteSet(Members(server))
        /\ Cardinality(Members(server)) = Len(server)
    BY <1>0, MembersAre
  <1>2. Gone = {}
    BY DEF Gone
  <1>3. /\ Members(page.extra) \subseteq Members(server) /\ FollowsIn(server, Members(page.extra))
    BY <1>2 DEF ListInv, RowsFollow, Astern
  <1>4. /\ Members(page.first) \subseteq Members(server)
        /\ \A i \in 1 .. Len(server) : i <= PageSize => server[i] \in Members(page.first)
        /\ \A x \in Members(page.first) : \E i \in 1 .. Len(server) : i <= PageSize /\ x = server[i]
    <2>1. 0 \in Nat /\ 0 + PageSize = PageSize
      BY <1>0
    <2>2. /\ Members(From(0)) \subseteq Members(server)
          /\ \A i \in 1 .. Len(server) : 0 < i /\ i <= PageSize => server[i] \in Members(From(0))
          /\ \A x \in Members(From(0)) :
                \E i \in 1 .. Len(server) : 0 < i /\ i <= PageSize /\ x = server[i]
      BY <1>0, <2>1, FromIs
    <2>3. \A i \in 1 .. Len(server) : 0 < i
      OBVIOUS
    <2> QED
      BY <2>2, <2>3
  <1>5. OnScreen \subseteq Members(server)
    BY <1>3, <1>4 DEF OnScreen
  <1>6. Count \in Nat /\ Count = Cardinality(OnScreen)
    BY CountIs DEF ListInv
  <1>7. Count <= Len(server)
    <2>1. Cardinality(OnScreen) <= Cardinality(Members(server))
      BY <1>1, <1>5, FS_Subset
    <2> QED
      BY <1>1, <1>6, <2>1
  <1>8. ASSUME NEW j \in 1 .. Len(server), server[j] \in OnScreen, NEW i \in 1 .. j
        PROVE  server[i] \in OnScreen
    <2>1. i \in 1 .. Len(server) /\ i <= j
      OBVIOUS
    <2>2. CASE server[j] \in Members(page.extra)
      <3>1. i <= PageSize \/ server[i] \in Members(page.extra)
        BY <1>3, <2>2 DEF FollowsIn
      <3> QED
        BY <1>4, <2>1, <3>1 DEF OnScreen
    <2>3. CASE server[j] \in Members(page.first)
      <3>1. PICK a \in 1 .. Len(server) : a <= PageSize /\ server[j] = server[a]
        BY <1>4, <2>3
      <3>2. j = a
        BY <1>0, <3>1 DEF NoTwins
      <3>3. i <= PageSize
        BY <1>0, <2>1, <3>1, <3>2
      <3> QED
        BY <1>4, <2>1, <3>3 DEF OnScreen
    <2> QED
      BY <1>8, <2>2, <2>3 DEF OnScreen
  <1>9. ASSUME NEW i \in 1 .. Count, ~(i <= PageSize), server[i] \notin Members(page.extra)
        PROVE  FALSE
    <2>1. i \in 1 .. Len(server) /\ i \in Nat /\ i - 1 \in Nat
      BY <1>6, <1>7
    <2>2. server[i] \notin OnScreen
      <3> SUFFICES ASSUME server[i] \in Members(page.first) PROVE FALSE
        BY <1>9 DEF OnScreen
      <3>1. PICK a \in 1 .. Len(server) : a <= PageSize /\ server[i] = server[a]
        BY <1>4
      <3> QED
        BY <1>0, <1>9, <2>1, <3>1 DEF NoTwins
    <2> DEFINE head == [a \in 1 .. i - 1 |-> server[a]]
    <2>3. head \in Seq(Ids) /\ Len(head) = i - 1 /\ NoTwins(head)
      <3>1. \A a \in 1 .. i - 1 : a \in 1 .. Len(server) /\ server[a] \in Ids /\ head[a] = server[a]
        BY <1>0, <2>1
      <3>2. head \in [1 .. i - 1 -> Ids]
        BY <3>1
      <3>3. head \in Seq(Ids) /\ Len(head) = i - 1
        BY <2>1, <3>2
      <3> HIDE DEF head
      <3> QED
        BY <1>0, <3>1, <3>3 DEF NoTwins
    <2>4. \A a \in 1 .. i - 1 : server[a] \in Members(head)
      <3>1. \A a \in 1 .. i - 1 : head[a] = server[a]
        OBVIOUS
      <3> HIDE DEF head
      <3> QED
        BY <2>3, <3>1, MembersAre
    <2> HIDE DEF head
    <2>5. OnScreen \subseteq Members(head)
      <3> SUFFICES ASSUME NEW x \in OnScreen PROVE x \in Members(head)
        OBVIOUS
      <3>1. PICK a \in 1 .. Len(server) : x = server[a]
        BY <1>1, <1>5
      <3>2. ~(i <= a)
        <4> SUFFICES ASSUME i <= a PROVE FALSE
          OBVIOUS
        <4>1. i \in 1 .. a
          BY <2>1
        <4> QED
          BY <1>8, <2>2, <3>1, <4>1
      <3>3. a \in 1 .. i - 1
        BY <2>1, <3>1, <3>2
      <3> QED
        BY <2>4, <3>1, <3>3
    <2>6. IsFiniteSet(Members(head)) /\ Cardinality(Members(head)) = i - 1
      BY <2>3, MembersAre
    <2>7. Cardinality(OnScreen) <= Cardinality(Members(head))
      BY <2>5, <2>6, FS_Subset
    <2> QED
      BY <1>6, <2>1, <2>6, <2>7
  <1> QED
    BY <1>5, <1>7, <1>8, <1>9

LEMMA ShowMoreKeeps == ListInv /\ ShowMore => ListInv'
  <1> SUFFICES ASSUME ListInv, ShowMore PROVE ListInv'
    OBVIOUS
  <1> DEFINE more == [NoMore EXCEPT !.offset = Count, !.state = "sent"]
  <1>0. net \in RecordNets /\ page.loaded /\ server' = server /\ page' = page /\ added' = added
    BY DEF ListInv, ListBasics, ShowMore, CanMore
  <1>1. more \in MoreReads /\ more.state = "sent" /\ more.offset = Count
    BY CountIs, MoreAsked DEF ListInv
  <1>2. net' = [net EXCEPT !.more = more]
    BY DEF ShowMore
  <1> HIDE DEF more
  <1>3. net' \in RecordNets
    BY <1>0, <1>1, <1>2 DEF RecordNets
  <1>4. net'.more = more /\ net'.reads = net.reads /\ net'.deletes = net.deletes
    BY <1>0, <1>2 DEF RecordNets
  <1>5. astray' = (astray \/ net.deletes # {} \/ page.first # From(0))
    BY DEF ShowMore
  <1>6. ListBasics' /\ Gone' = Gone
    BY <1>0, <1>3, <1>4, <1>5 DEF ListInv, ListBasics, Gone
  <1>7. TotalsReach'
    BY <1>0, <1>1, <1>4 DEF ListInv, TotalsReach, Reaches
  <1>8. ASSUME ~astray' PROVE Astern'
    <2>1. ~astray /\ net.deletes = {} /\ page.first = From(0)
      BY <1>5, <1>8
    <2>2. /\ Count <= Len(server)
          /\ \A i \in 1 .. Count : i <= PageSize \/ server[i] \in Members(page.extra)
      BY <2>1, ScreenIsFirst
    <2> QED
      BY <1>0, <1>1, <1>4, <1>6, <2>1, <2>2 DEF ListInv, RowsFollow, Astern
  <1>9. RowsFollow'
    BY <1>0, <1>6, <1>8 DEF ListInv, RowsFollow
  <1> QED
    BY <1>6, <1>7, <1>9 DEF ListInv

\* A Show more that is served takes the rows next to those the page has.
LEMMA NextRowsFollow ==
  ASSUME ListInv, ~astray, net.more.state = "sent", NEW rows, rows = From(net.more.offset)
  PROVE  FollowsIn(server, Members(page.extra) \union Members(rows))
  <1> DEFINE n == net.more.offset
  <1>0. /\ server \in Seq(Ids) /\ NoTwins(server) /\ Len(server) \in Nat /\ PageSize \in Nat /\ n \in Nat
    BY RecordsAssumption DEF ListInv, ListBasics, RecordNets, MoreReads
  <1>1. /\ FollowsIn(server, Members(page.extra))
        /\ \A i \in 1 .. n : i <= PageSize \/ server[i] \in Members(page.extra)
    BY DEF ListInv, RowsFollow, Astern
  <1>2. /\ \A i \in 1 .. Len(server) : n < i /\ i <= n + PageSize => server[i] \in Members(rows)
        /\ \A x \in Members(rows) : \E i \in 1 .. Len(server) : n < i /\ i <= n + PageSize /\ x = server[i]
    BY <1>0, FromIs
  <1> HIDE DEF n
  <1> SUFFICES ASSUME NEW j \in 1 .. Len(server), NEW i \in 1 .. j,
                      server[j] \in Members(page.extra) \union Members(rows)
               PROVE  i <= PageSize \/ server[i] \in Members(page.extra) \union Members(rows)
    BY DEF FollowsIn
  <1>3. CASE server[j] \in Members(page.extra)
    BY <1>1, <1>3 DEF FollowsIn
  <1>4. CASE server[j] \in Members(rows)
    <2>1. PICK a \in 1 .. Len(server) : n < a /\ a <= n + PageSize /\ server[j] = server[a]
      BY <1>2, <1>4
    <2>2. j = a
      BY <1>0, <2>1 DEF NoTwins
    <2>3. CASE i <= n
      <3>1. i \in 1 .. n
        BY <1>0, <2>3
      <3> QED
        BY <1>1, <3>1
    <2>4. CASE ~(i <= n)
      <3>1. i \in 1 .. Len(server) /\ n < i /\ i <= n + PageSize
        BY <1>0, <2>1, <2>2, <2>4
      <3> QED
        BY <1>2, <3>1
    <2> QED
      BY <2>3, <2>4
  <1> QED
    BY <1>3, <1>4

LEMMA ServeMoreKeeps == ListInv /\ ServeMore => ListInv'
  <1> SUFFICES ASSUME ListInv, ServeMore PROVE ListInv'
    OBVIOUS
  <1> DEFINE rows == From(net.more.offset)
             more == [net.more EXCEPT !.state = "ok", !.rows = rows, !.total = Len(server),
                                      !.knew = added]
  <1>0. /\ net \in RecordNets /\ net.more \in MoreReads /\ net.more.state = "sent"
        /\ server \in Seq(Ids) /\ NoTwins(server) /\ added \in Nat /\ Len(server) \in Nat
    BY DEF ListInv, ListBasics, ServeMore, RecordNets
  <1>1. rows \in Seq(Ids) /\ Members(rows) \subseteq Members(server)
    BY <1>0, FromIs DEF MoreReads
  <1>2. net' = [net EXCEPT !.more.state = "ok", !.more.rows = rows, !.more.total = Len(server),
                           !.more.knew = added]
    BY DEF ServeMore
  <1>a. ~astray => FollowsIn(server, Members(page.extra) \union Members(rows))
    BY <1>0, NextRowsFollow
  <1> HIDE DEF rows
  <1>3. net' = [net EXCEPT !.more = more]
    BY <1>0, <1>2 DEF RecordNets
  <1>4. more \in MoreReads
    BY <1>0, <1>1 DEF MoreReads
  <1>5. more.state = "ok" /\ more.rows = rows /\ more.total = Len(server) /\ more.knew = added
    BY <1>0 DEF MoreReads
  <1> HIDE DEF more
  <1>6. net' \in RecordNets
    BY <1>0, <1>3, <1>4 DEF RecordNets
  <1>7. net'.more = more /\ net'.reads = net.reads /\ net'.deletes = net.deletes
    BY <1>0, <1>3 DEF RecordNets
  <1>8. server' = server /\ page' = page /\ added' = added /\ astray' = astray
    BY DEF ServeMore
  <1>9. ListBasics' /\ Gone' = Gone
    BY <1>6, <1>7, <1>8 DEF ListInv, ListBasics, Gone
  <1>10. TotalsReach'
    BY <1>0, <1>5, <1>7, <1>8 DEF ListInv, TotalsReach, Reaches
  <1>11. RowsFollow'
    BY <1>0, <1>1, <1>a, <1>5, <1>7, <1>8, <1>9 DEF ListInv, RowsFollow, Astern
  <1> QED
    BY <1>9, <1>10, <1>11 DEF ListInv

\* The page as it is when more rows have landed.
LEMMA MoreLanded ==
  ASSUME page \in RecordPages, NEW rows \in Seq(Ids), NEW t \in Nat, NEW k \in Nat,
         page' = [page EXCEPT !.extra = rows, !.total = t, !.knew = k, !.paged = TRUE]
  PROVE  /\ page' \in RecordPages /\ page'.extra = rows /\ page'.total = t /\ page'.knew = k
         /\ page'.loaded = page.loaded
  BY DEF RecordPages

LEMMA MoreLandsKeeps == ListInv /\ MoreLands => ListInv'
  <1> SUFFICES ASSUME ListInv, MoreLands PROVE ListInv'
    OBVIOUS
  <1> DEFINE extra == page.extra \o net.more.rows
  <1>0. /\ net \in RecordNets /\ net.more \in MoreReads /\ net.more.state = "ok"
        /\ page \in RecordPages /\ page.loaded
    BY DEF ListInv, ListBasics, TotalsReach, MoreLands, RecordNets
  <1>1. /\ page.extra \in Seq(Ids) /\ net.more.rows \in Seq(Ids) /\ net.more.total \in Nat
        /\ net.more.knew \in Nat
    BY <1>0 DEF MoreReads, RecordPages
  <1>2. extra \in Seq(Ids) /\ Members(extra) = Members(page.extra) \union Members(net.more.rows)
    BY <1>1, ConcatMembers
  <1>4. page' = [page EXCEPT !.extra = extra, !.total = net.more.total, !.knew = net.more.knew,
                             !.paged = TRUE]
    BY DEF MoreLands
  <1> HIDE DEF extra
  <1>5. /\ page' \in RecordPages /\ page'.extra = extra /\ page'.total = net.more.total
        /\ page'.knew = net.more.knew /\ page'.loaded = page.loaded
    BY <1>0, <1>1, <1>2, <1>4, MoreLanded
  <1>7. NoMore \in MoreReads /\ NoMore.state = "none"
    BY DEF NoMore, MoreReads
  <1>8. /\ net' = [net EXCEPT !.more = NoMore]
        /\ server' = server /\ added' = added /\ astray' = astray
    BY DEF MoreLands
  <1>9. net' \in RecordNets
    BY <1>0, <1>7, <1>8 DEF RecordNets
  <1>10. net'.more = NoMore /\ net'.reads = net.reads /\ net'.deletes = net.deletes
    BY <1>0, <1>8 DEF RecordNets
  <1>11. ListBasics' /\ Gone' = Gone
    BY <1>5, <1>8, <1>9, <1>10 DEF ListInv, ListBasics, Gone
  <1>12. TotalsReach'
    BY <1>0, <1>5, <1>7, <1>8, <1>10 DEF ListInv, TotalsReach, Reaches
  <1>13. RowsFollow'
    BY <1>0, <1>2, <1>5, <1>7, <1>8, <1>10, <1>11 DEF ListInv, RowsFollow, Astern
  <1> QED
    BY <1>11, <1>12, <1>13 DEF ListInv

LEMMA MoreFailsKeeps == ListInv /\ MoreFails => ListInv'
  <1> SUFFICES ASSUME ListInv, MoreFails PROVE ListInv'
    OBVIOUS
  <1>0. net \in RecordNets
    BY DEF ListInv, ListBasics
  <1>1. NoMore \in MoreReads
    BY DEF NoMore, MoreReads
  <1>2. /\ net' = [net EXCEPT !.more = NoMore]
        /\ server' = server /\ page' = page /\ added' = added /\ astray' = astray
    BY DEF MoreFails
  <1>3. net' \in RecordNets
    BY <1>0, <1>1, <1>2 DEF RecordNets
  <1>4. net'.more = NoMore /\ net'.reads = net.reads /\ net'.deletes = net.deletes
    BY <1>0, <1>2 DEF RecordNets
  <1>5. ListBasics'
    BY <1>2, <1>3 DEF ListInv, ListBasics
  <1> QED
    BY <1>2, <1>4, <1>5, RowsStay

\* A press of Delete, and one that fails, move only what is being read again.
LEMMA RereadsKeep ==
  ASSUME ListInv, NEW S \in SUBSET Ids, net' = [net EXCEPT !.rereads = S],
         server' = server, page' = page, added' = added, astray' = astray
  PROVE  ListInv'
  <1>0. net \in RecordNets
    BY DEF ListInv, ListBasics
  <1>1. net' \in RecordNets
    BY <1>0 DEF RecordNets
  <1>2. net'.more = net.more /\ net'.reads = net.reads /\ net'.deletes = net.deletes
    BY <1>0 DEF RecordNets
  <1>3. ListBasics'
    BY <1>1 DEF ListInv, ListBasics
  <1> QED
    BY <1>2, <1>3, RowsStay

\* A press, a wait, and a first delete move only what is armed.
LEMMA ArmedKeeps ==
  ASSUME ListInv, NEW a \in Ids \union {0}, NEW n \in Nat,
         page' = [page EXCEPT !.armed = a, !.deletes = n]
  PROVE  /\ page' \in RecordPages /\ page'.extra = page.extra /\ page'.total = page.total
         /\ page'.knew = page.knew /\ page'.loaded = page.loaded /\ page'.paged = page.paged
  BY DEF ListInv, ListBasics, RecordPages

LEMMA DisarmKeeps == ListInv /\ Disarm => ListInv'
  <1> SUFFICES ASSUME ListInv, Disarm PROVE ListInv'
    OBVIOUS
  <1>0. page \in RecordPages /\ 0 \in Ids \union {0}
    BY DEF ListInv, ListBasics
  <1>1. page' = [page EXCEPT !.armed = 0, !.deletes = page.deletes] /\ page.deletes \in Nat
    BY <1>0 DEF Disarm, RecordPages
  <1>2. /\ page' \in RecordPages /\ page'.extra = page.extra /\ page'.total = page.total
        /\ page'.knew = page.knew /\ page'.loaded = page.loaded /\ page'.paged = page.paged
    BY <1>0, <1>1, ArmedKeeps
  <1>3. net' = net /\ server' = server /\ added' = added /\ astray' = astray
    BY DEF Disarm
  <1>4. ListBasics'
    BY <1>2, <1>3 DEF ListInv, ListBasics
  <1> QED
    BY <1>2, <1>3, <1>4, RowsStay

\* patchMore leaves the extra rows but one.
LEMMA PatchIs ==
  ASSUME ListBasics, NEW id
  PROVE  LET p == PatchMore(page, id)
         IN  /\ p \in RecordPages /\ p.total = page.total /\ p.knew = page.knew
             /\ p.loaded = page.loaded /\ p.paged = page.paged
             /\ Members(p.extra) = Members(page.extra) \ {id}
  <1> DEFINE left == Without(page.extra, id)
             p == PatchMore(page, id)
  <1>0. page \in RecordPages /\ page.extra \in Seq(Ids)
    BY DEF ListBasics, RecordPages
  <1>1. left \in Seq(Ids) /\ Members(left) = Members(page.extra) \ {id}
    BY <1>0, WithoutIs
  <1>2. p = [page EXCEPT !.extra = left]
    BY DEF PatchMore
  <1> HIDE DEF left, p
  <1>3. p \in RecordPages
    BY <1>0, <1>1, <1>2 DEF RecordPages
  <1>4. /\ p.extra = left /\ p.total = page.total /\ p.knew = page.knew /\ p.loaded = page.loaded
        /\ p.paged = page.paged
    BY <1>0, <1>2 DEF RecordPages
  <1> QED
    BY <1>1, <1>3, <1>4 DEF p

\* A row that is on the server no more leaves the extra rows: the others stay
\* as they were.
LEMMA PatchedKeeps ==
  ASSUME ListInv, NEW id, id \notin Members(server), ListBasics',
         server' = server, added' = added, astray' = astray,
         page' = PatchMore(page, id), net'.more = net.more,
         \A r \in net'.reads : r # <<>> => r \in net.reads,
         net.deletes = {} => net'.deletes = {},
         Gone' \subseteq Gone, Gone \subseteq Gone' \union {id}
  PROVE  ListInv'
  <1>1. /\ page'.total = page.total /\ page'.knew = page.knew
        /\ page'.loaded = page.loaded /\ page'.paged = page.paged
        /\ Members(page'.extra) = Members(page.extra) \ {id}
    BY PatchIs DEF ListInv
  <1>2. /\ server \in Seq(Ids) /\ Members(server) = {server[i] : i \in 1 .. Len(server)}
        /\ \A i \in 1 .. Len(server) : server[i] # id
    BY MembersAre DEF ListInv, ListBasics
  <1>3. TotalsReach'
    BY <1>1 DEF ListInv, TotalsReach, Reaches
  <1>4. ASSUME ~astray PROVE Astern'
    <2> DEFINE E == Members(page.extra)
               F == E \union Members(net.more.rows)
    <2>0. Astern
      BY <1>4 DEF ListInv, RowsFollow
    <2>1. FollowsIn(server, E \ {id})
      BY <1>2, <2>0, FollowsLess DEF Astern
    <2>2. net.more.state = "sent" =>
             /\ net.more.offset <= Len(server)
             /\ \A i \in 1 .. net.more.offset : i <= PageSize \/ server[i] \in E \ {id}
      <3> SUFFICES ASSUME net.more.state = "sent", NEW i \in 1 .. net.more.offset
                   PROVE  net.more.offset <= Len(server) /\ (i <= PageSize \/ server[i] \in E \ {id})
        BY <2>0 DEF Astern
      <3>1. net.more.offset \in Nat /\ Len(server) \in Nat
        BY DEF ListInv, ListBasics, RecordNets, MoreReads
      <3>2. i \in 1 .. Len(server)
        BY <2>0, <3>1 DEF Astern
      <3> QED
        BY <1>2, <2>0, <3>2 DEF Astern
    <2>3. net.more.state = "ok" => FollowsIn(server, (E \ {id}) \union Members(net.more.rows))
      <3> SUFFICES ASSUME net.more.state = "ok"
                   PROVE  FollowsIn(server, (E \ {id}) \union Members(net.more.rows))
        OBVIOUS
      <3>1. FollowsIn(server, F) /\ id \notin Members(net.more.rows)
        BY <2>0 DEF Astern
      <3>2. (E \ {id}) \union Members(net.more.rows) = F \ {id}
        BY <3>1
      <3>3. FollowsIn(server, F \ {id})
        BY <1>2, <3>1, FollowsLess
      <3> QED
        BY <3>2, <3>3
    <2>4. Members(page'.extra) \subseteq Members(server) \union Gone'
      BY <1>1, <2>0 DEF Astern
    <2> QED
      BY <1>1, <2>0, <2>1, <2>2, <2>3, <2>4 DEF Astern
  <1>5. RowsFollow'
    BY <1>4 DEF ListInv, RowsFollow
  <1> QED
    BY <1>3, <1>5 DEF ListInv

LEMMA ArmLandsKeeps ==
  ASSUME ListInv, NEW id \in net.rereads, ArmLands(id)
  PROVE  ListInv'
  <1>0. /\ net \in RecordNets /\ page \in RecordPages /\ id \in Ids
        /\ ListBasics /\ server' = server /\ added' = added /\ astray' = astray
    BY DEF ListInv, ListBasics, RecordNets, ArmLands
  <1>1. CASE id \in Members(server)
    <2>1. page' = [page EXCEPT !.armed = id, !.deletes = page.deletes] /\ page.deletes \in Nat
      BY <1>0, <1>1 DEF ArmLands, RecordPages
    <2>2. /\ page' \in RecordPages /\ page'.extra = page.extra /\ page'.total = page.total
          /\ page'.knew = page.knew /\ page'.loaded = page.loaded /\ page'.paged = page.paged
      BY <1>0, <2>1, ArmedKeeps
    <2>3. net' = [net EXCEPT !.rereads = @ \ {id}]
      BY <1>1 DEF ArmLands
    <2>4. net' \in RecordNets
      BY <1>0, <2>3 DEF RecordNets
    <2>5. net'.more = net.more /\ net'.reads = net.reads /\ net'.deletes = net.deletes
      BY <1>0, <2>3 DEF RecordNets
    <2>6. ListBasics'
      BY <1>0, <2>2, <2>4 DEF ListBasics
    <2> QED
      BY <1>0, <2>2, <2>5, <2>6, RowsStay
  <1>2. CASE id \notin Members(server)
    <2> DEFINE reads == net.reads \union {<<>>}
               rereads == net.rereads \ {id}
    <2>1. page' = PatchMore(page, id)
      BY <1>2 DEF ArmLands
    <2>2. page' \in RecordPages
      BY <1>0, <2>1, PatchIs
    <2>3. net' = [net EXCEPT !.rereads = rereads, !.reads = reads]
      BY <1>2 DEF ArmLands
    <2>4. reads \in SUBSET FirstReads /\ rereads \in SUBSET Ids
      BY <1>0 DEF RecordNets, FirstReads
    <2>5. \A r \in reads : r # <<>> => r \in net.reads
      OBVIOUS
    <2> HIDE DEF reads, rereads
    <2>6. net' \in RecordNets
      BY <1>0, <2>3, <2>4 DEF RecordNets
    <2>7. net'.more = net.more /\ net'.reads = reads /\ net'.deletes = net.deletes
      BY <1>0, <2>3 DEF RecordNets
    <2>8. ListBasics' /\ Gone' = Gone
      BY <1>0, <2>2, <2>6, <2>7 DEF ListBasics, Gone
    <2> QED
      BY <1>0, <1>2, <2>1, <2>5, <2>7, <2>8, PatchedKeeps
  <1> QED
    BY <1>1, <1>2

LEMMA ConfirmDeleteKeeps == ListInv /\ ConfirmDelete => ListInv'
  <1> SUFFICES ASSUME ListInv, ConfirmDelete PROVE ListInv'
    OBVIOUS
  <1> DEFINE d == [id |-> page.armed, state |-> "sent"]
             deletes == net.deletes \union {d}
  <1>0. /\ net \in RecordNets /\ page \in RecordPages /\ ListBasics /\ 0 \in Ids \union {0}
        /\ server' = server /\ added' = added /\ astray' = (astray \/ net.more.state # "none")
    BY DEF ListInv, ListBasics, ConfirmDelete
  <1>1. page.armed \in Ids
    BY <1>0, CountIs DEF ConfirmDelete
  <1>2. page' = [page EXCEPT !.armed = 0, !.deletes = page.deletes + 1] /\ page.deletes + 1 \in Nat
    BY <1>0 DEF ConfirmDelete, RecordPages
  <1>3. /\ page' \in RecordPages /\ page'.extra = page.extra /\ page'.total = page.total
        /\ page'.knew = page.knew /\ page'.loaded = page.loaded /\ page'.paged = page.paged
    BY <1>0, <1>2, ArmedKeeps
  <1>4. d \in RowDeletes /\ d.state = "sent"
    BY <1>1 DEF RowDeletes
  <1>5. net' = [net EXCEPT !.deletes = deletes]
    BY DEF ConfirmDelete
  <1> HIDE DEF d
  <1>6. deletes \in SUBSET RowDeletes
    BY <1>0, <1>4 DEF RecordNets
  <1>7. {e \in deletes : e.state = "ok"} = {e \in net.deletes : e.state = "ok"}
    BY <1>4
  <1> HIDE DEF deletes
  <1>8. net' \in RecordNets
    BY <1>0, <1>5, <1>6 DEF RecordNets
  <1>9. net'.more = net.more /\ net'.reads = net.reads /\ net'.deletes = deletes
    BY <1>0, <1>5 DEF RecordNets
  <1>10. ListBasics' /\ Gone' = Gone
    BY <1>0, <1>3, <1>7, <1>8, <1>9 DEF ListInv, ListBasics, Gone
  <1>11. TotalsReach'
    BY <1>0, <1>3, <1>9 DEF ListInv, TotalsReach, Reaches
  <1>12. RowsFollow'
    BY <1>0, <1>3, <1>9, <1>10 DEF ListInv, ListBasics, RowsFollow, Astern
  <1> QED
    BY <1>10, <1>11, <1>12 DEF ListInv

\* One row leaves the server: what there is to say of totals and of gaps stays.
LEMMA OneTaken ==
  ASSUME ListInv, NEW k \in 1 .. Len(server), server' = TakenOut(server, k), added' = added
  PROVE  /\ server' \in Seq(Ids) /\ NoTwins(server') /\ Len(server') = Len(server) - 1
         /\ Members(server') = Members(server) \ {server[k]}
         /\ \A i \in 1 .. Len(server') : server'[i] = IF i < k THEN server[i] ELSE server[i + 1]
         /\ \A S : FollowsIn(server, S) => FollowsIn(server', S)
         /\ \A t, n : t \in Nat /\ Reaches(t, n) => n <= added' /\ (n = added' => Len(server') <= t)
  <1>0. server \in Seq(Ids) /\ NoTwins(server) /\ Len(server) \in Nat
    BY DEF ListInv, ListBasics
  <1>1. /\ server' \in Seq(Ids) /\ NoTwins(server') /\ Len(server') = Len(server) - 1
        /\ Members(server') = Members(server) \ {server[k]}
        /\ \A i \in 1 .. Len(server') : server'[i] = IF i < k THEN server[i] ELSE server[i + 1]
    BY <1>0, TakenIs
  <1>2. \A S : FollowsIn(server, S) => FollowsIn(server', S)
    <2> SUFFICES ASSUME NEW S, FollowsIn(server, S) PROVE FollowsIn(server', S)
      OBVIOUS
    <2> QED
      BY <1>0, FollowsTaken
  <1>3. \A t, n : t \in Nat /\ Reaches(t, n) => n <= added' /\ (n = added' => Len(server') <= t)
    BY <1>0, <1>1 DEF Reaches
  <1> QED
    BY <1>1, <1>2, <1>3

\* The totals on the page, and on their way, count what is left when one is taken.
LEMMA TotalsTaken ==
  ASSUME ListInv, NEW k \in 1 .. Len(server), server' = TakenOut(server, k), added' = added,
         page' = page, net'.more = net.more, net'.reads = net.reads
  PROVE  TotalsReach'
  <1>1. \A t, n : t \in Nat /\ Reaches(t, n) => n <= added' /\ (n = added' => Len(server') <= t)
    BY OneTaken
  <1>2. page.total \in Nat /\ net.more.total \in Nat
    BY DEF ListInv, ListBasics, RecordPages, RecordNets, MoreReads
  <1>3. \A r \in net.reads : r # <<>> => r[2] \in Nat
    BY DEF ListInv, ListBasics, RecordNets, FirstReads
  <1> QED
    BY <1>1, <1>2, <1>3 DEF ListInv, TotalsReach, Reaches

LEMMA ServeDeleteKeeps ==
  ASSUME ListInv, NEW d \in net.deletes, ServeDelete(d)
  PROVE  ListInv'
  <1> DEFINE e == [d EXCEPT !.state = "ok"]
             deletes == (net.deletes \ {d}) \union {e}
  <1>0. /\ net \in RecordNets /\ page' = page /\ added' = added /\ astray' = astray /\ ListBasics
        /\ server \in Seq(Ids)
    BY DEF ListInv, ListBasics, ServeDelete
  <1>1. d \in RowDeletes /\ d.state = "sent"
    BY <1>0 DEF RecordNets, ServeDelete
  <1>2. e \in RowDeletes /\ e.state = "ok" /\ e.id = d.id
    BY <1>1 DEF RowDeletes
  <1>3. PICK k \in 1 .. Len(server) : server[k] = d.id /\ server' = TakenOut(server, k)
    BY <1>0 DEF ServeDelete
  <1>4. /\ server' \in Seq(Ids) /\ NoTwins(server')
        /\ Members(server') = Members(server) \ {d.id}
        /\ \A S : FollowsIn(server, S) => FollowsIn(server', S)
    BY <1>0, <1>3, OneTaken
  <1>5. net' = [net EXCEPT !.deletes = deletes]
    BY <1>0 DEF ServeDelete, RecordNets
  <1> HIDE DEF e
  <1>6. deletes \in SUBSET RowDeletes /\ e \in deletes /\ net.deletes # {}
    BY <1>0, <1>2 DEF RecordNets
  <1>7. {x \in deletes : x.state = "ok"} = {x \in net.deletes : x.state = "ok"} \union {e}
    BY <1>1, <1>2
  <1> HIDE DEF deletes
  <1>8. net' \in RecordNets
    BY <1>0, <1>5, <1>6 DEF RecordNets
  <1>9. net'.more = net.more /\ net'.reads = net.reads /\ net'.deletes = deletes
    BY <1>0, <1>5 DEF RecordNets
  <1>10. Gone' = Gone \union {d.id}
    BY <1>2, <1>7, <1>9 DEF Gone
  <1>11. ListBasics'
    BY <1>0, <1>4, <1>8 DEF ListBasics
  <1>12. TotalsReach'
    BY <1>0, <1>3, <1>9, TotalsTaken
  <1>13. net.more.state \in {"none", "sent", "ok"}
    BY <1>0 DEF RecordNets, MoreReads
  <1>14. RowsFollow'
    BY <1>0, <1>4, <1>6, <1>9, <1>10, <1>13 DEF ListInv, RowsFollow, Astern
  <1> QED
    BY <1>11, <1>12, <1>14 DEF ListInv

LEMMA DeleteLandsKeeps ==
  ASSUME ListInv, NEW d \in net.deletes, DeleteLands(d)
  PROVE  ListInv'
  <1> DEFINE deletes == net.deletes \ {d}
             reads == net.reads \union {<<>>}
  <1>0. /\ net \in RecordNets /\ ListBasics /\ server' = server /\ added' = added /\ astray' = astray
        /\ page' = PatchMore(page, d.id) /\ d.state = "ok"
    BY DEF ListInv, ListBasics, DeleteLands
  <1>1. page' \in RecordPages
    BY <1>0, PatchIs
  <1>2. net' = [net EXCEPT !.deletes = deletes, !.reads = reads]
    BY <1>0 DEF DeleteLands, RecordNets
  <1>3. reads \in SUBSET FirstReads /\ deletes \in SUBSET RowDeletes
    BY <1>0 DEF RecordNets, FirstReads
  <1>4. \A r \in reads : r # <<>> => r \in net.reads
    OBVIOUS
  <1>5. deletes \subseteq net.deletes /\ \A x \in net.deletes : x \in deletes \/ x.id = d.id
    OBVIOUS
  <1> HIDE DEF reads, deletes
  <1>7. net' \in RecordNets
    BY <1>0, <1>2, <1>3 DEF RecordNets
  <1>8. net'.more = net.more /\ net'.reads = reads /\ net'.deletes = deletes
    BY <1>0, <1>2 DEF RecordNets
  <1>9. ListBasics'
    BY <1>0, <1>1, <1>7 DEF ListBasics
  <1>10. Gone \subseteq Gone' \union {d.id} /\ Gone' \subseteq Gone
    BY <1>5, <1>8 DEF Gone
  <1>11. d.id \notin Members(server)
    BY <1>0 DEF ListInv, RowsFollow, Gone
  <1>12. net.deletes = {} => net'.deletes = {}
    BY <1>5, <1>8
  <1> QED
    BY <1>0, <1>4, <1>8, <1>9, <1>10, <1>11, <1>12, PatchedKeeps

LEMMA DeleteFailsKeeps ==
  ASSUME ListInv, NEW d \in net.deletes, DeleteFails(d)
  PROVE  ListInv'
  <1> DEFINE deletes == net.deletes \ {d}
  <1>0. /\ net \in RecordNets /\ ListBasics /\ server' = server /\ added' = added /\ page' = page
        /\ astray' = (astray \/ (d.state = "ok" /\ d.id \in Members(page.extra)))
    BY DEF ListInv, ListBasics, DeleteFails
  <1>1. net' = [net EXCEPT !.deletes = deletes]
    BY DEF DeleteFails
  <1>2. deletes \in SUBSET RowDeletes
    BY <1>0 DEF RecordNets
  <1>3. /\ deletes \subseteq net.deletes
        /\ \A x \in net.deletes : x \in deletes \/ x = d
    OBVIOUS
  <1> HIDE DEF deletes
  <1>5. net' \in RecordNets
    BY <1>0, <1>1, <1>2 DEF RecordNets
  <1>6. net'.more = net.more /\ net'.reads = net.reads /\ net'.deletes = deletes
    BY <1>0, <1>1 DEF RecordNets
  <1>7. ListBasics'
    BY <1>0, <1>5 DEF ListBasics
  <1>8. Gone' \subseteq Gone /\ (d.state # "ok" => Gone \subseteq Gone') /\ Gone \subseteq Gone' \union {d.id}
    BY <1>3, <1>6 DEF Gone
  <1>9. TotalsReach'
    BY <1>0, <1>6 DEF ListInv, TotalsReach, Reaches
  <1>10. net.deletes = {} => net'.deletes = {}
    BY <1>3, <1>6
  <1>11. ~astray' => ~astray /\ (d.state # "ok" \/ d.id \notin Members(page.extra))
    BY <1>0
  <1>12. ASSUME ~astray' PROVE Astern'
    <2>1. Astern /\ Members(page.extra) \subseteq Members(server) \union Gone'
      BY <1>8, <1>11, <1>12 DEF ListInv, RowsFollow, Astern
    <2> QED
      BY <1>0, <1>6, <1>10, <2>1 DEF Astern
  <1>13. RowsFollow'
    BY <1>0, <1>8, <1>12 DEF ListInv, RowsFollow
  <1> QED
    BY <1>7, <1>9, <1>13 DEF ListInv

LEMMA OthersAddKeeps ==
  ASSUME ListInv, NEW k \in 1 .. Len(server) + 1, NEW x \in Ids, OthersAdd(k, x)
  PROVE  ListInv'
  <1> DEFINE E == Members(page.extra)
             F == E \union Members(net.more.rows)
  <1>0. /\ server \in Seq(Ids) /\ NoTwins(server) /\ Len(server) \in Nat /\ added \in Nat
        /\ server' = PutIn(server, k, x) /\ added' = added + 1 /\ page' = page /\ net' = net
        /\ astray' = (astray \/ \E j \in k .. Len(server) : server[j] \in Paged)
        /\ PageSize \in Nat
    BY RecordsAssumption DEF ListInv, ListBasics, OthersAdd
  <1>1. x \notin Members(server) /\ x \notin Paged /\ x \notin Gone
    BY DEF OthersAdd, NewIds, Gone
  <1>2. /\ server' \in Seq(Ids) /\ Len(server') = Len(server) + 1 /\ NoTwins(server')
        /\ Members(server) \subseteq Members(server') /\ Members(server') \subseteq Members(server) \union {x}
        /\ \A i \in 1 .. Len(server') : server'[i] = IF i < k THEN server[i]
                                                    ELSE IF i = k THEN x ELSE server[i - 1]
    <2> DEFINE t == PutIn(server, k, x)
    <2>1. /\ t \in Seq(Ids) /\ Len(t) = Len(server) + 1
          /\ \A i \in 1 .. Len(t) : t[i] = IF i < k THEN server[i] ELSE IF i = k THEN x ELSE server[i - 1]
          /\ NoTwins(server) /\ x \notin Members(server)
                 => NoTwins(t) /\ Members(t) \subseteq Members(server) \union {x}
          /\ Members(server) \subseteq Members(t)
      BY <1>0, PutIs
    <2> HIDE DEF t
    <2>2. server' = t
      BY <1>0 DEF t
    <2> QED
      BY <1>0, <1>1, <2>1, <2>2
  <1>3. ListBasics' /\ Gone' = Gone
    BY <1>0, <1>2 DEF ListInv, ListBasics, Gone
  <1>4. TotalsReach'
    <2>1. \A t, n : n \in Nat /\ Reaches(t, n) => n <= added' /\ n # added'
      BY <1>0 DEF Reaches
    <2>2. page.knew \in Nat /\ net.more.knew \in Nat
      BY DEF ListInv, ListBasics, RecordPages, RecordNets, MoreReads
    <2>3. \A r \in net.reads : r # <<>> => r[3] \in Nat
      BY DEF ListInv, ListBasics, RecordNets, FirstReads
    <2> QED
      BY <1>0, <2>1, <2>2, <2>3 DEF ListInv, TotalsReach, Reaches
  <1>5. ASSUME ~astray' PROVE Astern'
    <2>1. Astern /\ \A j \in k .. Len(server) : server[j] \notin Paged
      BY <1>0, <1>5 DEF ListInv, RowsFollow
    <2>2. /\ E \subseteq Paged /\ F \subseteq Paged
      BY DEF Paged
    <2>3. \A S : S \subseteq Paged /\ FollowsIn(server, S) => FollowsIn(server', S)
      <3> SUFFICES ASSUME NEW S, S \subseteq Paged, FollowsIn(server, S) PROVE FollowsIn(server', S)
        OBVIOUS
      <3>1. x \notin S /\ \A j \in k .. Len(server) : server[j] \notin S
        BY <1>1, <2>1
      <3> QED
        BY <1>0, <3>1, FollowsPut
    <2>4. ASSUME net.more.state = "sent"
          PROVE  /\ net.more.offset <= Len(server')
                 /\ \A i \in 1 .. net.more.offset : i <= PageSize \/ server'[i] \in E
      <3> DEFINE n == net.more.offset
      <3>1. n \in Nat /\ n <= Len(server)
        BY <2>1, <2>4 DEF ListInv, ListBasics, RecordNets, MoreReads, Astern
      <3>2. \A i \in 1 .. n : i <= PageSize \/ server[i] \in E
        BY <2>1, <2>4 DEF Astern
      <3> HIDE DEF n, E
      <3>3. \A j \in k .. Len(server) : server[j] \notin E
        BY <2>1, <2>2
      <3>4. ASSUME NEW i \in 1 .. n, ~(i <= PageSize) PROVE server'[i] \in E
        <4>1. i < k
          <5> SUFFICES ASSUME ~(i < k) PROVE FALSE
            OBVIOUS
          <5>1. i \in k .. Len(server)
            BY <3>1
          <5> QED
            BY <3>2, <3>3, <3>4, <5>1
        <4>2. server'[i] = server[i]
          BY <1>0, <1>2, <3>1, <4>1
        <4> QED
          BY <3>2, <3>4, <4>2
      <3>5. n <= Len(server')
        BY <1>0, <1>2, <3>1
      <3> QED
        BY <3>4, <3>5 DEF n
    <2>5. Members(page.extra) \subseteq Members(server') \union Gone
      BY <1>2, <2>1 DEF Astern
    <2>6. FollowsIn(server', E)
      BY <2>1, <2>2, <2>3 DEF Astern
    <2>7. net.more.state = "ok" => Members(net.more.rows) \subseteq Members(server') /\ FollowsIn(server', F)
      BY <1>2, <2>1, <2>2, <2>3 DEF Astern
    <2> QED
      BY <1>0, <1>3, <2>1, <2>4, <2>5, <2>6, <2>7 DEF Astern
  <1>6. RowsFollow'
    BY <1>1, <1>2, <1>3, <1>5 DEF ListInv, RowsFollow
  <1> QED
    BY <1>3, <1>4, <1>6 DEF ListInv

LEMMA OthersRemoveKeeps ==
  ASSUME ListInv, NEW k \in 1 .. Len(server), OthersRemove(k)
  PROVE  ListInv'
  <1>0. /\ server \in Seq(Ids) /\ Len(server) \in Nat
        /\ server' = TakenOut(server, k) /\ added' = added /\ page' = page /\ net' = net
        /\ astray' = (astray \/ Skips(k) \/ server[k] \in Paged)
    BY DEF ListInv, ListBasics, OthersRemove
  <1>1. /\ server' \in Seq(Ids) /\ NoTwins(server') /\ Len(server') = Len(server) - 1
        /\ Members(server') = Members(server) \ {server[k]}
        /\ \A i \in 1 .. Len(server') : server'[i] = IF i < k THEN server[i] ELSE server[i + 1]
        /\ \A S : FollowsIn(server, S) => FollowsIn(server', S)
    BY <1>0, OneTaken
  <1>2. ListBasics' /\ Gone' = Gone
    BY <1>0, <1>1 DEF ListInv, ListBasics, Gone
  <1>3. TotalsReach'
    BY <1>0, TotalsTaken
  <1>4. ASSUME ~astray' PROVE Astern'
    <2>1. Astern /\ ~Skips(k) /\ server[k] \notin Members(page.extra) /\ server[k] \notin Members(net.more.rows)
      BY <1>0, <1>4 DEF ListInv, RowsFollow, Paged
    <2>2. ASSUME net.more.state = "sent"
          PROVE  /\ net.more.offset <= Len(server')
                 /\ \A i \in 1 .. net.more.offset : i <= PageSize \/ server'[i] \in Members(page.extra)
      <3> DEFINE n == net.more.offset
      <3>1. n \in Nat /\ n < k
        BY <1>0, <2>1, <2>2 DEF Skips, ListInv, ListBasics, RecordNets, MoreReads
      <3>2. \A i \in 1 .. n : i <= PageSize \/ server[i] \in Members(page.extra)
        BY <2>1, <2>2 DEF Astern
      <3> HIDE DEF n
      <3>3. n <= Len(server')
        BY <1>0, <1>1, <3>1
      <3>4. \A i \in 1 .. n : i \in 1 .. Len(server') /\ i < k
        BY <1>0, <1>1, <3>1
      <3>5. \A i \in 1 .. n : server'[i] = server[i]
        BY <1>1, <3>4
      <3> QED
        BY <3>2, <3>3, <3>5 DEF n
    <2> QED
      BY <1>0, <1>1, <1>2, <2>1, <2>2 DEF Astern
  <1>5. RowsFollow'
    BY <1>1, <1>2, <1>4 DEF ListInv, RowsFollow
  <1> QED
    BY <1>2, <1>3, <1>5 DEF ListInv

\* What the list's half of a step keeps, and what the other half leaves alone.
LEMMA ListMoves == ListInv /\ [RecordsNext]_recordVars => ListInv'
  <1> SUFFICES ASSUME ListInv, [RecordsNext]_recordVars PROVE ListInv'
    OBVIOUS
  <1>1. ASSUME UNCHANGED listVars PROVE ListInv'
    <2>1. server' = server /\ page' = page /\ net' = net /\ added' = added /\ astray' = astray
      BY <1>1 DEF listVars
    <2> QED
      BY <2>1 DEF ListInv, ListBasics, TotalsReach, Reaches, RowsFollow, Astern, Gone
  <1>2. CASE \/ \E r \in Rows : StartEdit(r) \/ (\E v \in Vals : OthersWrite(r, v))
             \/ \E v \in Vals : Type(v)
             \/ CancelEdit \/ PressPreview \/ PressUpdate \/ ListRefreshes
             \/ UNCHANGED recordVars
    <2>1. UNCHANGED listVars
      BY <1>2 DEF StartEdit, OthersWrite, Type, CancelEdit, PressPreview, PressUpdate, ListRefreshes,
                  recordVars
    <2> QED
      BY <1>1, <2>1
  <1>3. ASSUME NEW c \in asked,
               \/ ServeDry(c) \/ ServeReread(c) \/ CheckWrite(c) \/ CommitWrite(c)
               \/ DryLands(c) \/ RereadLands(c) \/ WriteLands(c) \/ EditLost(c)
        PROVE  ListInv'
    <2>1. UNCHANGED listVars
      BY <1>3 DEF ServeDry, ServeReread, CheckWrite, CommitWrite, DryLands, RereadLands, WriteLands, EditLost
    <2> QED
      BY <1>1, <2>1
  <1>4. ASSUME NEW id \in Ids, PressDelete(id) PROVE ListInv'
    <2>1. net.rereads \union {id} \in SUBSET Ids
      BY <1>4 DEF ListInv, ListBasics, RecordNets
    <2>2. net' = [net EXCEPT !.rereads = net.rereads \union {id}]
      BY <1>4 DEF ListInv, ListBasics, RecordNets, PressDelete
    <2>3. server' = server /\ page' = page /\ added' = added /\ astray' = astray
      BY <1>4 DEF PressDelete
    <2> QED
      BY <2>1, <2>2, <2>3, RereadsKeep
  <1>5. ASSUME NEW id \in net.rereads, ArmFails(id) PROVE ListInv'
    <2>1. net.rereads \ {id} \in SUBSET Ids
      BY DEF ListInv, ListBasics, RecordNets
    <2>2. net' = [net EXCEPT !.rereads = net.rereads \ {id}]
      BY <1>5 DEF ListInv, ListBasics, RecordNets, ArmFails
    <2>3. server' = server /\ page' = page /\ added' = added /\ astray' = astray
      BY <1>5 DEF ArmFails
    <2> QED
      BY <2>1, <2>2, <2>3, RereadsKeep
  <1>6. CASE ReadFirst \/ ShowMore \/ ServeMore \/ MoreLands \/ MoreFails \/ Disarm \/ ConfirmDelete
    BY <1>6, ReadFirstKeeps, ShowMoreKeeps, ServeMoreKeeps, MoreLandsKeeps, MoreFailsKeeps, DisarmKeeps,
       ConfirmDeleteKeeps
  <1>7. ASSUME NEW r \in net.reads, FirstLands(r) \/ FirstFails(r) PROVE ListInv'
    BY <1>7, FirstLandsKeeps, FirstFailsKeeps
  <1>8. ASSUME NEW id \in net.rereads, ArmLands(id) PROVE ListInv'
    BY <1>8, ArmLandsKeeps
  <1>9. ASSUME NEW d \in net.deletes, ServeDelete(d) \/ DeleteLands(d) \/ DeleteFails(d) PROVE ListInv'
    BY <1>9, ServeDeleteKeeps, DeleteLandsKeeps, DeleteFailsKeeps
  <1>10. ASSUME NEW k \in 1 .. Len(server) + 1, NEW x \in Ids, OthersAdd(k, x) PROVE ListInv'
    BY <1>10, OthersAddKeeps
  <1>11. ASSUME NEW k \in 1 .. Len(server), OthersRemove(k) PROVE ListInv'
    BY <1>11, OthersRemoveKeeps
  <1> QED
    BY <1>2, <1>3, <1>4, <1>5, <1>6, <1>7, <1>8, <1>9, <1>10, <1>11 DEF RecordsNext

(* With the first page the server's and no delete unfinished, the rows on   *)
(* screen are its first ones, and those that follow can be asked for.      *)
LEMMA ListReaches == ListInv => NothingOutOfReach
  <1> SUFFICES ASSUME ListInv, page.loaded, ~astray, net.deletes = {}, page.first = From(0)
               PROVE  /\ OnScreen \subseteq Members(server)
                      /\ \A j \in DOMAIN server :
                            server[j] \in OnScreen => \A i \in 1 .. j : server[i] \in OnScreen
                      /\ page.knew = added => Members(server) \subseteq OnScreen \/ CanMore
    BY DEF NothingOutOfReach
  <1>1. server \in Seq(Ids) /\ NoTwins(server) /\ page \in RecordPages
    BY DEF ListInv, ListBasics
  <1>2. IsFiniteSet(Members(server)) /\ Cardinality(Members(server)) = Len(server) /\ Len(server) \in Nat
    BY <1>1, MembersAre
  <1>3. /\ OnScreen \subseteq Members(server)
        /\ \A j \in 1 .. Len(server) : server[j] \in OnScreen => \A i \in 1 .. j : server[i] \in OnScreen
    BY ScreenIsFirst
  <1>4. ASSUME page.knew = added, ~CanMore PROVE Members(server) \subseteq OnScreen
    <2>1. Count \in Nat /\ Count = Cardinality(OnScreen) /\ page.total \in Nat
      BY <1>1, CountIs DEF ListInv, RecordPages
    <2>2. Len(server) <= Count
      BY <1>2, <1>4, <2>1 DEF ListInv, TotalsReach, Reaches, CanMore
    <2>3. Cardinality(OnScreen) <= Cardinality(Members(server))
      BY <1>2, <1>3, FS_Subset
    <2>4. Cardinality(OnScreen) = Cardinality(Members(server))
      BY <1>2, <2>1, <2>2, <2>3
    <2> QED
      BY <1>2, <1>3, <2>4, FS_Subset
  <1>5. DOMAIN server = 1 .. Len(server)
    BY <1>1
  <1> QED
    BY <1>3, <1>4, <1>5

-----------------------------------------------------------------------------
(* The edit of a record.                                                   *)

RowForms == [row : Rows \union {NoRow}, text : MaybeVal, held : MaybeVal,
             status : {"idle", "busy", "previewed", "applied"}, stale : BOOLEAN, edited : BOOLEAN]
Edits == [kind : {"dry", "reread", "write"}, row : Rows, text : Vals, held : MaybeVal,
          read : MaybeVal, state : {"sent", "ok", "refused", "checked"}, raced : BOOLEAN]

\* What the edit view holds; the list view holds no values, and asks nothing.
EditBasics ==
    /\ view \in Views /\ writes \in Nat
    /\ value \in [Rows -> MaybeVal] /\ shown \in [Rows -> MaybeVal]
    /\ form \in RowForms /\ asked \subseteq Edits
    /\ view = "edit" => value \in [Rows -> Vals] /\ shown \in [Rows -> Vals]
    /\ form.row # NoRow => view = "edit" /\ form.text \in Vals
    /\ asked # {} => view = "edit"

\* The record is as the server checked it, unless another write came between.
CheckedIsHeld == \A c \in asked : c.state = "checked" => value[c.row] = c.held \/ c.raced

EditInv == EditBasics /\ CheckedIsHeld

LEMMA EditStarts == RecordsInit => EditInv
  <1> SUFFICES ASSUME RecordsInit PROVE EditInv
    OBVIOUS
  <1>1. view \in Views /\ shown = value /\ form = NoForm /\ asked = {} /\ writes = 0
    BY DEF RecordsInit
  <1>2. CASE view = "edit"
    <2>1. value \in [Rows -> Vals]
      BY <1>2 DEF RecordsInit
    <2> QED
      BY <1>1, <1>2, <2>1 DEF EditInv, EditBasics, CheckedIsHeld, NoForm, RowForms, MaybeVal
  <1>3. CASE view # "edit"
    <2>1. value = [r \in Rows |-> NoVal]
      BY <1>3 DEF RecordsInit
    <2>2. value \in [Rows -> MaybeVal]
      BY <2>1 DEF MaybeVal
    <2> QED
      BY <1>1, <1>3, <2>2 DEF EditInv, EditBasics, CheckedIsHeld, NoForm, RowForms, MaybeVal
  <1> QED
    BY <1>2, <1>3

\* What a press and an answer make of the form.
LEMMA FormMoves ==
  ASSUME NEW fm \in RowForms
  PROVE  /\ [fm EXCEPT !.row = NoRow] \in RowForms /\ [fm EXCEPT !.row = NoRow].row = NoRow
         /\ \A st \in {"idle", "busy", "previewed", "applied"} :
                LET x == [fm EXCEPT !.status = st]
                IN  x \in RowForms /\ x.row = fm.row /\ x.text = fm.text
         /\ LET x == [fm EXCEPT !.status = "idle", !.held = NoVal]
            IN  x \in RowForms /\ x.row = fm.row /\ x.text = fm.text
         /\ \A h \in MaybeVal :
                LET x == [fm EXCEPT !.held = h, !.status = "busy", !.edited = FALSE]
                IN  x \in RowForms /\ x.row = fm.row /\ x.text = fm.text
         /\ \A b \in BOOLEAN :
                /\ LET x == [fm EXCEPT !.status = "previewed", !.stale = b]
                   IN  x \in RowForms /\ x.row = fm.row /\ x.text = fm.text
                /\ LET x == [fm EXCEPT !.stale = b]
                   IN  x \in RowForms /\ x.row = fm.row /\ x.text = fm.text
         /\ LET x == [fm EXCEPT !.status = "applied", !.stale = FALSE, !.row = NoRow]
            IN  x \in RowForms /\ x.row = NoRow
  <1>1. NoVal \in MaybeVal
    BY DEF MaybeVal
  <1> QED
    BY <1>1 DEF RowForms

\* Values and requests stay; only the form moves.
LEMMA OnlyTheForm ==
  ASSUME EditInv, form' \in RowForms, form'.row # NoRow => view = "edit" /\ form'.text \in Vals,
         UNCHANGED <<view, value, asked, writes>>, shown' = shown
  PROVE  EditInv'
  BY DEF EditInv, EditBasics, CheckedIsHeld

\* One request is replaced, or gone; what is checked now was, or is as held.
LEMMA RequestMoves ==
  ASSUME EditInv, NEW c \in asked, NEW more \in SUBSET Edits, asked' = (asked \ {c}) \union more,
         \A d \in more : d.state = "checked" => value[d.row] = d.held \/ d.raced,
         form' \in RowForms, form'.row # NoRow => form.row # NoRow /\ form'.text = form.text,
         shown' = shown \/ shown' \in [Rows -> Vals], UNCHANGED <<view, value, writes>>
  PROVE  EditInv'
  <1>1. asked' \subseteq Edits /\ view = "edit"
    BY DEF EditInv, EditBasics
  <1>2. shown' \in [Rows -> Vals] /\ shown' \in [Rows -> MaybeVal]
    BY <1>1 DEF EditInv, EditBasics, MaybeVal
  <1>3. EditBasics'
    BY <1>1, <1>2 DEF EditInv, EditBasics
  <1>4. CheckedIsHeld'
    BY DEF EditInv, CheckedIsHeld
  <1> QED
    BY <1>3, <1>4 DEF EditInv

LEMMA StateFits ==
  ASSUME NEW c \in Edits, NEW st \in {"sent", "ok", "refused", "checked"}
  PROVE  LET x == [c EXCEPT !.state = st]
         IN  x \in Edits /\ x.state = st /\ x.row = c.row /\ x.held = c.held /\ x.raced = c.raced
  BY DEF Edits

LEMMA ReadFits ==
  ASSUME NEW c \in Edits, NEW v \in MaybeVal
  PROVE  LET x == [c EXCEPT !.state = "ok", !.read = v] IN x \in Edits /\ x.state = "ok"
  BY DEF Edits

LEMMA SentFits ==
  ASSUME NEW c \in Edits
  PROVE  LET x == [c EXCEPT !.kind = "write", !.state = "sent"] IN x \in Edits /\ x.state = "sent"
  BY DEF Edits

LEMMA RacedFits ==
  ASSUME NEW S, S \subseteq Edits
  PROVE  \A d \in {[c EXCEPT !.raced = TRUE] : c \in S} : d \in Edits /\ d.raced
  <1> SUFFICES ASSUME NEW c \in S
               PROVE  LET x == [c EXCEPT !.raced = TRUE] IN x \in Edits /\ x.raced
    OBVIOUS
  <1>1. c \in Edits
    OBVIOUS
  <1> QED
    BY <1>1 DEF Edits

\* A new request is in the air.
LEMMA RequestAdded ==
  ASSUME EditInv, NEW c \in Edits, c.state = "sent", view = "edit", asked' = asked \union {c},
         form' \in RowForms, form'.row = form.row, form'.text = form.text,
         UNCHANGED <<view, value, shown, writes>>
  PROVE  EditInv'
  <1>1. EditBasics'
    BY DEF EditInv, EditBasics
  <1>2. CheckedIsHeld'
    BY DEF EditInv, CheckedIsHeld
  <1> QED
    BY <1>1, <1>2 DEF EditInv

LEMMA FormEditsKeep ==
  ASSUME EditInv,
         (\E r \in Rows : StartEdit(r)) \/ CancelEdit \/ (\E v \in Vals : Type(v))
  PROVE  EditInv'
  <1>0. form \in RowForms
    BY DEF EditInv, EditBasics
  <1>1. ASSUME NEW r \in Rows, StartEdit(r) PROVE EditInv'
    <2>1. shown[r] \in Vals /\ form.edited \in BOOLEAN /\ view = "edit"
      BY <1>0, <1>1 DEF EditInv, EditBasics, StartEdit, RowForms
    <2>2. form' = [row |-> r, text |-> shown[r], held |-> NoVal, status |-> "idle", stale |-> FALSE,
                   edited |-> form.edited]
      BY <1>1 DEF StartEdit, NoForm
    <2>3. form' \in RowForms /\ form'.text \in Vals
      BY <2>1, <2>2 DEF RowForms, MaybeVal
    <2>4. UNCHANGED <<view, value, asked, writes>> /\ shown' = shown
      BY <1>1 DEF StartEdit
    <2> QED
      BY <2>1, <2>3, <2>4, OnlyTheForm
  <1>2. CASE CancelEdit
    <2>1. form' \in RowForms /\ form'.row = NoRow
      BY <1>0, <1>2, FormMoves DEF CancelEdit
    <2>2. UNCHANGED <<view, value, asked, writes>> /\ shown' = shown
      BY <1>2 DEF CancelEdit
    <2> QED
      BY <2>1, <2>2, OnlyTheForm
  <1>3. ASSUME NEW v \in Vals, Type(v) PROVE EditInv'
    <2> DEFINE st == form.stale \/ form.status = "previewed"
               ed == form.edited \/ form.status = "busy"
    <2>1. st \in BOOLEAN /\ ed \in BOOLEAN /\ v \in MaybeVal
      BY <1>0 DEF RowForms, MaybeVal
    <2>2. form' = [form EXCEPT !.text = v, !.stale = st, !.edited = ed]
      BY <1>0, <1>3 DEF Type, RowForms
    <2> HIDE DEF st, ed
    <2>3. form' \in RowForms
      BY <1>0, <2>1, <2>2 DEF RowForms
    <2>4. form'.row = form.row /\ form'.text = v
      BY <1>0, <2>2 DEF RowForms
    <2>5. form.row # NoRow /\ UNCHANGED <<view, value, asked, writes>> /\ shown' = shown
      BY <1>3 DEF Type
    <2>6. view = "edit"
      BY <2>5 DEF EditInv, EditBasics
    <2> QED
      BY <2>3, <2>4, <2>5, <2>6, OnlyTheForm
  <1> QED
    BY <1>1, <1>2, <1>3

LEMMA PressesKeep ==
  ASSUME EditInv, PressPreview \/ PressUpdate
  PROVE  EditInv'
  <1>0. form \in RowForms /\ form.row # NoRow
    BY DEF EditInv, EditBasics, PressPreview, PressUpdate
  <1>1. form.row \in Rows /\ form.text \in Vals /\ view = "edit" /\ form.held \in MaybeVal
    BY <1>0 DEF EditInv, EditBasics, RowForms
  <1>2. shown[form.row] \in MaybeVal /\ NoVal \in MaybeVal
    BY <1>1 DEF EditInv, EditBasics, MaybeVal
  <1>3. CASE PressPreview
    <2> DEFINE held == shown[form.row]
               c == [kind |-> "dry", row |-> form.row, text |-> form.text, held |-> held, read |-> NoVal,
                     state |-> "sent", raced |-> FALSE]
    <2>1. c \in Edits /\ c.state = "sent"
      BY <1>1, <1>2 DEF Edits
    <2>2. asked' = asked \union {c} /\ UNCHANGED <<view, value, shown, writes>>
      BY <1>3 DEF PressPreview
    <2>3. form' = [form EXCEPT !.held = held, !.status = "busy", !.edited = FALSE]
      BY <1>3 DEF PressPreview
    <2> HIDE DEF held, c
    <2>4. form' \in RowForms /\ form'.row = form.row /\ form'.text = form.text
      BY <1>0, <1>2, <2>3, FormMoves DEF held
    <2> QED
      BY <1>1, <2>1, <2>2, <2>4, RequestAdded
  <1>4. CASE PressUpdate
    <2> DEFINE c == [kind |-> "reread", row |-> form.row, text |-> form.text, held |-> form.held,
                     read |-> NoVal, state |-> "sent", raced |-> FALSE]
    <2>1. c \in Edits /\ c.state = "sent"
      BY <1>1, <1>2 DEF Edits
    <2>2. asked' = asked \union {c} /\ UNCHANGED <<view, value, shown, writes>>
      BY <1>4 DEF PressUpdate
    <2>3. form' = [form EXCEPT !.status = "busy"]
      BY <1>4 DEF PressUpdate
    <2> HIDE DEF c
    <2>4. form' \in RowForms /\ form'.row = form.row /\ form'.text = form.text
      BY <1>0, <2>3, FormMoves
    <2> QED
      BY <1>1, <2>1, <2>2, <2>4, RequestAdded
  <1> QED
    BY <1>3, <1>4

LEMMA ServedKeeps ==
  ASSUME EditInv, NEW c \in asked, ServeDry(c) \/ ServeReread(c) \/ CheckWrite(c)
  PROVE  EditInv'
  <1>0. /\ c \in Edits /\ form' = form /\ form \in RowForms /\ shown' = shown
        /\ UNCHANGED <<view, value, writes>>
    BY DEF EditInv, EditBasics, ServeDry, ServeReread, CheckWrite
  <1>1. CASE ServeDry(c) \/ CheckWrite(c)
    <2>1. PICK st \in {"sent", "ok", "refused", "checked"} :
              /\ Answer(c, st)
              /\ st = "checked" => ~Conflict(c)
      BY <1>1 DEF ServeDry, CheckWrite
    <2> DEFINE d == [c EXCEPT !.state = st]
    <2>2. d \in Edits /\ d.state = st /\ d.row = c.row /\ d.held = c.held
      BY <1>0, StateFits
    <2>3. asked' = (asked \ {c}) \union {d}
      BY <2>1 DEF Answer
    <2> HIDE DEF d
    <2>4. d.state = "checked" => value[d.row] = d.held
      BY <2>1, <2>2 DEF Conflict
    <2>5. {d} \in SUBSET Edits /\ \A x \in {d} : x.state = "checked" => value[x.row] = x.held \/ x.raced
      BY <2>2, <2>4
    <2> QED
      BY <1>0, <2>3, <2>5, RequestMoves
  <1>2. CASE ServeReread(c)
    <2> DEFINE d == [c EXCEPT !.state = "ok", !.read = value[c.row]]
    <2>1. value[c.row] \in MaybeVal
      BY <1>0 DEF EditInv, EditBasics, Edits
    <2>2. d \in Edits /\ d.state = "ok"
      BY <1>0, <2>1, ReadFits
    <2>3. asked' = (asked \ {c}) \union {d}
      BY <1>2 DEF ServeReread
    <2> HIDE DEF d
    <2>4. {d} \in SUBSET Edits /\ \A x \in {d} : x.state = "checked" => value[x.row] = x.held \/ x.raced
      BY <2>2
    <2> QED
      BY <1>0, <2>3, <2>4, RequestMoves
  <1> QED
    BY <1>1, <1>2

\* A write marks every other that was checked for the same record.
LEMMA CommitKeeps ==
  ASSUME EditInv, NEW c \in asked, CommitWrite(c)
  PROVE  EditInv'
  <1> DEFINE late == Racing(c.row) \ {c}
             marked == {[d EXCEPT !.raced = TRUE] : d \in late}
             e == [c EXCEPT !.state = "ok"]
  <1>0. /\ c \in Edits /\ asked \subseteq Edits /\ view = "edit" /\ c.row \in Rows /\ c.text \in Vals
        /\ c.text \in MaybeVal
    BY DEF EditInv, EditBasics, Edits, MaybeVal
  <1>1. e \in Edits /\ e.state = "ok"
    BY <1>0, StateFits
  <1>2. \A d \in marked : d \in Edits /\ d.raced
    <2>1. late \subseteq Edits
      BY <1>0 DEF Racing
    <2> HIDE DEF late
    <2> QED
      BY <2>1, RacedFits
  <1>3. asked' = marked \union (asked \ (Racing(c.row) \union {c})) \union {e}
    BY DEF CommitWrite
  <1>4. /\ value' = [value EXCEPT ![c.row] = c.text]
        /\ UNCHANGED <<view, shown, form, writes>>
    BY DEF CommitWrite
  <1>5. value' \in [Rows -> MaybeVal] /\ value' \in [Rows -> Vals]
    BY <1>0, <1>4 DEF EditInv, EditBasics
  <1> HIDE DEF marked, e
  <1>6. asked' \subseteq Edits
    BY <1>0, <1>1, <1>2, <1>3
  <1>7. EditBasics'
    BY <1>0, <1>4, <1>5, <1>6 DEF EditInv, EditBasics
  <1>8. ASSUME NEW d \in asked', d.state = "checked" PROVE value'[d.row] = d.held \/ d.raced
    <2>1. CASE d \in asked \ (Racing(c.row) \union {c})
      <3>1. d.row # c.row /\ d.row \in Rows
        BY <1>0, <1>8, <2>1 DEF Racing, Edits
      <3>2. value'[d.row] = value[d.row]
        BY <1>4, <3>1 DEF EditInv, EditBasics
      <3> QED
        BY <1>8, <2>1, <3>2 DEF EditInv, CheckedIsHeld
    <2>2. CASE d \in marked
      BY <1>2, <2>2
    <2>3. CASE d = e
      BY <1>1, <1>8, <2>3
    <2> QED
      BY <1>3, <2>1, <2>2, <2>3
  <1> QED
    BY <1>7, <1>8 DEF EditInv, CheckedIsHeld

LEMMA LandedKeeps ==
  ASSUME EditInv, NEW c \in asked, DryLands(c) \/ RereadLands(c) \/ WriteLands(c) \/ EditLost(c)
  PROVE  EditInv'
  <1>0. /\ c \in Edits /\ form \in RowForms /\ UNCHANGED <<view, value, writes>> /\ view = "edit"
        /\ shown \in [Rows -> Vals] /\ form.edited \in BOOLEAN
    BY DEF EditInv, EditBasics, DryLands, RereadLands, WriteLands, EditLost, RowForms
  <1>1. GivenUp \in RowForms /\ GivenUp.row = form.row /\ GivenUp.text = form.text
    BY <1>0, FormMoves DEF GivenUp
  <1>2. LET x == [GivenUp EXCEPT !.stale = FALSE]
        IN  x \in RowForms /\ x.row = form.row /\ x.text = form.text
    BY <1>1, FormMoves
  <1>3. LET x == [form EXCEPT !.status = "idle"]
        IN  x \in RowForms /\ x.row = form.row /\ x.text = form.text
    BY <1>0, FormMoves
  <1>4. LET x == [form EXCEPT !.status = "previewed", !.stale = form.edited]
        IN  x \in RowForms /\ x.row = form.row /\ x.text = form.text
    BY <1>0, FormMoves
  <1>5. LET x == [form EXCEPT !.status = "applied", !.stale = FALSE, !.row = NoRow]
        IN  x \in RowForms /\ x.row = NoRow
    BY <1>0, FormMoves
  <1> DEFINE onward == [c EXCEPT !.kind = "write", !.state = "sent"]
  <1>6. onward \in Edits /\ onward.state = "sent"
    BY <1>0, SentFits
  <1>7. form' \in RowForms /\ (form'.row # NoRow => form.row # NoRow /\ form'.text = form.text)
    <2>1. CASE DryLands(c)
      BY <1>3, <1>4, <2>1 DEF DryLands
    <2>2. CASE RereadLands(c)
      BY <1>0, <1>2, <2>2 DEF RereadLands
    <2>3. CASE WriteLands(c)
      BY <1>1, <1>5, <2>3 DEF WriteLands
    <2>4. CASE EditLost(c)
      BY <1>2, <1>3, <2>4 DEF EditLost
    <2> QED
      BY <2>1, <2>2, <2>3, <2>4
  <1>8. shown' = shown \/ shown' \in [Rows -> Vals]
    <2>1. CASE WriteLands(c)
      <3>1. c.row \in Rows /\ c.text \in Vals
        BY <1>0 DEF Edits
      <3> QED
        BY <1>0, <2>1, <3>1 DEF WriteLands
    <2> QED
      BY <2>1 DEF DryLands, RereadLands, EditLost
  <1>9. PICK more \in SUBSET Edits :
            /\ asked' = (asked \ {c}) \union more
            /\ \A d \in more : d.state = "checked" => value[d.row] = d.held \/ d.raced
    <2>1. CASE asked' = asked \ {c}
      <3>1. {} \in SUBSET Edits /\ asked' = (asked \ {c}) \union {}
        BY <2>1
      <3> QED
        BY <3>1
    <2>2. CASE asked' = (asked \ {c}) \union {onward}
      <3>1. {onward} \in SUBSET Edits /\ \A d \in {onward} : d.state # "checked"
        BY <1>6
      <3> QED
        BY <2>2, <3>1
    <2> QED
      BY <2>1, <2>2 DEF DryLands, RereadLands, WriteLands, EditLost
  <1> QED
    BY <1>0, <1>7, <1>8, <1>9, RequestMoves

\* What others write comes between a check and its write, and is marked.
LEMMA OthersKeep ==
  ASSUME EditInv, NEW r \in Rows, NEW v \in Vals, OthersWrite(r, v)
  PROVE  EditInv'
  <1> DEFINE marked == {[c EXCEPT !.raced = TRUE] : c \in Racing(r)}
  <1>0. asked \subseteq Edits /\ v \in MaybeVal /\ view = "edit"
    BY DEF EditInv, EditBasics, OthersWrite, MaybeVal
  <1>1. \A d \in marked : d \in Edits /\ d.raced
    <2>1. Racing(r) \subseteq Edits
      BY <1>0 DEF Racing
    <2> QED
      BY <2>1, RacedFits
  <1>2. asked' = (asked \ Racing(r)) \union marked
    BY DEF OthersWrite
  <1>3. /\ value' = [value EXCEPT ![r] = v] /\ writes' = writes + 1
        /\ UNCHANGED <<view, shown, form>>
    BY DEF OthersWrite
  <1>4. value' \in [Rows -> MaybeVal] /\ value' \in [Rows -> Vals] /\ writes' \in Nat
    BY <1>0, <1>3 DEF EditInv, EditBasics
  <1> HIDE DEF marked
  <1>5. asked' \subseteq Edits
    BY <1>0, <1>1, <1>2
  <1>6. EditBasics'
    BY <1>0, <1>3, <1>4, <1>5 DEF EditInv, EditBasics
  <1>7. ASSUME NEW d \in asked', d.state = "checked" PROVE value'[d.row] = d.held \/ d.raced
    <2>1. CASE d \in asked \ Racing(r)
      <3>1. d.row # r /\ d.row \in Rows
        BY <1>0, <1>7, <2>1 DEF Racing, Edits
      <3>2. value'[d.row] = value[d.row]
        BY <1>3, <3>1 DEF EditInv, EditBasics
      <3> QED
        BY <1>7, <2>1, <3>2 DEF EditInv, CheckedIsHeld
    <2> QED
      BY <1>1, <1>2, <2>1
  <1> QED
    BY <1>6, <1>7 DEF EditInv, CheckedIsHeld

LEMMA EditMoves == EditInv /\ [RecordsNext]_recordVars => EditInv'
  <1> SUFFICES ASSUME EditInv, [RecordsNext]_recordVars PROVE EditInv'
    OBVIOUS
  <1>1. ASSUME UNCHANGED <<view, editVars>> PROVE EditInv'
    <2>1. /\ view' = view /\ value' = value /\ shown' = shown /\ form' = form /\ asked' = asked
          /\ writes' = writes
      BY <1>1 DEF editVars
    <2> QED
      BY <2>1 DEF EditInv, EditBasics, CheckedIsHeld
  <1>2. CASE \/ ReadFirst \/ (\E r \in net.reads : FirstLands(r) \/ FirstFails(r))
             \/ ShowMore \/ ServeMore \/ MoreLands \/ MoreFails
             \/ \E id \in Ids : PressDelete(id)
             \/ \E id \in net.rereads : ArmLands(id) \/ ArmFails(id)
             \/ Disarm \/ ConfirmDelete
             \/ \E d \in net.deletes : ServeDelete(d) \/ DeleteLands(d) \/ DeleteFails(d)
             \/ UNCHANGED recordVars
    <2>1. UNCHANGED <<view, editVars>>
      BY <1>2 DEF ReadFirst, FirstLands, FirstFails, ShowMore, ServeMore, MoreLands, MoreFails, PressDelete, ArmLands,
                  ArmFails, Disarm, ConfirmDelete, ServeDelete, DeleteLands, DeleteFails, recordVars
    <2> QED
      BY <1>1, <2>1
  <1>3. CASE ListRefreshes
    <2>1. view = "edit" /\ UNCHANGED <<view, value, form, asked, writes>> /\ shown' = value
      BY <1>3 DEF ListRefreshes
    <2> QED
      BY <2>1 DEF EditInv, EditBasics, CheckedIsHeld
  <1>4. CASE \/ \E r \in Rows : StartEdit(r) \/ (\E v \in Vals : OthersWrite(r, v))
             \/ \E v \in Vals : Type(v)
             \/ CancelEdit \/ PressPreview \/ PressUpdate
    BY <1>4, FormEditsKeep, OthersKeep, PressesKeep
  <1>5. ASSUME NEW c \in asked,
               \/ ServeDry(c) \/ ServeReread(c) \/ CheckWrite(c) \/ CommitWrite(c)
               \/ DryLands(c) \/ RereadLands(c) \/ WriteLands(c) \/ EditLost(c)
        PROVE  EditInv'
    BY <1>5, ServedKeeps, CommitKeeps, LandedKeeps
  <1>6. CASE \/ \E k \in 1 .. Len(server) + 1, x \in Ids : OthersAdd(k, x)
             \/ \E k \in 1 .. Len(server) : OthersRemove(k)
    <2>1. UNCHANGED <<view, value, shown, form, asked>> /\ writes' = writes + 1
      BY <1>6 DEF OthersAdd, OthersRemove
    <2> QED
      BY <2>1 DEF EditInv, EditBasics, CheckedIsHeld
  <1> QED
    BY <1>2, <1>3, <1>4, <1>5, <1>6 DEF RecordsNext

-----------------------------------------------------------------------------
RecordsInv == EditInv /\ ListInv

LEMMA RecordsTypes == RecordsInv => RecordsTypeOK
  <1> SUFFICES ASSUME RecordsInv PROVE RecordsTypeOK
    OBVIOUS
  <1>1. /\ view \in Views /\ writes \in Nat /\ added \in Nat /\ astray \in BOOLEAN
        /\ value \in [Rows -> MaybeVal] /\ shown \in [Rows -> MaybeVal]
        /\ form \in RowForms /\ asked \subseteq Edits
    BY DEF RecordsInv, EditInv, EditBasics, ListInv, ListBasics
  <1>2. server \in Seq(Ids) /\ Cardinality(Members(server)) = Len(server)
    BY MembersAre DEF RecordsInv, ListInv, ListBasics
  <1>3. /\ page.first \in Seq(Ids) /\ page.extra \in Seq(Ids)
        /\ page.total \in Nat /\ page.armed \in Ids \union {0} /\ page.deletes \in Nat
    BY DEF RecordsInv, ListInv, ListBasics, RecordPages
  <1>4. /\ net.rereads \subseteq Ids /\ net.more.state \in {"none", "sent", "ok"}
        /\ net.deletes \subseteq [id : Ids, state : {"sent", "ok"}]
    BY DEF RecordsInv, ListInv, ListBasics, RecordNets, MoreReads, RowDeletes
  <1> QED
    BY <1>1, <1>2, <1>3, <1>4 DEF RecordsTypeOK, RowForms, Edits

\* Whatever the records, a write that is checked stays of what was held unless
\* another came between; a total that knew of every record added is never too
\* low; and rows Show more brought follow the first page with no gap, unless
\* something led them astray.
THEOREM RecordsInductive == RecordsSpec => []RecordsInv
  <1>1. RecordsInit => RecordsInv
    BY EditStarts, ListStarts DEF RecordsInv
  <1>2. RecordsInv /\ [RecordsNext]_recordVars => RecordsInv'
    BY EditMoves, ListMoves DEF RecordsInv
  <1> QED
    BY <1>1, <1>2, PTL DEF RecordsSpec

(* An update overwrites only the value it was held against, unless another  *)
(* write came between the server's check and its write (edit.go 632-640).  *)
THEOREM UpdatesOverwriteTheHeld == RecordsSpec => OverwritesOnlyWhatWasHeld
  <1>1. RecordsInv /\ [RecordsNext]_recordVars =>
            [ \A c \in asked : c.state = "checked" /\ c \notin asked'
                /\ [c EXCEPT !.state = "ok"] \in asked'
                => value[c.row] = c.held \/ c.raced ]_recordVars
    BY DEF RecordsInv, EditInv, CheckedIsHeld
  <1> QED
    BY <1>1, RecordsInductive, PTL DEF RecordsSpec, OverwritesOnlyWhatWasHeld

-----------------------------------------------------------------------------
(* The pages side by side.                                                 *)

(* What a page sends is what its last preview showed, with two exceptions:  *)
(* Provision's streams, of which nothing is said (an Apply there may send   *)
(* what no preview showed, against Provision.jsx 210-212), and the Editor   *)
(* once its chosen type was pressed again under a preview (where it is      *)
(* false, against Editor.jsx 227-228).  It holds of every other Apply,      *)
(* Build, Create and Update (SelfService.jsx 48-62, Automate.jsx 51-53).    *)
THEOREM EveryPageShowsFirst == PagesWriteSpec => EveryApplyIsSeen
  <1>1. EditorSpec => []EditorTypeOK
    BY EditorInductive, EditorTypes, PTL
  <1> QED
    BY <1>1, AppliesAlwaysSeen, ItemAppliesAlwaysSeen DEF PagesWriteSpec, EveryApplyIsSeen

(* Nothing is overwritten or deleted but what was held or armed             *)
(* (edit.go 632-640, Editor.jsx 283-330).                                   *)
THEOREM EveryPageHitsWhatItShowed == PagesWriteSpec => ChangesHitWhatWasSeen
  BY UpdatesOverwriteTheHeld, DeletesAlwaysHitWhatWasArmed DEF PagesWriteSpec, ChangesHitWhatWasSeen

(* With the first page the server's and no delete unfinished, the rows on   *)
(* screen are the server's first ones with none left out, and the button    *)
(* is there for the rest if the total is no older than the last record      *)
(* added; unless a Show more met a delete or an old first page, others      *)
(* added before or removed rows it brought, or a delete's answer was lost,  *)
(* where the claim of SelfService.jsx 351-352 does not hold of the code.    *)
(* And no run is lost from the list of changes but by a lost answer         *)
(* (Automate.jsx 73-108).                                                   *)
THEOREM EveryListIsWhole == PagesWriteSpec => []ListsAreWhole
  <1>1. RecordsInv => RecordsTypeOK /\ NothingOutOfReach
    BY RecordsTypes, ListReaches DEF RecordsInv
  <1>2. RecordsSpec => [](RecordsTypeOK /\ NothingOutOfReach)
    BY <1>1, RecordsInductive, PTL
  <1> QED
    BY <1>2, BuildsAlwaysReachTheList, PTL DEF PagesWriteSpec, ListsAreWhole
=============================================================================
