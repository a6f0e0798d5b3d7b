------------------------------- MODULE Records -------------------------------
(***************************************************************************)
(* Manage Records of SelfService.jsx (and Manage Addresses, which pages    *)
(* and deletes the same way): a list loaded a page at a time, an edit of   *)
(* one row that is previewed, read again and sent, and a delete that takes *)
(* two clicks; against a server that others write to as well.  A behaviour *)
(* follows either an edit or the list.  Choosing another zone starts anew. *)
(***************************************************************************)
EXTENDS Naturals, Sequences, FiniteSets

CONSTANTS
    Views,          \* the views followed: "edit", "list"
    Rows, NoRow,    \* the records of the edit view
    Vals, NoVal,    \* their values
    Listed,         \* records of the list view at the start: 1 .. Listed
    PageSize,       \* 200 in the code
    MaxWrites, MaxDeletes,   \* bounds: writes by others; deletes begun
    MaxExtra,                \* bound: rows brought by Show more, repeated ones counted
    MaxAsked                 \* bound: edit requests in the air; reads in the air at a first click on Delete

ASSUME RecordsAssumption ==
    /\ NoRow \notin Rows /\ NoVal \notin Vals
    /\ Listed \in Nat /\ MaxWrites \in Nat /\ PageSize \in Nat \ {0}

VARIABLES
    view,     \* which view this behaviour follows
    value,    \* the server: the records' values
    shown,    \* the values the page's list shows
    form,     \* the row being edited and its preview
    asked,    \* the edit's requests in the air; raced marks those another write passed
    writes,   \* writes by others
    server,   \* the list view: the records in order
    page,     \* its first page, its extra rows, what may be armed
    net,      \* its requests in the air
    added,    \* history: how many records others added; a total tells how many it knew of
    astray    \* history: the extra rows may no longer follow the first page

editVars == <<value, shown, form, asked, writes>>
listVars == <<server, page, net, added, astray>>
recordVars == <<view, editVars, listVars>>

NoForm == [row |-> NoRow, text |-> NoVal, held |-> NoVal, status |-> "idle",
           stale |-> FALSE, edited |-> FALSE]
NoMore == [offset |-> 0, state |-> "none", rows |-> <<>>, total |-> 0, knew |-> 0]

RecordsInit ==
    /\ view \in Views
    /\ value \in IF view = "edit" THEN [Rows -> Vals] ELSE {[r \in Rows |-> NoVal]}
    /\ shown = value /\ form = NoForm /\ asked = {} /\ writes = 0
    /\ server = [i \in 1 .. Listed |-> i]
    /\ page = [first |-> <<>>, extra |-> <<>>, total |-> 0, knew |-> 0, loaded |-> FALSE,
               paged |-> FALSE, armed |-> 0, deletes |-> 0]
    /\ net = [reads |-> IF view = "list" THEN {<<>>} ELSE {}, more |-> NoMore,
              rereads |-> {}, deletes |-> {}]
    /\ added = 0 /\ astray = FALSE

-----------------------------------------------------------------------------
(* Editing a row.                                                          *)

StartEdit(r) ==
    /\ view = "edit" /\ form.row # r
    /\ form' = [NoForm EXCEPT !.row = r, !.text = shown[r], !.edited = form.edited]
    /\ UNCHANGED <<view, value, shown, asked, writes, listVars>>

\* Cancel keeps the rest of the form, and what is in the air.
CancelEdit ==
    /\ form.row # NoRow
    /\ form' = [form EXCEPT !.row = NoRow]
    /\ UNCHANGED <<view, value, shown, asked, writes, listVars>>

Type(v) ==
    /\ form.row # NoRow /\ v # form.text
    /\ form' = [form EXCEPT !.text = v,
                    !.stale = @ \/ form.status = "previewed",
                    !.edited = @ \/ form.status = "busy"]
    /\ UNCHANGED <<view, value, shown, asked, writes, listVars>>

\* The row is held as the list shows it.
PressPreview ==
    /\ form.row # NoRow /\ form.status # "busy" /\ Cardinality(asked) < MaxAsked
    /\ LET held == shown[form.row]
       IN  /\ form' = [form EXCEPT !.held = held, !.status = "busy", !.edited = FALSE]
           /\ asked' = asked \union {[kind |-> "dry", row |-> form.row, text |-> form.text,
                                      held |-> held, read |-> NoVal,
                                      state |-> "sent", raced |-> FALSE]}
    /\ UNCHANGED <<view, value, shown, writes, listVars>>

PressUpdate ==
    /\ form.row # NoRow /\ form.status = "previewed" /\ ~form.stale /\ form.held # NoVal
    /\ Cardinality(asked) < MaxAsked
    /\ form' = [form EXCEPT !.status = "busy"]
    /\ asked' = asked \union {[kind |-> "reread", row |-> form.row, text |-> form.text,
                               held |-> form.held, read |-> NoVal,
                               state |-> "sent", raced |-> FALSE]}
    /\ UNCHANGED <<view, value, shown, writes, listVars>>

Answer(c, state) == asked' = (asked \ {c}) \union {[c EXCEPT !.state = state]}

\* Mutant: the server writes without comparing.
NeverConflicts(c) == FALSE
\* The server compares the record with what the caller says it held.
Conflict(c) == value[c.row] # c.held

\* A dry run is refused on a conflict or when nothing would be updated.
ServeDry(c) ==
    /\ c.kind = "dry" /\ c.state = "sent"
    /\ Answer(c, IF Conflict(c) \/ c.text = c.held THEN "refused" ELSE "ok")
    /\ UNCHANGED <<view, value, shown, form, writes, listVars>>

ServeReread(c) ==
    /\ c.kind = "reread" /\ c.state = "sent"
    /\ asked' = (asked \ {c}) \union {[c EXCEPT !.state = "ok", !.read = value[c.row]]}
    /\ UNCHANGED <<view, value, shown, form, writes, listVars>>

\* The server checks, and then writes: the two are not atomic.
CheckWrite(c) ==
    /\ c.kind = "write" /\ c.state = "sent"
    /\ Answer(c, IF Conflict(c) THEN "refused" ELSE "checked")
    /\ UNCHANGED <<view, value, shown, form, writes, listVars>>

\* Writes the server has checked and not yet made.
Racing(r) == {c \in asked : c.state = "checked" /\ c.row = r}

CommitWrite(c) ==
    /\ c.state = "checked"
    /\ asked' = {[d EXCEPT !.raced = TRUE] : d \in Racing(c.row) \ {c}}
                \union (asked \ (Racing(c.row) \union {c})) \union {[c EXCEPT !.state = "ok"]}
    /\ value' = [value EXCEPT ![c.row] = c.text]
    /\ UNCHANGED <<view, shown, form, writes, listVars>>

GivenUp == [form EXCEPT !.status = "idle", !.held = NoVal]

\* The dry run answers, whichever row the form is at by now.
DryLands(c) ==
    /\ c.kind = "dry" /\ c.state \in {"ok", "refused"}
    /\ asked' = asked \ {c}
    /\ form' = IF c.state = "ok"
               THEN [form EXCEPT !.status = "previewed", !.stale = form.edited]
               ELSE [form EXCEPT !.status = "idle"]
    /\ UNCHANGED <<view, value, shown, writes, listVars>>

\* The record read again: sent if it is as it was held, else preview again.
RereadLands(c) ==
    /\ c.kind = "reread" /\ c.state = "ok"
    /\ IF c.read = c.held
       THEN /\ asked' = (asked \ {c}) \union {[c EXCEPT !.kind = "write", !.state = "sent"]}
            /\ UNCHANGED form
       ELSE asked' = asked \ {c} /\ form' = [GivenUp EXCEPT !.stale = FALSE]
    /\ UNCHANGED <<view, value, shown, writes, listVars>>

\* A successful write closes whichever row is being edited, and the list is
\* read again.
WriteLands(c) ==
    /\ c.kind = "write" /\ c.state \in {"ok", "refused"}
    /\ IF c.state = "ok"
       THEN /\ form' = [form EXCEPT !.status = "applied", !.stale = FALSE, !.row = NoRow]
            /\ shown' = [shown EXCEPT ![c.row] = c.text]
       ELSE form' = GivenUp /\ UNCHANGED shown
    /\ asked' = asked \ {c}
    /\ UNCHANGED <<view, value, writes, listVars>>

\* A call that breaks, answered or not.
EditLost(c) ==
    /\ asked' = asked \ {c}
    /\ form' = IF c.kind = "dry" THEN [form EXCEPT !.status = "idle"]
               ELSE [GivenUp EXCEPT !.stale = FALSE]
    /\ UNCHANGED <<view, value, shown, writes, listVars>>

OthersWrite(r, v) ==
    /\ view = "edit" /\ writes < MaxWrites /\ v # value[r]
    /\ writes' = writes + 1
    /\ value' = [value EXCEPT ![r] = v]
    /\ asked' = (asked \ Racing(r)) \union {[c EXCEPT !.raced = TRUE] : c \in Racing(r)}
    /\ UNCHANGED <<view, shown, form, listVars>>

ListRefreshes ==
    /\ view = "edit" /\ shown # value
    /\ shown' = value
    /\ UNCHANGED <<view, value, form, asked, writes, listVars>>

-----------------------------------------------------------------------------
(* The list and its deletes.                                               *)

Ids == 1 .. Listed + MaxWrites
Members(s) == {s[i] : i \in DOMAIN s}
Without(s, id) ==
    LET kept[n \in 0 .. Len(s)] ==
            IF n = 0 THEN <<>>
            ELSE IF s[n] = id THEN kept[n - 1] ELSE Append(kept[n - 1], s[n])
    IN  kept[Len(s)]
TakenOut(s, k) == [i \in 1 .. Len(s) - 1 |-> IF i < k THEN s[i] ELSE s[i + 1]]
PutIn(s, k, x) == [i \in 1 .. Len(s) + 1 |-> IF i < k THEN s[i] ELSE IF i = k THEN x ELSE s[i - 1]]
From(offset) == SubSeq(server, offset + 1, IF offset + PageSize < Len(server)
                                           THEN offset + PageSize ELSE Len(server))

\* pagedRows: a row that is on both pages is counted once.
OnScreen == Members(page.first) \union Members(page.extra)
Count == Cardinality(OnScreen)
CanMore == page.loaded /\ Count < page.total

\* useApi's read of the first page is served and lands in two steps, so that a
\* later one may overtake it.
ReadFirst ==
    /\ <<>> \in net.reads
    /\ net' = [net EXCEPT !.reads = (@ \ {<<>>}) \union {<<From(0), Len(server), added>>}]
    /\ UNCHANGED <<view, editVars, server, page, added, astray>>

\* Once more was shown, the total is the one that came with it, even when
\* deletes have left none of the extra rows.
FirstLands(r) ==
    /\ r # <<>>
    /\ net' = [net EXCEPT !.reads = @ \ {r}]
    /\ page' = [page EXCEPT !.first = r[1], !.loaded = TRUE,
                            !.total = IF page.paged THEN @ ELSE r[2],
                            !.knew = IF page.paged THEN @ ELSE r[3]]
    /\ UNCHANGED <<view, editVars, server, added, astray>>

\* The page keeps what it has.
FirstFails(r) ==
    /\ net' = [net EXCEPT !.reads = @ \ {r}]
    /\ UNCHANGED <<view, editVars, server, page, added, astray>>

\* As many rows are skipped as are on screen.  They are not the server's first
\* when a delete is unfinished or the first page is older than the server's.
ShowMore ==
    /\ CanMore /\ net.more.state = "none" /\ Len(page.extra) < MaxExtra
    /\ net' = [net EXCEPT !.more = [NoMore EXCEPT !.offset = Count, !.state = "sent"]]
    /\ astray' = (astray \/ net.deletes # {} \/ page.first # From(0))
    /\ UNCHANGED <<view, editVars, server, page, added>>

ServeMore ==
    /\ net.more.state = "sent"
    /\ net' = [net EXCEPT !.more.state = "ok", !.more.rows = From(net.more.offset),
                          !.more.total = Len(server), !.more.knew = added]
    /\ UNCHANGED <<view, editVars, server, page, added, astray>>

MoreLands ==
    /\ net.more.state = "ok"
    /\ page' = [page EXCEPT !.extra = @ \o net.more.rows, !.total = net.more.total,
                            !.knew = net.more.knew, !.paged = TRUE]
    /\ net' = [net EXCEPT !.more = NoMore]
    /\ UNCHANGED <<view, editVars, server, added, astray>>

MoreFails ==
    /\ net.more.state # "none"
    /\ net' = [net EXCEPT !.more = NoMore]
    /\ UNCHANGED <<view, editVars, server, page, added, astray>>

\* The first click on Delete reads the row again.
PressDelete(id) ==
    /\ id \in OnScreen /\ page.armed # id
    /\ page.deletes < MaxDeletes /\ Cardinality(net.rereads) + Cardinality(net.reads) < MaxAsked
    /\ net' = [net EXCEPT !.rereads = @ \union {id}]
    /\ UNCHANGED <<view, editVars, server, page, added, astray>>

\* Mutant: the extra rows stay as they were loaded.
PatchNoMore(p, id) == p
\* patchMore: the extra rows follow a delete.
PatchMore(p, id) == [p EXCEPT !.extra = Without(@, id)]

\* It arms if the row is there; else the list is read again.  A read that
\* fails arms nothing.
ArmLands(id) ==
    /\ IF id \in Members(server)
       THEN /\ page' = [page EXCEPT !.armed = id]
            /\ net' = [net EXCEPT !.rereads = @ \ {id}]
       ELSE /\ page' = PatchMore(page, id)
            /\ net' = [net EXCEPT !.rereads = @ \ {id}, !.reads = @ \union {<<>>}]
    /\ UNCHANGED <<view, editVars, server, added, astray>>

ArmFails(id) ==
    /\ net' = [net EXCEPT !.rereads = @ \ {id}]
    /\ UNCHANGED <<view, editVars, server, page, added, astray>>

\* Four seconds pass.
Disarm ==
    /\ page.armed # 0
    /\ page' = [page EXCEPT !.armed = 0]
    /\ UNCHANGED <<view, editVars, server, net, added, astray>>

ConfirmDelete ==
    /\ page.armed \in OnScreen /\ page.deletes < MaxDeletes
    /\ page' = [page EXCEPT !.armed = 0, !.deletes = @ + 1]
    /\ net' = [net EXCEPT !.deletes = @ \union {[id |-> page.armed, state |-> "sent"]}]
    /\ astray' = (astray \/ net.more.state # "none")
    /\ UNCHANGED <<view, editVars, server, added>>

\* A record that is not there is refused.
ServeDelete(d) ==
    /\ d.state = "sent"
    /\ \E k \in DOMAIN server : server[k] = d.id /\ server' = TakenOut(server, k)
    /\ net' = [net EXCEPT !.deletes = (@ \ {d}) \union {[d EXCEPT !.state = "ok"]}]
    /\ UNCHANGED <<view, editVars, page, added, astray>>

DeleteLands(d) ==
    /\ d.state = "ok"
    /\ page' = PatchMore(page, d.id)
    /\ net' = [net EXCEPT !.deletes = @ \ {d}, !.reads = @ \union {<<>>}]
    /\ UNCHANGED <<view, editVars, server, added, astray>>

\* Refused, or made and its answer lost: nothing on the page moves.
DeleteFails(d) ==
    /\ net' = [net EXCEPT !.deletes = @ \ {d}]
    /\ astray' = (astray \/ (d.state = "ok" /\ d.id \in Members(page.extra)))
    /\ UNCHANGED <<view, editVars, server, page, added>>

\* The rows Show more brought, and is bringing.
Paged == Members(page.extra) \union Members(net.more.rows)
\* A Show more in the air skips the row at k.
Skips(k) == net.more.state = "sent" /\ k <= net.more.offset
\* Ids are not used twice.
NewIds == Ids \ (1 .. Listed \union Members(server) \union Paged \union Members(page.first)
                \union {d.id : d \in net.deletes})

\* The tab's own Create card, or anyone, adds a record: at any place of the order.
OthersAdd(k, x) ==
    /\ view = "list" /\ writes < MaxWrites /\ x \in NewIds
    /\ writes' = writes + 1 /\ added' = added + 1
    /\ server' = PutIn(server, k, x)
    /\ astray' = (astray \/ \E j \in k .. Len(server) : server[j] \in Paged)
    /\ UNCHANGED <<view, value, shown, form, asked, page, net>>

OthersRemove(k) ==
    /\ view = "list" /\ writes < MaxWrites
    /\ writes' = writes + 1
    /\ server' = TakenOut(server, k)
    /\ astray' = (astray \/ Skips(k) \/ server[k] \in Paged)
    /\ UNCHANGED <<view, value, shown, form, asked, page, net, added>>

-----------------------------------------------------------------------------
EditLands(c) == DryLands(c) \/ RereadLands(c) \/ WriteLands(c)
EditServed(c) == ServeDry(c) \/ ServeReread(c) \/ CheckWrite(c) \/ CommitWrite(c)

RecordsNext ==
    \/ \E r \in Rows : StartEdit(r) \/ (\E v \in Vals : OthersWrite(r, v))
    \/ \E v \in Vals : Type(v)
    \/ CancelEdit \/ PressPreview \/ PressUpdate \/ ListRefreshes
    \/ \E c \in asked :
           \/ ServeDry(c) \/ ServeReread(c) \/ CheckWrite(c) \/ CommitWrite(c)
           \/ DryLands(c) \/ RereadLands(c) \/ WriteLands(c) \/ EditLost(c)
    \/ ReadFirst \/ (\E r \in net.reads : FirstLands(r) \/ FirstFails(r))
    \/ ShowMore \/ ServeMore \/ MoreLands \/ MoreFails
    \/ \E id \in Ids : PressDelete(id)
    \/ \E id \in net.rereads : ArmLands(id) \/ ArmFails(id)
    \/ Disarm \/ ConfirmDelete
    \/ \E d \in net.deletes : ServeDelete(d) \/ DeleteLands(d) \/ DeleteFails(d)
    \/ \E k \in 1 .. Len(server) + 1, x \in Ids : OthersAdd(k, x)
    \/ \E k \in 1 .. Len(server) : OthersRemove(k)

\* Every call is served, and every answer is handled.
RecordsFairness ==
    /\ WF_recordVars(\E c \in asked : EditServed(c))
    /\ WF_recordVars(\E c \in asked : EditLands(c))

RecordsSpec == RecordsInit /\ [][RecordsNext]_recordVars /\ RecordsFairness

-----------------------------------------------------------------------------
\* What the page, the server and the requests hold; what is armed, or being
\* deleted, was listed.
MaybeVal == Vals \union {NoVal}
RecordsTypeOK ==
    /\ view \in Views /\ writes \in Nat /\ added \in Nat /\ astray \in BOOLEAN
    /\ value \in [Rows -> MaybeVal] /\ shown \in [Rows -> MaybeVal]
    /\ form \in [row : Rows \union {NoRow}, text : MaybeVal, held : MaybeVal,
                 status : {"idle", "busy", "previewed", "applied"}, stale : BOOLEAN, edited : BOOLEAN]
    /\ asked \subseteq [kind : {"dry", "reread", "write"}, row : Rows, text : Vals, held : MaybeVal,
                       read : MaybeVal, state : {"sent", "ok", "refused", "checked"}, raced : BOOLEAN]
    /\ server \in Seq(Ids) /\ Cardinality(Members(server)) = Len(server)
    /\ page.first \in Seq(Ids) /\ page.extra \in Seq(Ids)
    /\ page.total \in Nat /\ page.armed \in Ids \union {0} /\ page.deletes \in Nat
    /\ net.rereads \subseteq Ids
    /\ net.deletes \subseteq [id : Ids, state : {"sent", "ok"}]
    /\ net.more.state \in {"none", "sent", "ok"}

\* An update overwrites only what was on screen when it was previewed, unless
\* another writer came between the server's own check and its write, which
\* are not atomic (SelfService.jsx 516-567, edit.go 632-639).
OverwritesOnlyWhatWasHeld ==
    [][ \A c \in asked : c.state = "checked" /\ c \notin asked'
            /\ [c EXCEPT !.state = "ok"] \in asked'
            => value[c.row] = c.held \/ c.raced ]_recordVars

\* An edit never stays busy, whatever was found when the row was read again.
EditSettles == []<>(form.status # "busy")

\* The rows a list shows are the server's first ones with no row left out among
\* them, whatever is deleted, and the button is there for those that follow
\* (SelfService.jsx 351-385).  It says so once no delete is unfinished and the
\* first page is as the server's, and not
\*   after a Show more was pressed with a delete unfinished or the first page
\*   old, or a delete confirmed with a Show more in the air (its offset counts
\*   rows that are gone, and the row that moved up is skipped for good);
\*   after others added a record before one that Show more brought, or removed
\*   one that it brought or skips;
\*   after the answer of a delete of such a row was lost;
\* and not of the button while the total on screen is older than a record added.
\* In those cases the claim of 351-352 does not hold of the code.
NothingOutOfReach ==
    /\ view = "list" /\ page.loaded /\ ~astray
    /\ net.deletes = {} /\ page.first = From(0)
    => /\ OnScreen \subseteq Members(server)
       /\ \A j \in DOMAIN server : server[j] \in OnScreen => \A i \in 1 .. j : server[i] \in OnScreen
       /\ page.knew = added => Members(server) \subseteq OnScreen \/ CanMore
=============================================================================
