------------------------------ MODULE AuditPages ------------------------------
(***************************************************************************)
(* The Audit tab (Audit.jsx, lib/auditChain.js).  The log is append-only    *)
(* and hashed as a chain, but the file may be replaced by another chain, a  *)
(* line of it may stop decoding, and a read of it may break off.            *)
(* The tab polls the newest page, joins pages asked for with Load older on  *)
(* in front of it, and says what the filter below does not reach.  Its      *)
(* second panel searches the portal's own activity; a behaviour follows one *)
(* of the two panels.                                                       *)
(***************************************************************************)
EXTENDS Naturals, Sequences, FiniteSets

CONSTANTS
    Cap,            \* auditLogReturnCap: the most entries in one answer
    MaxLog,         \* bound: entries in the log
    MaxTroubles,    \* bound: replaced logs, garbled lines and reads that broke off, in all
    Queries, NoQuery,   \* what the portal's activity is searched for; the empty search
    MaxPolls,       \* bound: polls in the air
    MaxSearches     \* bound: searches made

ASSUME AuditAssumption ==
    Cap \in Nat \ {0} /\ MaxLog \in Nat /\ MaxTroubles \in Nat /\ NoQuery \notin Queries

VARIABLES
    followed, \* the panel followed: "log" or "portal"
    log,      \* the server's chain: entry p was written in era log[p]
    era,      \* the era entries are written in now
    garbled,  \* the line of the log that does not decode, one at a time; 0 for none
    troubles, \* what befell the log
    polls,    \* answers to polls on their way
    data,     \* the newest page, as last polled
    failed,   \* the last poll failed
    due,      \* a poll was rendered whose effect has not run
    older,    \* the reducer of Load older: its generation and the joined view
    req,      \* the Load older in the air
    portal    \* the search panel

auditVars == <<followed, log, era, garbled, troubles, polls, data, failed, due, older, req, portal>>

NoAuditPage ==
    [first |-> 0, entries |-> <<>>, total |-> 0, cut |-> FALSE, skips |-> FALSE, verdict |-> "unverified"]
NothingPolled == [NoAuditPage EXCEPT !.total = MaxLog + 1]
NoView == [first |-> 0, entries |-> <<>>]
NoRequest == [state |-> "none", before |-> 0, gen |-> 0, base |-> NoAuditPage, page |-> NoAuditPage]

\* The era of an entry fixes all before it: at and era stand for its hash,
\* at - 1 and prev for its prev_hash.
Entry(p) == [at |-> p, era |-> log[p], prev |-> IF p = 1 THEN 0 ELSE log[p - 1]]
SameHash(e, d) == e.at = d.at /\ e.era = d.era
NamesAsPrevious(e, d) == e.at = d.at + 1 /\ e.prev = d.era

\* The lines that decode: how many, and where the i-th of them stands.
Decoded == IF garbled = 0 THEN Len(log) ELSE Len(log) - 1
Line(i) == IF garbled # 0 /\ i >= garbled THEN i + 1 ELSE i

\* The decoded entries after the first "first", up to "end".  skipped_lines
\* counts what did not decode before the read ended or broke off (read_error).
Answer(first, end, cut, verdict) ==
    [first |-> first, entries |-> [i \in 1 .. end - first |-> Entry(Line(first + i))],
     total |-> IF cut THEN end ELSE Decoded, cut |-> cut,
     skips |-> garbled # 0 /\ (cut => end >= garbled), verdict |-> verdict]

\* The page of at most Cap entries that ends with the decoded entry "end".
PageTo(end, verdict) == Answer(IF end > Cap THEN end - Cap ELSE 0, end, FALSE, verdict)

\* What Verify says of a log it could read.  The chain has its signatures and
\* its seal only while nobody replaced it.
Judged == IF garbled # 0 THEN "unverified" ELSE IF era = 1 THEN "intact" ELSE "tampered"

Truncated(d) == Len(d.entries) < d.total
End(span) == span.first + Len(span.entries)

AuditInit ==
    /\ followed \in {"log", "portal"}
    /\ log \in {[p \in 1 .. n |-> 1] : n \in IF followed = "log" THEN 0 .. MaxLog ELSE {0}}
    /\ era = 1 /\ garbled = 0 /\ troubles = 0 /\ polls = {} /\ data = NothingPolled /\ failed = FALSE /\ due = FALSE
    /\ older = [gen |-> 0, shown |-> FALSE, view |-> NoView]
    /\ req = NoRequest
    /\ portal = [last |-> NoQuery, air |-> {NoQuery}, rows |-> NoQuery, loaded |-> FALSE,
                 loading |-> TRUE, failed |-> FALSE, made |-> 0]

-----------------------------------------------------------------------------
(* Joining pages (auditChain.js).                                          *)

Agree(old, new) ==
    \A p \in new.first .. End(old) - 1 :
        SameHash(old.entries[p - old.first + 1], new.entries[p - new.first + 1])

\* Two pages that only touch must be linked by the hash chain.
Linked(old, new) ==
    new.first = End(old) /\ old.entries # <<>> /\ new.entries # <<>>
        => NamesAsPrevious(Head(new.entries), old.entries[Len(old.entries)])

\* Mutant: older entries are joined without comparing digests.
JoinsUnlinked(old, new) ==
    /\ new.first >= old.first /\ new.first <= End(old) /\ End(new) >= End(old)
    /\ Agree(old, new)

\* Older and newer entries are one log only if they agree and are linked.
Joins(old, new) ==
    /\ new.first >= old.first /\ new.first <= End(old) /\ End(new) >= End(old)
    /\ Agree(old, new) /\ Linked(old, new)

Joined(old, new) ==
    [first |-> old.first,
     entries |-> SubSeq(old.entries, 1, new.first - old.first) \o new.entries]

Page(d) == [first |-> d.first, entries |-> d.entries]

\* The reducer's two actions.
AfterPoll(o, d) ==
    IF ~o.shown THEN o
    ELSE IF Joins(o.view, Page(d)) THEN [o EXCEPT !.view = Joined(o.view, Page(d))]
    ELSE [gen |-> o.gen + 1, shown |-> FALSE, view |-> NoView]

AfterOlder(o, r, latest) ==
    LET base == IF o.shown THEN o.view ELSE Page(r.base)
        got == Page(r.page)
        both == Joined(got, base)
    IN  IF /\ r.gen = o.gen /\ End(got) = base.first
           /\ Joins(got, base) /\ Joins(both, Page(latest))
        THEN [o EXCEPT !.shown = TRUE, !.view = Joined(both, Page(latest))]
        ELSE o

-----------------------------------------------------------------------------
(* What is on screen.                                                      *)

Loaded == data # NothingPolled

\* The view may lag the newest poll by a render, so it is joined here too.
Raw == IF older.shown /\ Joins(older.view, Page(data)) THEN Joined(older.view, Page(data))
       ELSE Page(data)

Cursor == IF older.shown THEN older.view.first ELSE data.first
CanLoadOlder == Loaded /\ Truncated(data) /\ Cursor > 0

\* Activity Summary counts what is held, kind by kind.
Recorded == Len(Raw.entries)

\* truncationNote, and the words under a filter that matched nothing: silent
\* once every entry is held.
HeldAll == ~Truncated(data) \/ Recorded >= data.total

\* ChainVerdict: what is said of the log above the rows.
ChainVerdict ==
    IF failed THEN "unverified"
    ELSE IF ~Loaded THEN "none"
    ELSE data.verdict

\* The table, before its filter.
Showing ==
    IF failed THEN "unavailable"
    ELSE IF ~Loaded THEN "loading"
    ELSE IF Raw.entries = <<>> THEN "empty" ELSE "rows"

-----------------------------------------------------------------------------
(* The server's log.                                                       *)

Troubled == troubles < MaxTroubles /\ troubles' = troubles + 1

\* Append refuses to extend a log it cannot read whole.
Append1 ==
    /\ followed = "log" /\ garbled = 0 /\ Len(log) < MaxLog
    /\ log' = Append(log, era)
    /\ UNCHANGED <<followed, era, garbled, troubles, polls, data, failed, due, older, req, portal>>

\* The file is replaced by another chain that shares its first k entries.
Replaced(k) ==
    /\ followed = "log" /\ Troubled
    /\ log' = SubSeq(log, 1, k) /\ era' = era + 1 /\ garbled' = 0
    /\ UNCHANGED <<followed, polls, data, failed, due, older, req, portal>>

\* A line is damaged on disk, and put right again.
Garbles(p) ==
    /\ followed = "log" /\ garbled = 0 /\ garbled' = p /\ Troubled
    /\ UNCHANGED <<followed, log, era, polls, data, failed, due, older, req, portal>>

Mended ==
    /\ garbled # 0 /\ garbled' = 0
    /\ UNCHANGED <<followed, log, era, troubles, polls, data, failed, due, older, req, portal>>

-----------------------------------------------------------------------------
(* The poll, every thirty seconds, and Load older.                         *)

\* The entries are read first and Verify reads the log again: either read may
\* break off, the first after m entries.
TroubledAnswers ==
    {PageTo(Decoded, "unverified")} \union
    UNION {{Answer(0, m, TRUE, Judged), Answer(0, m, TRUE, "unverified")} : m \in 0 .. Decoded}

\* Two polls may be out together, and land in either order.
PollServed ==
    /\ followed = "log" /\ Cardinality(polls) < MaxPolls
    /\ \/ polls' = polls \union {PageTo(Decoded, Judged)} /\ UNCHANGED troubles
       \/ Troubled /\ \E d \in TroubledAnswers : polls' = polls \union {d}
    /\ UNCHANGED <<followed, log, era, garbled, data, failed, due, older, req, portal>>

\* The effect of an earlier poll has run before a later one is rendered.
PollLands(d) ==
    /\ ~due
    /\ polls' = polls \ {d}
    /\ data' = d /\ failed' = FALSE /\ due' = (data # d)
    /\ UNCHANGED <<followed, log, era, garbled, troubles, older, req, portal>>

PollFails ==
    /\ followed = "log" /\ ~failed
    /\ failed' = TRUE
    /\ UNCHANGED <<followed, log, era, garbled, troubles, polls, data, due, older, req, portal>>

EffectRuns ==
    /\ due
    /\ due' = FALSE /\ older' = AfterPoll(older, data)
    /\ UNCHANGED <<followed, log, era, garbled, troubles, polls, data, failed, req, portal>>

\* The button: absent when there is nothing older, idle while it loads.
Pressable == CanLoadOlder /\ req.state = "none"

LoadOlder ==
    /\ Pressable
    /\ req' = [state |-> "sent", before |-> Cursor, gen |-> older.gen,
               base |-> data, page |-> NoAuditPage]
    /\ UNCHANGED <<followed, log, era, garbled, troubles, polls, data, failed, due, older, portal>>

\* A position past the end is refused, but a read that broke off answers with
\* all it managed wherever it was asked to end.  Nobody reads its verdict.
ServeOlder ==
    /\ req.state = "sent"
    /\ \/ /\ req' = IF req.before > Decoded THEN [req EXCEPT !.state = "failed"]
                    ELSE [req EXCEPT !.state = "ok", !.page = PageTo(req.before, "unverified")]
          /\ UNCHANGED troubles
       \/ /\ Troubled
          /\ \E m \in 0 .. Decoded :
                 req' = [req EXCEPT !.state = "ok", !.page = Answer(0, m, TRUE, "unverified")]
    /\ UNCHANGED <<followed, log, era, garbled, polls, data, failed, due, older, portal>>

OlderLands ==
    /\ req.state = "ok"
    /\ older' = AfterOlder(older, req, data)
    /\ req' = NoRequest
    /\ UNCHANGED <<followed, log, era, garbled, troubles, polls, data, failed, due, portal>>

OlderFails ==
    /\ req.state \in {"sent", "failed"}
    /\ req' = NoRequest
    /\ UNCHANGED <<followed, log, era, garbled, troubles, polls, data, failed, due, older, portal>>

-----------------------------------------------------------------------------
(* The portal's activity: every search is its own request, none numbered.   *)

RunSearch(q) ==
    /\ followed = "portal" /\ portal.made < MaxSearches
    /\ portal' = [portal EXCEPT !.last = q, !.air = @ \union {q}, !.loading = TRUE,
                      !.failed = FALSE, !.made = @ + 1]
    /\ UNCHANGED <<followed, log, era, garbled, troubles, polls, data, failed, due, older, req>>

\* An answer is shown, whatever the box was searched for since.
SearchLands(q) ==
    /\ followed = "portal" /\ q \in portal.air
    /\ portal' = [portal EXCEPT !.air = @ \ {q}, !.rows = q, !.loaded = TRUE, !.loading = FALSE]
    /\ UNCHANGED <<followed, log, era, garbled, troubles, polls, data, failed, due, older, req>>

SearchFails(q) ==
    /\ followed = "portal" /\ q \in portal.air
    /\ portal' = [portal EXCEPT !.air = @ \ {q}, !.failed = TRUE, !.loading = FALSE]
    /\ UNCHANGED <<followed, log, era, garbled, troubles, polls, data, failed, due, older, req>>

PortalShows ==
    IF portal.loading THEN "loading"
    ELSE IF portal.failed THEN "unavailable"
    ELSE IF portal.loaded THEN "rows" ELSE "empty"

-----------------------------------------------------------------------------
AuditNext ==
    \/ Append1 \/ \E k \in 0 .. MaxLog : k < Len(log) /\ Replaced(k)
    \/ \E p \in 1 .. MaxLog : p <= Len(log) /\ Garbles(p)
    \/ Mended
    \/ PollServed \/ PollFails \/ \E d \in polls : PollLands(d)
    \/ EffectRuns \/ LoadOlder \/ ServeOlder \/ OlderLands \/ OlderFails
    \/ \E q \in Queries \union {NoQuery} : RunSearch(q) \/ SearchLands(q) \/ SearchFails(q)

AuditSpec == AuditInit /\ [][AuditNext]_auditVars

-----------------------------------------------------------------------------
\* What the server and the two panels hold.
Entries == [at : Nat \ {0}, era : Nat \ {0}, prev : Nat]
AuditViews == [first : Nat, entries : Seq(Entries)]
AuditVerdicts == {"intact", "tampered", "unverified"}
AuditAnswers ==
    [first : Nat, entries : Seq(Entries), total : Nat, cut : BOOLEAN, skips : BOOLEAN,
     verdict : AuditVerdicts]
AnyQuery == Queries \union {NoQuery}
AuditJoins == [gen : Nat, shown : BOOLEAN, view : AuditViews]
AuditRequests ==
    [state : {"none", "sent", "ok", "failed"}, before : Nat, gen : Nat,
     base : AuditAnswers, page : AuditAnswers]
AuditSearches ==
    [last : AnyQuery, air : SUBSET AnyQuery, rows : AnyQuery, loaded : BOOLEAN,
     loading : BOOLEAN, failed : BOOLEAN, made : Nat]
AuditTypeOK ==
    /\ followed \in {"log", "portal"} /\ era \in Nat \ {0} /\ log \in Seq(1 .. era)
    /\ garbled \in 0 .. Len(log) /\ troubles \in Nat
    /\ polls \subseteq AuditAnswers /\ data \in AuditAnswers /\ failed \in BOOLEAN /\ due \in BOOLEAN
    /\ older \in AuditJoins /\ req \in AuditRequests /\ req.gen <= older.gen
    /\ portal \in AuditSearches

\* What is on screen is one run of one chain, and no more is claimed of it
\* than is true: each row is linked to the one before, unless the tab says that
\* lines could not be decoded; where nothing is said of older entries the rows
\* are all that was decoded; where entries are missing they can be asked for,
\* but for the one render before a view that no longer joins is dropped; and a
\* chain called intact has no row of another and no hole (auditChain.js 173-183,
\* 252-261).
OneLogNoHole ==
    /\ AuditTypeOK
    /\ Showing = "empty" => data.total = 0
    /\ Showing = "rows" =>
        /\ data.skips \/ \A i \in 2 .. Recorded : NamesAsPrevious(Raw.entries[i], Raw.entries[i - 1])
        /\ HeldAll => Recorded = data.total
        /\ ~HeldAll /\ ~due => CanLoadOlder
        /\ ChainVerdict = "intact" => ~data.skips /\ \A i \in 1 .. Recorded : Raw.entries[i].era = 1

\* The rows of the portal's activity are those of the search that was made
\* last.  False: Audit.jsx 608-620 keeps whichever answers last.
PortalRowsAreOfTheLastSearch ==
    PortalShows = "rows" => portal.rows = portal.last
=============================================================================
