------------------------------- MODULE Layout -------------------------------
(***************************************************************************)
(* A tab's panels (components/ui.jsx CardGrid, Card and ArrangeDialog,     *)
(* lib/layout.js): their saved order, widths and hidden tiles, the         *)
(* gestures that change them, the saves in the air, and how the rows of    *)
(* the grid are filled.  Pixels are counted in units of half a track.      *)
(***************************************************************************)
EXTENDS Naturals, FiniteSets, Sequences

CONSTANTS
    Kids,        \* the panels the tab declares, in order
    Optional,    \* the panels that come and go with the data
    Sizable,     \* bound: the panels whose width is changed
    Declared,    \* [Panels -> 1..6]: the span a panel's own classes give it
    Need,        \* [Panels -> Nat]: the width its table needs, 0 without a table
    TrackCounts, \* the grid's track counts at the window's widths
    Doings,      \* bound: the gestures and events one behaviour follows, a set each
    MaxSaves,    \* bound: saves sent
    MaxArrows    \* bound: arrow presses in one keyboard move

Panels == {Kids[i] : i \in DOMAIN Kids}

ASSUME LayoutAssumption == Optional \subseteq Panels /\ Sizable \subseteq Panels

VARIABLES
    doing,     \* the gestures and events this behaviour follows
    present,   \* the panels the tab renders now
    scr,       \* CardGrid's layout state
    move,      \* keyboard move mode, with what Escape restores
    hold,      \* a pointer gesture under way, with what it read at its start
    load,      \* the saved layout's two reads
    saves,     \* saves in the air
    seq,       \* saveSeqRef
    pill,      \* the save's verdict on screen
    tracks,    \* the grid's track count
    srv,       \* the server's stored view
    past       \* history: the newest save's outcome; whether the screen is known to be
               \* stored; whether the layout landed in the gesture under way

lvars == <<doing, present, scr, move, hold, load, saves, seq, pill, tracks, srv, past>>

NoPanel == "none"
Unsaved == [order |-> << >>, spans |-> << >>, hidden |-> {}]
Idle == [on |-> NoPanel, pre |-> Unsaved, arrows |-> 0]
NoHold == [kind |-> "none", on |-> NoPanel, slots |-> 0, tracks |-> 0, spans |-> << >>, hidden |-> {}]

LayoutInit ==
    /\ doing \in Doings
    /\ present \in IF "data" \in doing THEN {Panels, Panels \ Optional} ELSE {Panels}
    /\ scr = Unsaved /\ move = Idle /\ hold = NoHold
    /\ load = [at |-> IF "load" \in doing THEN "list" ELSE "done", ans |-> Unsaved]
    /\ saves = {} /\ seq = 0
    /\ pill = "none"
    /\ tracks \in IF "window" \in doing THEN TrackCounts
                 ELSE {CHOOSE n \in TrackCounts : \A m \in TrackCounts : m <= n}
    /\ srv = IF "load" \in doing THEN [order |-> Kids, spans |-> [p \in Sizable |-> 2], hidden |-> Optional]
             ELSE Unsaved
    /\ past = [outcome |-> "none", sure |-> srv = scr, landed |-> FALSE]

-----------------------------------------------------------------------------
(* The order and the widths on screen.                                     *)

IndexIn(s, x) == CHOOSE i \in DOMAIN s : s[i] = x
Among(s, x) == \E i \in DOMAIN s : s[i] = x

\* sortByOrder: named panels by their rank, the others after them as declared.
Before(order, p, q) ==
    IF Among(order, p) /\ Among(order, q) THEN IndexIn(order, p) < IndexIn(order, q)
    ELSE IF Among(order, p) \/ Among(order, q) THEN Among(order, p)
    ELSE IndexIn(Kids, p) < IndexIn(Kids, q)

SortByOrder(S, order) ==
    [i \in 1..Cardinality(S) |->
        CHOOSE p \in S : Cardinality({q \in S : Before(order, q, p)}) = i - 1]

\* A hidden tile renders nothing; the document has the rest, in order.
PanelItems == SortByOrder(present \ scr.hidden, scr.order)
Visible == present \ scr.hidden
Reorderable == Cardinality(Visible) >= 2

\* Mutant: the hidden panels are those the page does not show.
SnapshotOffTheDom == [order |-> PanelItems, spans |-> scr.spans, hidden |-> {}]

\* snapshot(): the order as it is on screen, the rest from the state it closes
\* over: that of the render, or, in a pointer's gesture, of the press.
Snapshot == [order |-> PanelItems, spans |-> scr.spans, hidden |-> scr.hidden]
SnapshotOfThePress == [order |-> PanelItems, spans |-> hold.spans, hidden |-> hold.hidden]

\* moveItem and shiftItem.
Without(s, i) == SubSeq(s, 1, i - 1) \o SubSeq(s, i + 1, Len(s))
InsertedAt(s, x, k) == SubSeq(s, 1, k) \o <<x>> \o SubSeq(s, k + 1, Len(s))
Least(a, b) == IF a < b THEN a ELSE b

MoveItem(order, p, slot) ==
    IF ~Among(order, p) THEN order
    ELSE LET from == IndexIn(order, p)
             at == IF slot >= from THEN slot - 1 ELSE slot
         IN  InsertedAt(Without(order, from), p, Least(at, Len(order) - 1))

ShiftItem(order, p, right) ==
    LET from == IndexIn(order, p)
        to == IF right THEN Least(from + 1, Len(order)) ELSE IF from = 1 THEN 1 ELSE from - 1
    IN  IF ~Among(order, p) THEN order ELSE InsertedAt(Without(order, from), p, to - 1)

ClampSpan(s, n) == IF s < 1 THEN 1 ELSE Least(s, n)
WidthOf(s) == 3 * s - 1

\* resolveSpan: what the operator chose, then what the table needs, then the class.
SpanFor(need, n) == CHOOSE s \in 1..n : /\ s = n \/ WidthOf(s) >= need
                                        /\ \A r \in 1..(s - 1) : WidthOf(r) < need
Sized(p) == p \in DOMAIN scr.spans
ResolveSpan(p, n) ==
    ClampSpan(IF Sized(p) THEN scr.spans[p]
              ELSE IF Need[p] > 0 THEN SpanFor(Need[p], n) ELSE Declared[p], n)

\* fillRows: items in reading order; a row closes when the next does not fit.
RowStarts(spans, n) ==
    LET used[i \in 1..Len(spans)] ==
            IF i = 1 THEN spans[1]
            ELSE IF used[i - 1] + spans[i] > n THEN spans[i] ELSE used[i - 1] + spans[i]
    IN  {i \in 1..Len(spans) : i = 1 \/ used[i - 1] + spans[i] > n}

RowOf(starts, len, i) ==
    LET from == CHOOSE s \in starts : s <= i /\ \A r \in starts : r <= i => r <= s
    IN  {j \in from..len : \A s \in starts : s <= from \/ j < s}

RECURSIVE SumOver(_, _)
SumOver(spans, S) ==
    IF S = {} THEN 0 ELSE LET i == CHOOSE x \in S : TRUE IN spans[i] + SumOver(spans, S \ {i})

\* Who is owed the next track: a panel without a table, then the tightest table.
Tighter(items, spans, i, j) ==
    LET free(k) == Need[items[k]] = 0
        full(k) == Least(Need[items[k]], WidthOf(spans[k]))
        a == full(i) * WidthOf(spans[j])
        b == full(j) * WidthOf(spans[i])
    IN  IF free(i) # free(j) THEN free(i)
        ELSE IF ~free(i) /\ a # b THEN a > b
        ELSE IF spans[i] # spans[j] THEN spans[i] < spans[j] ELSE i < j

RECURSIVE CloseRow(_, _, _, _)
CloseRow(items, spans, growable, left) ==
    IF left = 0 \/ growable = {} THEN spans
    ELSE LET best == CHOOSE i \in growable :
                         \A j \in growable \ {i} : Tighter(items, spans, i, j)
         IN  CloseRow(items, [spans EXCEPT ![best] = @ + 1], growable, left - 1)

RECURSIVE CloseRows(_, _, _, _)
CloseRows(items, spans, rowSets, n) ==
    IF rowSets = {} THEN spans
    ELSE LET row == CHOOSE r \in rowSets : TRUE
         IN  CloseRows(items,
                       CloseRow(items, spans, {i \in row : ~Sized(items[i])}, n - SumOver(spans, row)),
                       rowSets \ {row}, n)

Plan(items, n) == [i \in 1..Len(items) |-> ResolveSpan(items[i], n)]
Rows(spans, n) ==
    LET starts == RowStarts(spans, n) IN {RowOf(starts, Len(spans), i) : i \in 1..Len(spans)}

\* Mutant: the last row keeps its gap.
FillAllButTheLastRow(items, n) ==
    LET plan == Plan(items, n)
    IN  CloseRows(items, plan, {r \in Rows(plan, n) : Len(items) \notin r}, n)

\* Every row, the last too, is filled to the edge.
FillRows(items, n) ==
    LET plan == Plan(items, n) IN CloseRows(items, plan, Rows(plan, n), n)

\* The span a panel has on screen.
LiveSpan(p) ==
    IF Sized(p) THEN scr.spans[p] ELSE FillRows(PanelItems, tracks)[IndexIn(PanelItems, p)]

-----------------------------------------------------------------------------
(* The wire: loadLayout's two reads, saveLayout's POST.                    *)

ServeList ==
    /\ load.at = "list"
    /\ load' = [load EXCEPT !.at = IF srv = Unsaved THEN "done" ELSE "read"]
    /\ UNCHANGED <<present, scr, move, hold, saves, seq, pill, tracks, srv, past>>

ServeRead ==
    /\ load.at = "read"
    /\ load' \in {[at |-> "done", ans |-> Unsaved], [at |-> "landing", ans |-> srv]}
    /\ UNCHANGED <<present, scr, move, hold, saves, seq, pill, tracks, srv, past>>

\* The layout lands on whatever has been done since.
LoadLands ==
    /\ load.at = "landing"
    /\ scr' = load.ans
    /\ load' = [at |-> "done", ans |-> Unsaved]
    /\ past' = [past EXCEPT !.sure = saves = {} /\ load.ans = srv, !.landed = TRUE]
    /\ UNCHANGED <<present, move, hold, saves, seq, pill, tracks, srv>>

ServeSave(s) ==
    /\ s.at = "sent"
    /\ \E ok \in BOOLEAN :
           /\ srv' = IF ok THEN s.blob ELSE srv
           /\ saves' = (saves \ {s}) \union {[s EXCEPT !.at = IF ok THEN "stored" ELSE "refused"]}
    /\ UNCHANGED <<present, scr, move, hold, load, seq, pill, tracks, past>>

\* A verdict lands; only the newest save's is shown.  An answer may be lost.
Outcome(s, lost) == IF s.at = "stored" /\ ~lost THEN "ok" ELSE "fail"

\* Mutant: a save answers for the page though a newer one was sent.
VerdictLandsAnyOrder(s) ==
    \E lost \in BOOLEAN :
        /\ saves' = saves \ {s}
        /\ pill' = Outcome(s, lost)
        /\ past' = IF s.seq # seq THEN past
                   ELSE [past EXCEPT !.outcome = Outcome(s, lost), !.sure = @ /\ Outcome(s, lost) = "ok"]
        /\ UNCHANGED <<present, scr, move, hold, load, seq, tracks, srv>>

VerdictLands(s) ==
    \E lost \in BOOLEAN :
        /\ saves' = saves \ {s}
        /\ pill' = IF s.seq = seq THEN Outcome(s, lost) ELSE pill
        /\ past' = IF s.seq # seq THEN past
                   ELSE [past EXCEPT !.outcome = Outcome(s, lost), !.sure = @ /\ Outcome(s, lost) = "ok"]
        /\ UNCHANGED <<present, scr, move, hold, load, seq, tracks, srv>>

SaveAnswered(s) == s.at # "sent" /\ VerdictLands(s)

\* ctx.apply with save: the screen at once, then the POST.
Apply(next) ==
    /\ seq < MaxSaves
    /\ scr' = next
    /\ seq' = seq + 1
    /\ saves' = saves \union {[seq |-> seq + 1, blob |-> next, at |-> "sent"]}
    /\ past' = [past EXCEPT !.outcome = "none", !.sure = saves = {}]
    /\ UNCHANGED <<load, pill, tracks, srv>>

-----------------------------------------------------------------------------
(* Gestures.  A press elsewhere blurs the handle, which ends a keyboard    *)
(* move first.  A pointer's listeners close over the grid of the press; a  *)
(* panel that leaves the page takes them with it.                          *)

Free == move = Idle /\ hold = NoHold

WithSpan(spans, p, n) == [x \in DOMAIN spans \union {p} |-> IF x = p THEN n ELSE spans[x]]

Press(kind, p, slots, n) ==
    /\ Free /\ p \in Visible
    /\ hold' = [kind |-> kind, on |-> p, slots |-> slots, tracks |-> n,
                spans |-> scr.spans, hidden |-> scr.hidden]
    /\ past' = [past EXCEPT !.landed = FALSE]
    /\ UNCHANGED <<present, scr, move, load, saves, seq, pill, tracks, srv>>
Released(kind) == hold.kind = kind /\ hold.on \in Visible /\ hold' = NoHold

\* The right edge: the track count is read as the gesture starts.
ResizeDown(p) == p \in Sizable /\ Press("resize", p, 0, tracks)

ResizeUp(n) ==
    /\ Released("resize") /\ n <= hold.tracks
    /\ Apply([SnapshotOfThePress EXCEPT !.spans = WithSpan(hold.spans, hold.on, n)])
    /\ UNCHANGED <<present, move>>

\* The handle: the rows are read at the start.
DragStarts(p) == Reorderable /\ Press("drag", p, Len(PanelItems), 0)

Drop(slot) ==
    /\ Released("drag") /\ slot <= hold.slots
    /\ Apply([SnapshotOfThePress EXCEPT !.order = MoveItem(PanelItems, hold.on, slot)])
    /\ UNCHANGED <<present, move>>

\* A row of the Arrange window: the rows are read again at every move, and a
\* drop that moves nothing saves nothing.
RowDragStarts(p) == Reorderable /\ Press("row", p, 0, 0)

DropRow(slot) ==
    LET next == MoveItem(PanelItems, hold.on, slot)
    IN  /\ Released("row") /\ slot <= Len(PanelItems)
        /\ IF next = PanelItems THEN UNCHANGED <<scr, load, saves, seq, pill, tracks, srv, past>>
           ELSE Apply([SnapshotOfThePress EXCEPT !.order = next])
        /\ UNCHANGED <<present, move>>

\* Escape, or the pointer is taken away.
LetGo ==
    /\ hold # NoHold
    /\ hold' = NoHold
    /\ UNCHANGED <<present, scr, move, load, saves, seq, pill, tracks, srv, past>>

\* The Arrange window's buttons, and a panel's own "Take off the page".
MovePanel(p, right) ==
    /\ Free /\ p \in Visible /\ ShiftItem(PanelItems, p, right) # PanelItems
    /\ Apply([Snapshot EXCEPT !.order = ShiftItem(PanelItems, p, right)])
    /\ UNCHANGED <<present, move, hold>>

TakeOffPage(p) ==
    /\ Free /\ p \in Visible
    /\ Apply([Snapshot EXCEPT !.hidden = @ \union {p}])
    /\ UNCHANGED <<present, move, hold>>

ShowTile(p) ==
    /\ Free /\ p \in scr.hidden \intersect present
    /\ Apply([Snapshot EXCEPT !.hidden = @ \ {p}])
    /\ UNCHANGED <<present, move, hold>>

BeginMove(p) ==
    /\ Free /\ Reorderable /\ p \in Visible
    /\ move' = [on |-> p, pre |-> Snapshot, arrows |-> 0]
    /\ past' = [past EXCEPT !.landed = FALSE]
    /\ UNCHANGED <<present, scr, hold, load, saves, seq, pill, tracks, srv>>

\* Arrow keys: on screen only, nothing is sent.
Preview(next) ==
    /\ move.on \in Visible /\ move.arrows < MaxArrows
    /\ scr' = next
    /\ move' = [move EXCEPT !.arrows = @ + 1]
    /\ UNCHANGED <<present, hold, load, saves, seq, pill, tracks, srv, past>>

ArrowMove(right) == Preview([Snapshot EXCEPT !.order = ShiftItem(PanelItems, move.on, right)])

\* stepSpan: the stored range, not the tracks there are.
ArrowSize(wider) ==
    /\ move.on \in Sizable
    /\ Preview([Snapshot EXCEPT !.spans = WithSpan(scr.spans, move.on,
            ClampSpan(IF wider THEN LiveSpan(move.on) + 1 ELSE LiveSpan(move.on) - 1, 6))])

EnterMove ==
    /\ move.on \in Visible
    /\ Apply(Snapshot)
    /\ move' = Idle
    /\ UNCHANGED <<present, hold>>

\* Escape, a real blur, or nothing left to move past.
CancelMove ==
    /\ move # Idle
    /\ scr' = move.pre
    /\ move' = Idle
    /\ past' = [past EXCEPT !.sure = @ /\ ~past.landed]
    /\ UNCHANGED <<present, hold, load, saves, seq, pill, tracks, srv>>

-----------------------------------------------------------------------------
(* The world.                                                              *)

DataChanges ==
    /\ present' \in {Panels, Panels \ Optional} \ {present}
    /\ UNCHANGED <<scr, move, hold, load, saves, seq, pill, tracks, srv, past>>

WindowResizes ==
    /\ tracks' \in TrackCounts \ {tracks}
    /\ UNCHANGED <<present, scr, move, hold, load, saves, seq, pill, srv, past>>

LayoutStep ==
    \/ ServeList \/ ServeRead \/ LoadLands
    \/ \E s \in saves : ServeSave(s) \/ SaveAnswered(s)
    \/ LetGo
    \/ \E p \in Panels :
           \/ "resize" \in doing /\ ResizeDown(p)
           \/ "drag" \in doing /\ DragStarts(p)
           \/ "hide" \in doing /\ (TakeOffPage(p) \/ ShowTile(p))
           \/ doing \intersect {"keymove", "keysize"} # {} /\ BeginMove(p)
           \/ "list" \in doing /\ (RowDragStarts(p) \/ \E right \in BOOLEAN : MovePanel(p, right))
    \/ \E n \in 1..6 : ResizeUp(n)
    \/ \E slot \in 0..Len(Kids) : Drop(slot) \/ DropRow(slot)
    \/ "keymove" \in doing /\ \E right \in BOOLEAN : ArrowMove(right)
    \/ "keysize" \in doing /\ \E wider \in BOOLEAN : ArrowSize(wider)
    \/ EnterMove \/ CancelMove
    \/ "data" \in doing /\ DataChanges
    \/ "window" \in doing /\ WindowResizes

LayoutNext == LayoutStep /\ UNCHANGED doing

LayoutSpec == LayoutInit /\ [][LayoutNext]_lvars

-----------------------------------------------------------------------------
\* What the screen, the gestures, the server and the requests hold.
StoredSpans == 1 .. 6
IsLayout(l) ==
    /\ l.order \in Seq(Panels) /\ l.hidden \subseteq Panels
    /\ DOMAIN l.spans \subseteq Sizable /\ \A p \in DOMAIN l.spans : l.spans[p] \in StoredSpans
LayoutTypeOK ==
    /\ doing \in Doings /\ present \subseteq Panels /\ tracks \in TrackCounts /\ seq \in Nat
    /\ IsLayout(scr) /\ IsLayout(srv) /\ IsLayout(load.ans) /\ IsLayout(move.pre)
    /\ load.at \in {"list", "read", "landing", "done"}
    /\ move.on \in Panels \union {NoPanel} /\ move.arrows \in Nat
    /\ hold.kind \in {"none", "resize", "drag", "row"} /\ hold.on \in Panels \union {NoPanel}
    /\ hold.slots \in Nat /\ hold.tracks \in Nat
    /\ IsLayout([order |-> << >>, spans |-> hold.spans, hidden |-> hold.hidden])
    /\ \A s \in saves : /\ s.seq \in 1 .. seq /\ IsLayout(s.blob)
                         /\ s.at \in {"sent", "stored", "refused"}
    /\ pill \in {"none", "ok", "fail"}
    /\ past \in [outcome : {"none", "ok", "fail"}, sure : BOOLEAN, landed : BOOLEAN]

\* A verdict on screen is the newest save's own: "Saved" never stands over a
\* rejected later save (ui.jsx 728-756).
VerdictIsOfTheNewestSave ==
    (\A s \in saves : s.seq # seq) /\ pill # "none" => pill = past.outcome

\* A tile taken off the page stays off, through every later gesture, until it
\* is put back (ui.jsx 696-700).  The saved layout says itself which tiles are
\* off when it lands.  Two exceptions, both of a gesture under way as it lands:
\* a pointer's, which ends with the tiles and widths of its press, and saves
\* them over those that landed; and a keyboard's move that is given up, which
\* puts back what it began with.
PutBack(p) == p \in present /\ hold = NoHold /\ move = Idle /\ scr'.hidden = scr.hidden \ {p}
OnlyPutBackShows ==
    [][ \A p \in scr.hidden \ scr'.hidden :
            \/ PutBack(p) \/ load.at = "landing"
            \/ past.landed /\ (hold # NoHold \/ move # Idle)
      ]_lvars

\* With no save in the air and no move under way, the screen is what a reload
\* would show, though moves were begun and given up since (ui.jsx 765-777),
\* when the newest save is known to be stored or the saved layout has landed.
\* Exceptions: the newest save was sent while another was in the air, which
\* the server may take first; the layout that landed had been read before a
\* save, and stands on screen for it; the layout landed in a move that was
\* given up, and is gone from the screen though the server holds it.
ScreenIsWhatIsSaved ==
    saves = {} /\ past.sure /\ move = Idle
        => LET S == {p \in Visible : Among(scr.order, p)}
           IN  /\ SortByOrder(S, scr.order) = SortByOrder(S, srv.order)
               /\ scr.spans = srv.spans /\ scr.hidden = srv.hidden

\* Every row with a panel the operator has not sized ends at the grid's edge,
\* the sized ones keep their width, and no panel changes its row (layout.js
\* 189-242).
RowsEndFlush ==
    LET items == PanelItems
        plan == Plan(items, tracks)
        filled == FillRows(items, tracks)
        planned == Rows(plan, tracks)
    IN  /\ \A row \in planned :
               \/ SumOver(filled, row) = tracks
               \/ \A i \in row : Sized(items[i])
        /\ \A i \in DOMAIN filled : /\ filled[i] >= plan[i]
                                    /\ Sized(items[i]) => filled[i] = plan[i]
        /\ Rows(filled, tracks) = planned
=============================================================================
