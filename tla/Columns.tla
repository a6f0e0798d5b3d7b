------------------------------- MODULE Columns -------------------------------
(***************************************************************************)
(* The shared table (DataTable.jsx): the columns it keeps, the widths its  *)
(* measure() gives them, and when it measures again.  Widths are whole     *)
(* pixels; the fractions between them are exact here, floats in the code.  *)
(* measure() runs in a layout effect after every render of the table, and  *)
(* in the frame after a ResizeObserver saw its box change.                 *)
(***************************************************************************)
EXTENDS Integers, Sequences, FiniteSetsExt
LOCAL INSTANCE TLC   \* SortSeq, @@

CONSTANTS
    Cols,       \* the columns declared, in order: [kind, grow, keep, constant, right, head, cap, wide]
    Tables,     \* the rows that may arrive: sequences of rows, one cell a column: the width its
                \* text takes, which tells it from others, or 0 for none
    RowCap,     \* rows painted (rowCap, limit)
    BoxWidths,  \* the widths the box may have
    ShrinkFloor,  \* what a column is not shrunk below: floorFor
    MeasureBuffer \* pixels a column is given beyond its text: MEASURE_BUFFER

ASSUME ColumnsAssumption ==
    /\ \A i \in DOMAIN Cols : Cols[i].kind \in {"fixed", "render", "capped", "badge", "mono", "text"}
    /\ RowCap \in Nat \ {0} /\ ShrinkFloor \in Nat \ {0} /\ BoxWidths \subseteq Nat
    /\ MeasureBuffer \in Nat

VARIABLES
    rows,      \* the rows given
    sorting,   \* the order asked for, by the first column
    box,       \* the box's width
    painted,   \* colWidths: widths and clip marks (and prevWidthsRef)
    watched,   \* the resize observer watches the box on screen
    frame      \* a measurement waits for the next frame

columnVars == <<rows, sorting, box, painted, watched, frame>>

-----------------------------------------------------------------------------
(* What is shown.                                                          *)

toggleSort(dir) == IF dir = "asc" THEN "desc" ELSE "asc"

Ordered(rs, dir) ==
    LET before(a, b) == IF dir = "asc" THEN a[1] < b[1] ELSE a[1] > b[1]
    IN  IF dir = "none" THEN rs ELSE SortSeq(rs, before)

\* Sorted first, then cut to the rows painted.
VisibleRows(rs, dir) == SubSeq(Ordered(rs, dir), 1, Min({RowCap, Len(rs)}))

Protected(c) == c.keep \/ c.kind \in {"render", "badge"}

\* What a column holds in all the rows, the empty cells left out.
CellsOf(i, rs) == {rs[r][i] : r \in DOMAIN rs} \ {0}

\* A column empty in every row is left out, and one declared hideWhenConstant
\* that says the same in all of them, but never the last one.
visibleColumns(rs) ==
    LET says(i) == CellsOf(i, rs) # {} /\ (Cols[i].constant => Cardinality(CellsOf(i, rs)) > 1)
        kept == {i \in DOMAIN Cols : Protected(Cols[i]) \/ says(i)}
    IN  IF kept = {} THEN DOMAIN Cols ELSE kept

\* The columns declared to grow, or the first that may.
growCols(kept) ==
    LET declared == {i \in kept : Cols[i].grow}
        able == {i \in kept : Cols[i].kind \notin {"badge", "mono"} /\ ~Cols[i].right}
    IN  IF declared # {} THEN declared ELSE {Min(IF able # {} THEN able ELSE kept)}

-----------------------------------------------------------------------------
(* measure(), from the columns kept and the widths they would like.        *)

Sum(f, S) == MapThenSumSet(LAMBDA i : f[i], S)

\* What a column has to paint: its head and the cells of the rows painted.
Text(i, painting) == Max({Cols[i].head} \union {painting[r][i] : r \in DOMAIN painting})

\* A column's own width: its text and a little more, under its ceiling.
Naturals(kept, painting) ==
    [i \in kept |->
        LET wanted == Text(i, painting) + MeasureBuffer
        IN  IF Cols[i].kind = "fixed" THEN Cols[i].wide
            ELSE IF Cols[i].kind = "capped" THEN Min({wanted, Cols[i].cap}) ELSE wanted]

Flexible(kept) == {i \in kept : Cols[i].kind # "fixed"}
Opaque(kept) == {i \in kept : Cols[i].kind \in {"capped", "render"}}

\* Columns that wrap, which may grow; with the opaque ones the first to shrink.
GrowWrap(kept) == {i \in growCols(kept) : Cols[i].kind \in {"text", "badge"}}
Tier2(kept) == Flexible(kept) \ (Opaque(kept) \union GrowWrap(kept))

\* shrinkToward: columns give up room in proportion to what they have above
\* the floor.  Shares are <<numerator, denominator>>.
Shrunk(nat, S, excess) ==
    LET above == [i \in S |-> Max({0, nat[i] - ShrinkFloor})]
        all == Sum(above, S)
        less == Min({excess, all})
    IN  [i \in S |-> IF less = 0 THEN <<nat[i], 1>> ELSE <<nat[i] * all - less * above[i], all>>]

\* Left over room goes to the columns that wrap; missing room comes from the
\* first tier, and from the second only when that is at its floors.
Shares(kept, nat, room) ==
    LET wrap == GrowWrap(kept)
        first == Flexible(kept) \ Tier2(kept)
        excess == Sum(nat, Flexible(kept)) - room
        give == Sum([i \in first |-> Max({0, nat[i] - ShrinkFloor})], first)
    IN  IF excess <= 0
        THEN [i \in Flexible(kept) |->
                 IF i \in wrap THEN <<nat[i] * Cardinality(wrap) - excess, Cardinality(wrap)>>
                 ELSE <<nat[i], 1>>]
        ELSE Shrunk(nat, first, excess) @@ Shrunk(nat, Tier2(kept), Max({0, excess - give}))

\* Each share without its fraction; the pixels to spare go to the greatest
\* fractions, in the declared order, and a debt comes off the widest, a pixel each.
Rounded(share, room) ==
    LET S == DOMAIN share
        whole == [i \in S |-> Max({1, share[i][1] \div share[i][2]})]
        part(i, j) == (share[i][1] % share[i][2]) * share[j][2]
        total == MapThenSumSet(LAMBDA d : Sum([i \in S |-> IF share[i][2] = d THEN share[i][1] ELSE 0], S) \div d,
                               {share[i][2] : i \in S})
        spare == Min({room, total}) - Sum(whole, S)
        ahead(i) == {j \in S : part(j, i) > part(i, j) \/ (part(j, i) = part(i, j) /\ j < i)}
        wider(i) == {j \in S : whole[j] > whole[i] \/ (whole[j] = whole[i] /\ j < i)}
    IN  [i \in S |->
            IF spare > 0 /\ Cardinality(ahead(i)) < spare THEN whole[i] + 1
            ELSE IF spare < 0 /\ whole[i] > 1 /\ Cardinality(wider(i)) < -spare THEN whole[i] - 1
            ELSE whole[i]]

Room(kept, width) ==
    Max({0, width - Sum([i \in kept |-> Cols[i].wide], kept \ Flexible(kept))})

\* The widths, and which columns say that they may clip.
Measure(kept, painting, width) ==
    LET nat == Naturals(kept, painting)
        given == Rounded(Shares(kept, nat, Room(kept, width)), Room(kept, width))
    IN  [i \in kept |->
            IF i \notin Flexible(kept) THEN [width |-> Cols[i].wide, clip |-> FALSE]
            ELSE [width |-> given[i],
                  clip |-> i \in Opaque(kept) \/ (i \in Tier2(kept) /\ given[i] < nat[i])]]

Measured(rs, dir, width) == Measure(visibleColumns(rs), VisibleRows(rs, dir), width)

-----------------------------------------------------------------------------
(* When it measures.                                                       *)

NotPainted == <<>>

Near(v, w) == v - w \in -1 .. 1

\* widthsEqual, with its tolerance of a pixel a column.
widthsEqual(a, b) ==
    /\ DOMAIN a = DOMAIN b
    /\ \A i \in DOMAIN a : Near(a[i].width, b[i].width) /\ a[i].clip = b[i].clip

\* A measurement is painted if it is another than the one painted.
AfterMeasuring(m) == IF widthsEqual(m, painted) THEN painted ELSE m

ColumnsInit ==
    /\ rows \in Tables /\ sorting = "none" /\ box \in BoxWidths
    /\ painted = IF rows = <<>> THEN NotPainted ELSE Measured(rows, sorting, box)
    /\ watched = (rows # <<>>) /\ frame = FALSE

\* Other rows, which the layout effect measures before they are painted.  With
\* none there is no box: the one that comes back is a new element, and the
\* observer was set up once, for the box there was when the table appeared.
RowsArrive(rs) ==
    /\ rows' = rs /\ UNCHANGED <<sorting, box, frame>>
    /\ watched' = (watched /\ rs # <<>>)
    /\ painted' = IF rs = <<>> THEN painted ELSE AfterMeasuring(Measured(rs, sorting, box))

\* A render of the same rows measures too.
Rerender ==
    /\ rows # <<>>
    /\ painted' = AfterMeasuring(Measured(rows, sorting, box))
    /\ UNCHANGED <<rows, sorting, box, watched, frame>>

handleSort ==
    /\ rows # <<>> /\ sorting' = toggleSort(sorting)
    /\ UNCHANGED <<rows, box, watched, frame>>
    /\ painted' = AfterMeasuring(Measured(rows, toggleSort(sorting), box))

Resize(w) ==
    /\ w # box /\ box' = w
    /\ frame' = (frame \/ watched)
    /\ UNCHANGED <<rows, sorting, painted, watched>>

\* requestAnimationFrame: one measurement for all the resizes since the last.
NextFrame ==
    /\ frame /\ frame' = FALSE
    /\ painted' = IF rows = <<>> THEN painted ELSE AfterMeasuring(Measured(rows, sorting, box))
    /\ UNCHANGED <<rows, sorting, box, watched>>

ColumnsNext ==
    \/ \E rs \in Tables : RowsArrive(rs)
    \/ Rerender \/ handleSort \/ NextFrame
    \/ \E w \in BoxWidths : Resize(w)

ColumnsSpec == ColumnsInit /\ [][ColumnsNext]_columnVars

-----------------------------------------------------------------------------
\* What the table holds: widths are painted for columns that are kept.
ColumnsTypeOK ==
    /\ rows \in Tables /\ sorting \in {"none", "asc", "desc"} /\ box \in BoxWidths
    /\ watched \in BOOLEAN /\ frame \in BOOLEAN
    /\ \A i \in DOMAIN painted :
           i \in DOMAIN Cols /\ painted[i] \in [width : Nat, clip : BOOLEAN]
    /\ rows # <<>> => DOMAIN painted = visibleColumns(rows)

Shown == rows # <<>>
Widths(m) == Sum([i \in DOMAIN m |-> m[i].width], DOMAIN m)

\* What the columns need at the least.
Floors ==
    LET nat == Naturals(visibleColumns(rows), VisibleRows(rows, sorting))
    IN  Sum([i \in DOMAIN nat |-> IF Cols[i].kind = "fixed" THEN nat[i]
                                  ELSE Min({nat[i], ShrinkFloor})], DOMAIN nat)

\* A measurement fills the box to the pixel: no gap beside a column that can
\* grow, and no pixel too many, unless the floors alone do not fit
\* (DataTable.jsx 572-591).
WidthsFillTheBox ==
    Shown /\ Floors <= box =>
        LET total == Widths(Measured(rows, sorting, box))
        IN  total <= box /\ (GrowWrap(visibleColumns(rows)) # {} => total = box)

\* Text is never cut off without its column being marked as one that clips, in
\* what is painted once the box has come to rest, though other rows whose
\* widths are within a pixel of the painted ones are not painted anew
\* (DataTable.jsx 82, 88-96, 738-749).
NeverClipsSilently ==
    Shown /\ watched /\ ~frame =>
        LET painting == VisibleRows(rows, sorting)
        IN  \A i \in Tier2(visibleColumns(rows)) :
                painted[i].width < Text(i, painting) => painted[i].clip

\* Once there are widths, the table cannot overflow its box
\* (DataTable.jsx 734-736).  False: a box that mounts after the table is not
\* watched, so a later resize is not measured until the next render, and widths
\* within a pixel of the painted ones are not painted at all.
TableNeverOverflows == Shown /\ ~frame /\ Floors <= box => Widths(painted) <= box

=============================================================================
