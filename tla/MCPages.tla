------------------------------- MODULE MCPages -------------------------------
(***************************************************************************)
(* What the pages show: the panel layout and its gestures, saved charts,    *)
(* table columns, the audit log and the Changes page.  A behaviour follows   *)
(* one of them while the others rest.                                       *)
(***************************************************************************)
EXTENDS Layout, Charts, Columns, AuditPages, Changes

MCKids == <<"chart", "table", "extra">>
MCDeclared == [chart |-> 2, table |-> 4, extra |-> 1]
MCNeed == [chart |-> 0, table |-> 7, extra |-> 0]
MCLayoutDoings ==
    { {"load", "hide"}, {"load", "keymove"}, {"load", "drag"}, {"load", "resize"},
      {"load", "list"}, {"drag", "data"}, {"hide", "data"},
      {"list", "hide"}, {"resize", "window"}, {"keysize"} }

MCCombos ==
    << <<"dns", "device", "7d", "none", 10>>, <<"dns", "none", "7d", "day", 0>>,
       <<"dns", "none", "7d", "none", 0>>, <<"assets", "kind", "7d", "none", 10>> >>

\* A text column set to the right, one that wraps, a rendered, a mono that is
\* hidden when it is constant, and one of a fixed width.  The second and third
\* tables want widths a pixel apart.
Column(kind, head, wide) ==
    [kind |-> kind, grow |-> FALSE, keep |-> FALSE, constant |-> kind = "mono", right |-> FALSE,
     head |-> head, cap |-> 0, wide |-> wide]
MCCols ==
    << [Column("text", 5, 0) EXCEPT !.right = TRUE], Column("text", 6, 0), Column("render", 5, 0),
       Column("mono", 5, 0), Column("fixed", 4, 4) >>
MCTables ==
    { <<>>, << <<6, 9, 7, 0, 1>> >>, << <<7, 8, 7, 0, 1>> >>, << <<5, 7, 5, 0, 0>> >>,
      << <<11, 6, 8, 9, 1>>, <<7, 12, 5, 6, 1>> >>, << <<11, 6, 8, 9, 1>>, <<7, 12, 5, 9, 1>> >> }

\* The clocks agree, or either is a moment ahead.
MCSkews == {[server |-> 0, browser |-> 0], [server |-> 1, browser |-> 0], [server |-> 0, browser |-> 1]}

VARIABLE scene   \* the part a behaviour follows

pagesVars == <<scene, lvars, chartVars, columnVars, auditVars, changeVars>>

LayoutRest == LayoutInit /\ doing = {"keysize"}
ChartsRest == ChartsInit /\ chartDoing = "menus"
ChangesRest == ChangesInit /\ skew = [server |-> 0, browser |-> 0]
ColumnsRest == ColumnsInit /\ rows = <<>> /\ box = 19
AuditRest == AuditInit /\ followed = "portal"

PagesInit ==
    \/ scene = "layout" /\ LayoutInit /\ ChartsRest /\ ColumnsRest /\ AuditRest /\ ChangesRest
    \/ scene = "charts" /\ LayoutRest /\ ChartsInit /\ ColumnsRest /\ AuditRest /\ ChangesRest
    \/ scene = "columns" /\ LayoutRest /\ ChartsRest /\ ColumnsInit /\ AuditRest /\ ChangesRest
    \/ scene = "audit" /\ LayoutRest /\ ChartsRest /\ ColumnsRest /\ AuditInit /\ ChangesRest
    \/ scene = "changes" /\ LayoutRest /\ ChartsRest /\ ColumnsRest /\ AuditRest /\ ChangesInit

PagesNext ==
    \/ /\ scene = "layout" /\ LayoutNext
       /\ UNCHANGED <<scene, chartVars, columnVars, auditVars, changeVars>>
    \/ /\ scene = "charts" /\ ChartsNext
       /\ UNCHANGED <<scene, lvars, columnVars, auditVars, changeVars>>
    \/ /\ scene = "columns" /\ ColumnsNext
       /\ UNCHANGED <<scene, lvars, chartVars, auditVars, changeVars>>
    \/ /\ scene = "audit" /\ AuditNext
       /\ UNCHANGED <<scene, lvars, chartVars, columnVars, changeVars>>
    \/ /\ scene = "changes" /\ ChangesNext
       /\ UNCHANGED <<scene, lvars, chartVars, columnVars, auditVars>>

PagesSpec == PagesInit /\ [][PagesNext]_pagesVars

-----------------------------------------------------------------------------
\* The rows of the layout being arranged end flush, and the widths of a
\* table's columns add up to its box, none clipping without saying so
\* (layout.js 189-242, DataTable.jsx 572-598, 690-736).
WidthsAddUp ==
    /\ scene = "layout" => RowsEndFlush
    /\ ColumnsTypeOK /\ WidthsFillTheBox /\ NeverClipsSilently

\* What the operator arranged is on screen, is what a reload would show, and
\* nothing taken off comes back by itself (ui.jsx 696-700, 765-777).
LayoutIsKept == [](LayoutTypeOK /\ ScreenIsWhatIsSaved) /\ OnlyPutBackShows
=============================================================================
