-------------------------------- MODULE Charts --------------------------------
(***************************************************************************)
(* Build a chart and the charts saved onto one page (ChartBuilder.jsx,      *)
(* chartBuilder.js, savedCharts.js, SavedChart.jsx).  The menus settle on   *)
(* offered picks; a chart is added, saved again, or put in place of a       *)
(* built-in panel, which is hidden in the page's layout; Restore original   *)
(* undoes it.  Each of these is a chain of requests that goes on when its   *)
(* form has left the screen.                                                *)
(***************************************************************************)
EXTENDS Naturals, Sequences, FiniteSets

CONSTANTS
    Combos,       \* the allowed combinations, in the server's order: tuples of
                  \* count, split, window, over, top
    BuiltIns,     \* the page's built-in panels
    Replaceable,  \* those Build a chart draws exactly
    ChartDoings,  \* what a behaviour follows: "menus", "saving", "replacing"
    Questions,    \* bound: the questions asked while saving; none while replacing
    MaxCharts,    \* bound: chart ids made
    MaxTasks      \* bound: chains of requests in the air


VARIABLES
    chartDoing, \* what this behaviour follows
    picks,    \* the builder's picks: the five levels, and the Only show field
    form,     \* the builder's form: which, its chart id, its state
    page,     \* the page, when it is open: its charts, its layout on screen
    charts,   \* the server: the saved charts
    layout,   \* the server: the page's saved layout
    tasks,    \* chains of requests in the air
    ids,      \* chart ids made
    chartPast   \* history: panels hidden by a replace, charts stored and gone,
              \* and whether two chains that write the layout overlapped

chartVars == <<chartDoing, picks, form, page, charts, layout, tasks, ids, chartPast>>

NoBuiltIn == "no panel"
NoField == "everything"

ASSUME ChartsAssumption ==
    /\ Len(Combos) \in Nat \ {0} /\ Combos = [i \in 1 .. Len(Combos) |-> Combos[i]]
    /\ \A i \in DOMAIN Combos : Combos[i] = [j \in 1 .. 5 |-> Combos[i][j]]
    /\ Replaceable \subseteq BuiltIns /\ NoBuiltIn \notin BuiltIns
    /\ MaxCharts \in Nat /\ MaxTasks \in Nat

-----------------------------------------------------------------------------
(* The menus (chartBuilder.js): a level offers what some combination has    *)
(* beside the levels before it.                                            *)

Count == 1
Split == 2
Over == 4

Prefix(c, n) == SubSeq(c, 1, n)

\* allowedAt, in the combinations' order: the first, and all of them.
Fitting(prefix) == {i \in DOMAIN Combos : Prefix(Combos[i], Len(prefix)) = prefix}
FirstAt(prefix) ==
    Combos[CHOOSE i \in Fitting(prefix) : \A j \in Fitting(prefix) : i <= j][Len(prefix) + 1]
AllowedAt(prefix) == {Combos[i][Len(prefix) + 1] : i \in Fitting(prefix)}

\* filterFields: the count's own splits, but the one split by.
FilterFields(at) ==
    {Combos[i][Split] : i \in {j \in DOMAIN Combos : Combos[j][Count] = at[Count]}}
        \ {"none", at[Split]}

\* settlePicks: each level keeps its pick if the levels before still offer it.
SettleLevel(before, v) ==
    Append(before, IF v \in AllowedAt(before) THEN v ELSE FirstAt(before))
SettlePicks(p) ==
    LET one == SettleLevel(<<>>, p.at[1])
        two == SettleLevel(one, p.at[2])
        three == SettleLevel(two, p.at[3])
        four == SettleLevel(three, p.at[4])
        at == SettleLevel(four, p.at[5])
    IN  [at |-> at, only |-> IF p.only \in FilterFields(at) THEN p.only ELSE NoField]

\* pickOne: no split starts over time again.
PickOne(p, level, v) ==
    LET at == [p.at EXCEPT ![level] = v]
    IN  SettlePicks([p EXCEPT !.at = IF level = Split /\ v = "none"
                                     THEN [at EXCEPT ![Over] = "unset"] ELSE at])

Offered(p) ==
    /\ \E i \in DOMAIN Combos : Combos[i] = p.at
    /\ p.only = NoField \/ p.only \in FilterFields(p.at)

-----------------------------------------------------------------------------
NoForm == [kind |-> "none", id |-> 0, panel |-> NoBuiltIn, read |-> {},
           looked |-> FALSE, state |-> "idle"]
NoPage == [open |-> FALSE, charts |-> {}, order |-> "default", hidden |-> {}]
NeverSaved == [order |-> "default", hidden |-> {}]

ChartsInit ==
    /\ chartDoing \in ChartDoings
    /\ picks = [at |-> Combos[1], only |-> NoField]
    /\ form = [NoForm EXCEPT !.kind = "add"]
    /\ page = NoPage
    /\ charts = {}
    /\ layout \in {NeverSaved} \union
           IF chartDoing = "replacing" THEN {[order |-> "own", hidden |-> h] : h \in SUBSET (BuiltIns \ Replaceable)}
           ELSE {}
    /\ tasks = {} /\ ids = 0
    /\ chartPast = [replaced |-> {}, stored |-> {}, crossed |-> FALSE]

-----------------------------------------------------------------------------
(* The builder.                                                            *)

\* A chain whose form, or whose page, has gone goes on and shows nothing.
Orphaned == {[t EXCEPT !.mine = FALSE] : t \in tasks}

FreshForm == [form EXCEPT !.id = IF form.kind = "change" THEN @ ELSE 0,
                          !.read = {}, !.looked = FALSE, !.state = "idle"]

\* Mutant: new picks keep the form of the old ones.
RemountedOnLoadOnly(p, loading) == p # picks /\ loading

\* The forms are keyed on the picks.
Remounted(p, loading) == p # picks

Pick(p) ==
    /\ ~page.open /\ picks' = p
    /\ \E loading \in BOOLEAN :
           IF Remounted(p, loading) THEN form' = FreshForm /\ tasks' = Orphaned
           ELSE UNCHANGED <<form, tasks>>
    /\ UNCHANGED <<chartDoing, page, charts, layout, ids, chartPast>>

PickQuestion == \E i \in CASE chartDoing = "menus" -> DOMAIN Combos
                              [] chartDoing = "saving" -> Questions
                              [] chartDoing = "replacing" -> {} : Pick(SettlePicks([at |-> Combos[i], only |-> NoField]))
PickLevel == chartDoing = "menus" /\ \E n \in 1 .. 5 : \E v \in AllowedAt(Prefix(picks.at, n - 1)) : Pick(PickOne(picks, n, v))
PickField == chartDoing = "menus" /\ \E f \in FilterFields(picks.at) \union {NoField} :
                 Pick(SettlePicks([picks EXCEPT !.only = f]))

-----------------------------------------------------------------------------
(* The chains of requests.                                                 *)

\* Mutant: the panel is hidden before its chart is saved.
StepsHidingFirst(kind) ==
    CASE kind \in {"add", "change"} -> <<"post">>
      [] kind = "replace" -> <<"read", "hide", "post">>
      [] kind = "restore" -> <<"show", "delete">>
      [] kind = "remove" -> <<"delete">>
      [] kind = "gesture" -> <<"show">>

\* replacePanel saves the chart before it hides the panel; Restore puts the
\* panel back before it deletes the chart.
Steps(kind) ==
    CASE kind \in {"add", "change"} -> <<"post">>
      [] kind = "replace" -> <<"post", "read", "hide">>
      [] kind = "restore" -> <<"show", "delete">>
      [] kind = "remove" -> <<"delete">>
      [] kind = "gesture" -> <<"show">>

Writers == {"replace", "restore", "gesture"}

Start(kind, chart, lay) ==
    /\ chartDoing # "menus" /\ Cardinality(tasks) < MaxTasks
    /\ tasks' = tasks \union {[kind |-> kind, chart |-> chart, lay |-> lay,
                               left |-> Steps(kind), ans |-> "sent", mine |-> TRUE]}
    /\ chartPast' = [chartPast EXCEPT !.crossed =
                   @ \/ (kind \in Writers /\ \E t \in tasks : t.kind \in Writers)]

Chart(id, panel) == [id |-> id, replaces |-> panel, picks |-> picks]

\* Every press of Add makes a new id.
PressAdd ==
    /\ ~page.open /\ form.state # "busy" /\ ids < MaxCharts
    /\ form.kind = "add" \/ (form.kind = "change" /\ form.looked /\ form.read = {})
    /\ ids' = ids + 1 /\ form' = [form EXCEPT !.state = "busy"]
    /\ Start("add", Chart(ids + 1, NoBuiltIn), NeverSaved)
    /\ UNCHANGED <<chartDoing, picks, page, charts, layout>>

\* One id for the form, so that a retry overwrites the same chart.
PressReplace ==
    /\ ~page.open /\ form.kind = "replace" /\ form.state \notin {"busy", "done"}
    /\ form.id # 0 \/ ids < MaxCharts
    /\ LET id == IF form.id # 0 THEN form.id ELSE ids + 1
       IN  /\ ids' = (IF form.id # 0 THEN ids ELSE id)
           /\ form' = [form EXCEPT !.state = "busy", !.id = id]
           /\ Start("replace", Chart(id, form.panel), NeverSaved)
    /\ UNCHANGED <<chartDoing, picks, page, charts, layout>>

\* The saved chart is read when the form opens; it may have gone.
ReadSaved ==
    /\ form.kind = "change" /\ ~form.looked
    /\ \E read \in {{c \in charts : c.id = form.id}, {}} :
           form' = [form EXCEPT !.looked = TRUE, !.read = read]
    /\ UNCHANGED <<chartDoing, picks, page, charts, layout, tasks, ids, chartPast>>

PressSave ==
    /\ form.kind = "change" /\ form.state # "busy"
    /\ form' = [form EXCEPT !.state = "busy"]
    /\ \E c \in form.read : Start("change", [c EXCEPT !.picks = picks], NeverSaved)
    /\ UNCHANGED <<chartDoing, picks, page, charts, layout, ids>>

With(t, ans) == tasks' = (tasks \ {t}) \union {[t EXCEPT !.ans = ans]}

\* The layout as the server now has it; what a replace hid stays marked while
\* it is hidden.
Lay(new, replaced) ==
    /\ layout' = new
    /\ chartPast' = [chartPast EXCEPT !.replaced = (@ \union replaced) \cap new.hidden]

ServePost(t) ==
    /\ Head(t.left) = "post" /\ t.ans = "sent"
    /\ charts' = {c \in charts : c.id # t.chart.id} \union {t.chart}
    /\ chartPast' = [chartPast EXCEPT !.stored = IF chartDoing = "saving" THEN @ \union {t.chart.picks} ELSE @]
    /\ With(t, "ok")
    /\ UNCHANGED <<chartDoing, picks, form, page, layout, ids>>

\* loadLayout: a read that fails is as if nothing had been saved.
ServeLayoutRead(t) ==
    /\ Head(t.left) = "read" /\ t.ans = "sent"
    /\ \E got \in {layout, NeverSaved} :
           tasks' = (tasks \ {t}) \union {[t EXCEPT !.lay = got, !.ans = "ok"]}
    /\ UNCHANGED <<chartDoing, picks, form, page, charts, layout, ids, chartPast>>

HideInLayout(t) ==
    /\ Head(t.left) = "hide" /\ t.ans = "sent"
    /\ Lay([t.lay EXCEPT !.hidden = @ \union {t.chart.replaces}], {t.chart.replaces})
    /\ With(t, "ok")
    /\ UNCHANGED <<chartDoing, picks, form, page, charts, ids>>

ServeShow(t) ==
    /\ Head(t.left) = "show" /\ t.ans = "sent"
    /\ Lay(t.lay, {}) /\ With(t, "ok")
    /\ UNCHANGED <<chartDoing, picks, form, page, charts, ids>>

ServeDelete(t) ==
    /\ Head(t.left) = "delete" /\ t.ans = "sent"
    /\ charts' = {c \in charts : c.id # t.chart.id}
    /\ With(t, IF charts' = charts THEN "bad" ELSE "ok")
    /\ UNCHANGED <<chartDoing, picks, form, page, layout, ids, chartPast>>

\* Refused, or answered to nobody.
Breaks(t) ==
    /\ t.ans \in {"sent", "ok"} /\ Head(t.left) # "read"
    /\ With(t, "bad")
    /\ UNCHANGED <<chartDoing, picks, form, page, charts, layout, ids, chartPast>>

Said(t, state) ==
    IF t.mine /\ t.kind \in {"add", "replace", "change"} THEN [form EXCEPT !.state = state]
    ELSE form

NextStep(t) ==
    /\ t.ans = "ok" /\ Len(t.left) > 1
    /\ tasks' = (tasks \ {t}) \union {[t EXCEPT !.left = Tail(@), !.ans = "sent"]}
    /\ page' = IF Head(t.left) = "show" /\ t.mine
               THEN [page EXCEPT !.order = t.lay.order, !.hidden = t.lay.hidden] ELSE page
    /\ UNCHANGED <<chartDoing, picks, form, charts, layout, ids, chartPast>>

\* A chart taken off: the page reads its charts again.
LastStep(t) ==
    /\ t.ans = "ok" /\ Len(t.left) = 1
    /\ tasks' = tasks \ {t}
    /\ form' = Said(t, "done")
    /\ page' = IF t.mine /\ t.kind \in {"restore", "remove"} THEN [page EXCEPT !.charts = charts]
               ELSE page
    /\ UNCHANGED <<chartDoing, picks, charts, layout, ids, chartPast>>

GivesUp(t) ==
    /\ t.ans = "bad"
    /\ tasks' = tasks \ {t} /\ form' = Said(t, "failed")
    /\ UNCHANGED <<chartDoing, picks, page, charts, layout, ids, chartPast>>

-----------------------------------------------------------------------------
(* The page.                                                               *)

\* The charts and the layout are read when it opens, each read on its own.
OpenPage ==
    /\ chartDoing # "menus" /\ ~page.open
    /\ \E read \in {charts, {}}, lay \in {layout, NeverSaved} :
           page' = [open |-> TRUE, charts |-> read, order |-> lay.order, hidden |-> lay.hidden]
    /\ form' = NoForm /\ tasks' = Orphaned
    /\ UNCHANGED <<chartDoing, picks, charts, layout, ids, chartPast>>

Open(kind, id, panel, p) ==
    /\ page.open
    /\ page' = NoPage /\ tasks' = Orphaned /\ picks' = p
    /\ form' = [NoForm EXCEPT !.kind = kind, !.id = id, !.panel = panel]
    /\ UNCHANGED <<chartDoing, charts, layout, ids, chartPast>>

OpenToReplace == chartDoing = "replacing" /\ \E p \in Replaceable \ page.hidden :
                     Open("replace", 0, p, SettlePicks([at |-> Combos[1], only |-> NoField]))
OpenSaved == \E c \in page.charts : Open("change", c.id, NoBuiltIn, SettlePicks(c.picks))
OpenPlain == chartDoing = "saving" /\ Open("add", 0, NoBuiltIn, picks)

PageSnapshot == [order |-> "own", hidden |-> page.hidden]

PressRestore(c) ==
    /\ page.open /\ ~\E t \in tasks : t.mine /\ t.chart.id = c.id
    /\ IF c.replaces = NoBuiltIn THEN Start("remove", c, NeverSaved)
       ELSE Start("restore", c, [PageSnapshot EXCEPT !.hidden = @ \ {c.replaces}])
    /\ UNCHANGED <<chartDoing, picks, form, page, charts, layout, ids>>

\* Taken off the page, or put back, by hand: shown at once, then saved.
TakeOffOrPutBack(p) ==
    LET new == [PageSnapshot EXCEPT !.hidden = IF p \in @ THEN @ \ {p} ELSE @ \union {p}]
    IN  /\ page.open
        /\ chartDoing = "replacing"
        /\ page' = [page EXCEPT !.order = "own", !.hidden = new.hidden]
        /\ Start("gesture", Chart(0, NoBuiltIn), new)
        /\ UNCHANGED <<chartDoing, picks, form, charts, layout, ids>>

-----------------------------------------------------------------------------
\* A behaviour ends where two chains that write the layout have overlapped:
\* nothing is claimed of the layout past that.
ChartsNext ==
  /\ ~chartPast.crossed
  /\ \/ PickQuestion \/ PickLevel \/ PickField
     \/ PressAdd \/ PressReplace \/ ReadSaved \/ PressSave
     \/ \E t \in tasks :
            \/ ServePost(t) \/ ServeLayoutRead(t) \/ HideInLayout(t) \/ ServeShow(t) \/ ServeDelete(t)
            \/ Breaks(t) \/ NextStep(t) \/ LastStep(t) \/ GivesUp(t)
     \/ OpenPage \/ OpenToReplace \/ OpenSaved \/ OpenPlain
     \/ \E c \in page.charts : PressRestore(c)
     \/ \E p \in BuiltIns : TakeOffOrPutBack(p)

ChartsSpec == ChartsInit /\ [][ChartsNext]_chartVars

-----------------------------------------------------------------------------
\* What the builder, the page, the server and the chains hold; an id is used
\* by one chart.
MaybePanel == BuiltIns \union {NoBuiltIn}
Layouts == [order : {"default", "own"}, hidden : SUBSET BuiltIns]
IsChart(c) == c.id \in 0 .. ids /\ c.replaces \in MaybePanel /\ Len(c.picks.at) = 5
ChartsTypeOK ==
    /\ chartDoing \in ChartDoings /\ ids \in 0 .. MaxCharts /\ layout \in Layouts
    /\ Len(picks.at) = 5
    /\ form.kind \in {"none", "add", "change", "replace"} /\ form.id \in 0 .. ids
    /\ form.panel \in MaybePanel /\ form.looked \in BOOLEAN
    /\ form.state \in {"idle", "busy", "done", "failed"}
    /\ page.open \in BOOLEAN /\ [order |-> page.order, hidden |-> page.hidden] \in Layouts
    /\ \A c \in charts \union page.charts \union form.read : IsChart(c)
    /\ \A c, d \in charts : c.id = d.id => c = d
    /\ \A t \in tasks : /\ IsChart(t.chart) /\ t.lay \in Layouts /\ t.mine \in BOOLEAN
                         /\ t.left # << >> /\ t.ans \in {"sent", "ok", "bad"}
    /\ chartPast.replaced \subseteq layout.hidden /\ chartPast.crossed \in BOOLEAN

\* The menus never come to picks that the server would refuse, whatever was
\* picked before (chartBuilder.js 6-12).
PicksAreOffered == Offered(picks)

\* A panel that a replace took off the page has its chart, whichever step of a
\* replace or a restore failed, unless two chains that write the page's layout
\* overlapped (savedCharts.js 120-128, SavedChart.jsx 20-36).
ReplacedPanelHasItsChart ==
    chartPast.crossed \/ \A p \in chartPast.replaced : \E c \in charts : c.replaces = p

\* "Added" and "Saved" are said only beside picks that were stored.
SaidOfTheseChoices ==
    chartDoing = "saving" /\ form.kind \in {"add", "change"} /\ form.state = "done" => picks \in chartPast.stored

\* The builder's menus stay on picks the server offers, and it says "Added"
\* only of picks that were stored (chartBuilder.js 6-12, ChartBuilder.jsx).
ChoicesAreTrue == ChartsTypeOK /\ PicksAreOffered /\ SaidOfTheseChoices

\* To hide a panel keeps the rest of the layout.  It does not: a layout that
\* could not be read is replaced by one with that panel alone.
HideKeepsTheRest ==
    [][\A t \in tasks : HideInLayout(t) /\ ~chartPast.crossed =>
           layout' = [layout EXCEPT !.hidden = @ \union {t.chart.replaces}]]_chartVars
=============================================================================
