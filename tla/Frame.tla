------------------------------- MODULE Frame -------------------------------
(***************************************************************************)
(* The page around the tabs (App.jsx): which tab the address names, the    *)
(* "All pages" menu, the dialogs over the page (Settings, the control      *)
(* help, the setup checklist, the brand dialog, the search palette), where *)
(* the keyboard focus is, and what a tab whose file is gone does.          *)
(*                                                                         *)
(* A step is an event, the render it causes and the effects of that        *)
(* render, in React's order: a mounting dialog's own effect, then App's.   *)
(***************************************************************************)
EXTENDS Naturals

CONSTANTS Tabs, Landing   \* the pages, and the one an empty address means

ASSUME FrameAssumption == Landing \in Tabs

VARIABLE f   \* the frame: address, menu, dialogs, focus, files fetched

\* What App returns outside the dialogs: all of it inside the inert wrapper.
InPage == {"page", "main", "menuBtn", "item", "settingsBtn", "palette"}

Blank == [tab |-> Landing, menu |-> FALSE, settings |-> FALSE, help |-> FALSE,
          setup |-> FALSE, brand |-> FALSE, palette |-> FALSE,
          sheetWasOpen |-> FALSE, helpWasOpen |-> FALSE,
          opener |-> "body", brandOpener |-> "body", saving |-> FALSE,
          sheetFile |-> "no", setupFile |-> "no", tabFile |-> "coming",
          stamp |-> "none", gone |-> FALSE, focus |-> "body"]

FrameInit == \E t \in Tabs, s \in BOOLEAN : f = [Blank EXCEPT !.tab = t, !.setup = s]

\* Mutant: the page behind a dialog other than Settings stays in reach.
InertForSheetOnly(s) == s.settings

Inert(s) == s.settings \/ s.help

\* What is in the document and can be focused.
Drawn(s, x) ==
    CASE x = "body" -> TRUE
      [] x = "item" -> s.menu /\ ~Inert(s)
      [] x = "palette" -> s.palette /\ ~Inert(s)
      [] x \in InPage \ {"item", "palette"} -> ~Inert(s)
      [] x = "sheet" -> s.settings /\ s.sheetFile # "coming"
      [] x = "wait" -> s.settings /\ s.sheetFile = "coming"
      [] x = "help" -> s.help
      [] x = "setup" -> s.setup /\ s.setupFile = "here"
      [] OTHER -> s.brand

\* focus() on what is inert, gone or the body changes nothing.
Focus(s, x) == IF x # "body" /\ Drawn(s, x) THEN [s EXCEPT !.focus = x] ELSE s

\* A focused thing that leaves the document, or goes inert, leaves focus on body.
Commit(s) == IF Drawn(s, s.focus) THEN s ELSE [s EXCEPT !.focus = "body"]

\* App's effects on showAccounts and on showHeaderHelp.
SheetEffect(s) ==
    IF s.settings THEN [s EXCEPT !.sheetWasOpen = TRUE]
    ELSE IF s.sheetWasOpen THEN Focus([s EXCEPT !.sheetWasOpen = FALSE], "settingsBtn")
    ELSE s

HelpEffect(s) ==
    IF s.help THEN [s EXCEPT !.helpWasOpen = TRUE]
    ELSE IF s.helpWasOpen THEN Focus([s EXCEPT !.helpWasOpen = FALSE], "settingsBtn")
    ELSE s

\* Every dialog focuses itself as it mounts.
MountFocus(s) ==
    LET news == {x \in {"sheet", "help", "setup", "brand"} : Drawn(s, x) /\ ~Drawn(f, x)}
    IN  IF news = {} THEN s ELSE Focus(s, CHOOSE x \in news : TRUE)

Rendered(s) == f' = HelpEffect(SheetEffect(MountFocus(Commit(s))))

-----------------------------------------------------------------------------
(* Getting about.                                                          *)

\* Nothing covers the page: no dialog's overlay takes the pointer or the Tab key.
Uncovered == ~Inert(f) /\ ~f.brand /\ ~Drawn(f, "setup") /\ ~f.palette

\* A hashchange (a link, Back, the palette): the tab's effects close the menu
\* and move focus to the main region.
GoTo(s, t) ==
    IF t = s.tab THEN s
    ELSE [s EXCEPT !.tab = t, !.menu = FALSE, !.tabFile = "coming"]

HashChange(t) ==
    /\ t # f.tab
    /\ f' = Focus(Commit(GoTo(f, t)), "main")

ToggleMenu ==
    /\ Uncovered
    /\ f' = IF f.menu THEN Commit([f EXCEPT !.menu = FALSE, !.focus = "menuBtn"])
            ELSE [f EXCEPT !.menu = TRUE, !.focus = "item"]

\* A menu item: its click closes the menu, its link changes the address.
PickItem(t) ==
    /\ f.menu /\ Uncovered
    /\ f' = LET s == Commit(GoTo([f EXCEPT !.menu = FALSE, !.focus = "item"], t))
            IN  IF t = f.tab THEN s ELSE Focus(s, "main")

\* Escape in the menu returns to its button; a press elsewhere just closes it.
LeaveMenu ==
    /\ f.menu
    /\ \E x \in {"menuBtn", "page"} : f' = Commit(Focus([f EXCEPT !.menu = FALSE], x))

-----------------------------------------------------------------------------
(* The dialogs.                                                            *)

PressSettings ==
    /\ Drawn(f, "settingsBtn") /\ (Uncovered \/ f.focus = "settingsBtn")
    /\ Rendered([f EXCEPT !.settings = TRUE, !.focus = "settingsBtn",
                          !.sheetFile = IF @ = "no" THEN "coming" ELSE @])

\* The sheet's file arrives, or cannot: the boundary's Reload button is focused.
SheetFileEnds ==
    /\ f.sheetFile = "coming"
    /\ \E r \in {"here", "failed"} : Rendered([f EXCEPT !.sheetFile = r])

CloseSettings ==
    /\ f.settings
    /\ Rendered([f EXCEPT !.settings = FALSE])

OpenHelpFromSettings ==
    /\ f.settings /\ f.sheetFile = "here"
    /\ Rendered([f EXCEPT !.sheetWasOpen = FALSE, !.settings = FALSE, !.help = TRUE])

CloseHelp ==
    /\ f.help
    /\ Rendered([f EXCEPT !.help = FALSE])

OpenSetupFromSettings ==
    /\ f.settings /\ f.sheetFile = "here"
    /\ Rendered([f EXCEPT !.settings = FALSE, !.setup = TRUE])

SetupFileArrives ==
    /\ f.setup /\ f.setupFile = "no"
    /\ Rendered([f EXCEPT !.setupFile = "here"])

CloseSetup ==
    /\ Drawn(f, "setup")
    /\ Rendered([f EXCEPT !.setup = FALSE])

\* The brand dialog, from the header's logo or from the checklist: it reads
\* what is focused as it renders.
OpenBrand ==
    /\ ~f.brand
    /\ \E x \in {"page", "setup"} :
           /\ Drawn(f, x) /\ (x = "page" => Uncovered)
           /\ Rendered([f EXCEPT !.brand = TRUE, !.brandOpener = x, !.focus = x])

WithoutBrand(s) == Focus(Commit([s EXCEPT !.brand = FALSE]), s.brandOpener)

CloseBrand == f.brand /\ f' = WithoutBrand(f)

SaveBrand ==
    /\ f.brand /\ ~f.saving
    /\ f' = [f EXCEPT !.saving = TRUE]

\* A save that lands closes the dialog that is open by then.
BrandSaved ==
    /\ f.saving
    /\ LET s == [f EXCEPT !.saving = FALSE]
       IN  \/ f' = IF f.brand THEN WithoutBrand(s) ELSE s
           \/ f' = s

\* The palette: the shortcut toggles it from anywhere, the page bar opens it.
TogglePalette ==
    f' = IF f.palette
         THEN LET s == Commit([f EXCEPT !.palette = FALSE])
              IN  Focus([s EXCEPT !.opener = "body"], f.opener)
         ELSE Focus([f EXCEPT !.palette = TRUE, !.opener = f.focus], "palette")

PickInPalette(t) ==
    /\ f.palette /\ f.focus = "palette"
    /\ f' = LET s == Commit([GoTo(f, t) EXCEPT !.palette = FALSE, !.opener = "body"])
            IN  IF t = f.tab THEN s ELSE Focus(s, "main")

-----------------------------------------------------------------------------
(* A tab's file.                                                           *)

TabArrives ==
    /\ f.tabFile = "coming" /\ ~f.gone
    /\ f' = [f EXCEPT !.tabFile = "here"]

\* Mutant: the page reloads itself however often.
TabGoneReloads ==
    /\ f.tabFile = "coming" /\ f.gone
    /\ f' = [Blank EXCEPT !.tab = f.tab, !.stamp = "recent", !.gone = TRUE]

\* The files of an updated app are gone: the page reloads itself once a minute
\* at most, and otherwise says so.
TabGone ==
    /\ f.tabFile = "coming" /\ f.gone
    /\ f' = IF f.stamp = "recent" THEN [f EXCEPT !.tabFile = "failed"]
            ELSE [Blank EXCEPT !.tab = f.tab, !.stamp = "recent", !.gone = TRUE]

FilesGo == ~f.gone /\ f' = [f EXCEPT !.gone = TRUE]

\* A missing file is refused at once, so a minute never passes while one loads.
StampAges ==
    /\ f.stamp = "recent" /\ f.tabFile # "coming"
    /\ f' = [f EXCEPT !.stamp = "old"]

FrameNext ==
    \/ \E t \in Tabs : HashChange(t) \/ PickItem(t) \/ PickInPalette(t)
    \/ ToggleMenu \/ LeaveMenu \/ TogglePalette
    \/ PressSettings \/ SheetFileEnds \/ CloseSettings
    \/ OpenHelpFromSettings \/ CloseHelp
    \/ OpenSetupFromSettings \/ SetupFileArrives \/ CloseSetup
    \/ OpenBrand \/ CloseBrand \/ SaveBrand \/ BrandSaved
    \/ TabArrives \/ TabGone \/ FilesGo \/ StampAges

FrameSpec == FrameInit /\ [][FrameNext]_f /\ WF_f(TabArrives) /\ WF_f(TabGone)

-----------------------------------------------------------------------------
\* What the frame holds: what is focused is drawn, or is the body.
Places == InPage \union {"body", "sheet", "wait", "help", "setup", "brand"}
FrameTypeOK ==
    /\ f.tab \in Tabs /\ f.focus \in Places /\ (f.focus = "body" \/ Drawn(f, f.focus))
    /\ f.opener \in Places /\ f.brandOpener \in {"body", "page", "setup"}
    /\ \A k \in {"menu", "settings", "help", "setup", "brand", "palette", "sheetWasOpen",
                  "helpWasOpen", "saving", "gone"} : f[k] \in BOOLEAN
    /\ f.sheetFile \in {"no", "coming", "here", "failed"} /\ f.setupFile \in {"no", "here"}
    /\ f.tabFile \in {"coming", "here", "failed"} /\ f.stamp \in {"none", "recent", "old"}

\* Focus inside Settings or the control help stays there while it is open,
\* whatever the page behind it does (App.jsx 529-534), and closing either one
\* puts it on the Settings button (App.jsx 482-509).
FocusFollowsTheDialog ==
    [][ /\ \A d \in {"sheet", "help"} :
              f.focus = d /\ Drawn(f, d) /\ Drawn(f, d)' => f'.focus \in {d, "brand", "setup"}
        /\ (f.settings /\ ~f'.settings /\ ~f'.help /\ ~f'.setup) \/ (f.help /\ ~f'.help)
           => f'.focus = "settingsBtn" \/ f'.tabFile = "coming" ]_f

\* A tab opened on an app that has been updated ends: it is drawn, or the page
\* says it could not load; it never reloads for ever (App.jsx 201-246).
TabEnds == []<>(f.tabFile # "coming")
=============================================================================
