------------------------------- MODULE Writes -------------------------------
(***************************************************************************)
(* The pages that change the tenant, side by side: the preview-and-apply   *)
(* forms (Forms), the record edit and the paged list (Records), and the    *)
(* Editor.                                                                 *)
(***************************************************************************)
EXTENDS Forms, Records, Editor

\* Each page moves as it does alone, whatever the others do meanwhile.
PagesWriteSpec == FormsSpec /\ RecordsSpec /\ EditorSpec

\* What an Apply, a Build or an Update sends is what its last preview showed
\* (SelfService.jsx 48-62, Automate.jsx 51-53, Editor.jsx 227-229).  It says so
\* neither of Provision's streams, where a field edited while Preview runs leaves
\* Apply live, against Provision.jsx 210-212 (StreamApplyIsWhatWasPreviewed is
\* false of driver "stream"), nor of the Editor once the type that is chosen
\* was pressed again under a preview, against Editor.jsx 227-228 (ItemApplyIsSeen
\* is false).
EveryApplyIsSeen == []EditorTypeOK /\ ApplyIsWhatWasPreviewed /\ ItemApplyIsSeenUnlessRepressed

\* What a list shows is the server's first rows with none left out, and the
\* rest can be asked for, but in the cases NothingOutOfReach names; and a run
\* whose answer came late is in the list of changes (SelfService.jsx 351-385,
\* Automate.jsx 73-108).
ListsAreWhole == RecordsTypeOK /\ NothingOutOfReach /\ BuildsReachTheList

\* An update overwrites only the value it was held against, and a delete
\* deletes only the item that was armed (edit.go 632-640, Editor.jsx 283-330).
ChangesHitWhatWasSeen == OverwritesOnlyWhatWasHeld /\ DeleteHitsWhatWasArmed
=============================================================================
