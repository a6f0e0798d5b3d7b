------------------------------- MODULE MCForms -------------------------------
(***************************************************************************)
(* The forms that change something: the preview-and-apply forms of          *)
(* Provision, Self Service and Automate, the record edit and the paged list, *)
(* the Editor and the demo page.  A behaviour follows one of them while the  *)
(* others rest.                                                             *)
(***************************************************************************)
EXTENDS Writes, DemoPage

CONSTANTS v1, v2, s1, s2, r1

\* Four calls of the desk: a Build answered when the next has been sent.
MCMaxCalls == [d \in Drivers |-> CASE d = "stream" -> 2 [] d = "desk" -> 4 [] OTHER -> 3]

VARIABLE scene   \* the part a behaviour follows

FormsRest == FormsInit /\ driver = "write" /\ tenant = "open" /\ role.shown = "viewer"
RecordsRest == RecordsInit /\ view = "edit" /\ value = [r \in Rows |-> v1]
EditorRest ==
    /\ item = [kind |-> "zone", id |-> NoItem, loaded |-> NotHeld, fields |-> [f \in Fields |-> Blank]]
    /\ flow = FlowIdle /\ armed = NotArmed /\ sent = NoCall /\ find = NoFind
    /\ sends = 0 /\ repressed = FALSE

WritesInit ==
    \/ scene = "forms" /\ FormsInit /\ RecordsRest /\ EditorRest /\ DemoInit
    \/ scene = "records" /\ FormsRest /\ RecordsInit /\ EditorRest /\ DemoInit
    \/ scene = "editor" /\ FormsRest /\ RecordsRest /\ EditorInit /\ DemoInit
    \/ scene = "demo" /\ FormsRest /\ RecordsRest /\ EditorRest /\ DemoInit

WritesNext ==
    \/ scene = "forms" /\ FormsNext /\ UNCHANGED <<scene, recordVars, editorVars, demoVars>>
    \/ scene = "records" /\ RecordsNext /\ UNCHANGED <<scene, formVars, editorVars, demoVars>>
    \/ scene = "editor" /\ EditorNext /\ UNCHANGED <<scene, formVars, recordVars, demoVars>>
    \/ scene = "demo" /\ DemoNext /\ UNCHANGED <<scene, formVars, recordVars, editorVars>>

WritesSpec ==
    /\ WritesInit /\ [][WritesNext]_<<scene, formVars, recordVars, editorVars, demoVars>>
    /\ FormsFairness /\ RecordsFairness /\ EditorFairness /\ DemoFairness

-----------------------------------------------------------------------------
\* Every form's buttons come back, whatever is answered (PreviewApply,
\* DemoServer.jsx 18-36).
EveryPageSettles ==
    []DemoTypeOK /\ EveryFlowSettles /\ EditSettles /\ EditorSettles /\ DemoSettles
=============================================================================
