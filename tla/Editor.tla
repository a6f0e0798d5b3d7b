-------------------------------- MODULE Editor --------------------------------
(***************************************************************************)
(* The Editor tab (Editor.jsx): one item made, changed or deleted.  An     *)
(* item is found by a search and picked, or named by its ID; a Preview (a  *)
(* dry run) comes before Create or Update, and Delete takes two clicks.    *)
(* The field of the ID stays open while a request is in the air.           *)
(***************************************************************************)
EXTENDS Naturals, FiniteSets

CONSTANTS
    Kinds, Updatable, Deletable, \* the types of item; those that can be changed, and deleted
    ItemIds, NoItem,      \* IDs that may be picked or typed
    Fields, Required, Fixed, \* a form's fields; those a Create needs, an Update may not touch
    Texts, Blank,         \* what they may hold
    Searches, NoSearch,   \* what Find may ask for
    MaxSends              \* bound: requests made

ASSUME EditorAssumption ==
    /\ Updatable \subseteq Deletable /\ Deletable \subseteq Kinds
    /\ Required \union Fixed \subseteq Fields
    /\ NoItem \notin ItemIds /\ Blank \notin Texts /\ NoSearch \notin Searches

VARIABLES
    item,     \* the type chosen, the ID, the fields, and the values held when picked
    flow,     \* status, stale, editedWhileBusy; seen: what the last dry run sent
    armed,    \* Delete: what it was armed for
    sent,     \* the request in the air
    find,     \* Find's box, and what its list answers
    sends,    \* requests made
    repressed \* history: the chosen type was pressed again under a preview

editorVars == <<item, flow, armed, sent, find, sends, repressed>>

MaybeItem == ItemIds \union {NoItem}
Values == [Fields -> Texts \union {Blank}]
Empty == [k \in Fields |-> Blank]
NotHeld == <<>>       \* loaded: null
NoCall == [kind |-> "none"]
FlowIdle == [status |-> "idle", stale |-> FALSE, edited |-> FALSE, seen |-> NoCall]
NotArmed == [on |-> FALSE, kind |-> CHOOSE t \in Kinds : TRUE, id |-> NoItem]
NoFind == [box |-> NoSearch, got |-> NoSearch]

\* The type, the ID and the fields may come with the link.
EditorInit ==
    /\ \E t \in Kinds, id \in MaybeItem, f \in Values :
           item = [kind |-> t, id |-> id, loaded |-> NotHeld, fields |-> f]
    /\ flow = FlowIdle /\ armed = NotArmed /\ sent = NoCall /\ find = NoFind
    /\ sends = 0 /\ repressed = FALSE

IsUpdate == item.id # NoItem /\ item.kind \in Updatable

-----------------------------------------------------------------------------
(* Choosing what to edit.                                                  *)

\* A press of another type seeds its form from the link, for which of its fields
\* the address has a value now (an effect of the type); a press of the type
\* already chosen only forgets the ID.
PressKind(t) ==
    /\ flow.status # "busy"
    /\ IF t # item.kind
       THEN /\ \E link \in Values :
                   item' = [kind |-> t, id |-> NoItem, loaded |-> NotHeld, fields |-> link]
            /\ flow' = [FlowIdle EXCEPT !.edited = flow.edited]
            /\ find' = NoFind /\ UNCHANGED repressed
       ELSE /\ item' = [item EXCEPT !.id = NoItem, !.loaded = NotHeld]
            /\ repressed' = (repressed \/ flow.status = "previewed")
            /\ UNCHANGED <<flow, find>>
    /\ UNCHANGED <<armed, sent, sends>>

TypeSearch(q) ==
    /\ item.kind \in Deletable /\ q # find.box
    /\ find' = [box |-> q, got |-> IF q = NoSearch THEN NoSearch ELSE find.got]
    /\ UNCHANGED <<item, flow, armed, sent, sends, repressed>>

\* The answer of the newest search; the effect of an older one no longer listens.
SearchAnswers ==
    /\ find.box # find.got
    /\ find' = [find EXCEPT !.got = find.box]
    /\ UNCHANGED <<item, flow, armed, sent, sends, repressed>>

\* A pick and a clear drop what was previewed.
Forgetting == flow' = [FlowIdle EXCEPT !.edited = flow.edited]

\* A found item's values fill the form; a type that can only be deleted gives its ID alone.
PickFound(id, held) ==
    /\ find.box # NoSearch /\ find.got = find.box /\ flow.status # "busy"
    /\ item' = IF item.kind \in Updatable
               THEN [item EXCEPT !.id = id, !.fields = held, !.loaded = held]
               ELSE [item EXCEPT !.id = id, !.loaded = NotHeld]
    /\ Forgetting
    /\ armed' = NotArmed
    /\ UNCHANGED <<sent, find, sends, repressed>>

MakeNewInstead ==
    /\ item.id # NoItem /\ flow.status # "busy"
    /\ item' = [item EXCEPT !.id = NoItem, !.fields = Empty, !.loaded = NotHeld]
    /\ Forgetting
    /\ armed' = NotArmed
    /\ UNCHANGED <<sent, find, sends, repressed>>

-----------------------------------------------------------------------------
(* The fields.                                                             *)

\* markStale: an edit made while a Preview loads counts too.
MarkEdited ==
    [flow EXCEPT !.stale = @ \/ flow.status = "previewed",
                 !.edited = @ \/ flow.status = "busy"]

TypedIdDisarms == armed' = NotArmed

TypeId(id) ==
    /\ id # item.id
    /\ TypedIdDisarms
    /\ item' = [item EXCEPT !.id = id, !.loaded = NotHeld]
    /\ flow' = MarkEdited
    /\ UNCHANGED <<sent, find, sends, repressed>>

SetField(k, v) ==
    /\ v # item.fields[k] /\ ~(IsUpdate /\ k \in Fixed)
    /\ item' = [item EXCEPT !.fields[k] = v]
    /\ flow' = MarkEdited
    /\ UNCHANGED <<armed, sent, find, sends, repressed>>

-----------------------------------------------------------------------------
(* Preview, Create and Update.                                             *)

\* An Update of a picked item sends what was changed; anything else, all that is filled in.
ItemBody ==
    LET told == IF IsUpdate /\ item.loaded # NotHeld
                THEN {k \in Fields : item.fields[k] # item.loaded[k]}
                ELSE {k \in Fields : item.fields[k] # Blank}
    IN  [k \in told |-> item.fields[k]]

\* What a press would send: a PATCH of the item, or a POST of a new one.
Payload == [kind |-> item.kind, id |-> IF IsUpdate THEN item.id ELSE NoItem, body |-> ItemBody]

Filled == IsUpdate \/ \A k \in Required : item.fields[k] # Blank

SendBody(dry) ==
    /\ flow.status # "busy" /\ Filled /\ sends < MaxSends
    /\ sent' = [kind |-> IF dry THEN "dry" ELSE "apply", payload |-> Payload, with |-> item]
    /\ flow' = [flow EXCEPT !.status = "busy", !.edited = FALSE]
    /\ sends' = sends + 1
    /\ UNCHANGED <<item, armed, find, repressed>>

PressPreviewItem == SendBody(TRUE)
PressApplyItem == flow.status = "previewed" /\ ~flow.stale /\ SendBody(FALSE)

Answered == sent' = NoCall

DryAnswered ==
    /\ sent.kind = "dry" /\ Answered
    /\ flow' = [flow EXCEPT !.status = "previewed", !.stale = flow.edited, !.seen = sent.payload]
    /\ UNCHANGED <<item, armed, find, sends, repressed>>

\* The form is emptied after a Create; after an Update the item holds what was sent.
ApplyAnswered ==
    /\ sent.kind = "apply" /\ Answered
    /\ flow' = [flow EXCEPT !.status = "applied", !.stale = FALSE]
    /\ item' = IF sent.payload.id = NoItem THEN [item EXCEPT !.fields = Empty]
               ELSE IF sent.with.loaded # NotHeld THEN [item EXCEPT !.loaded = sent.with.fields]
               ELSE item
    /\ UNCHANGED <<armed, find, sends, repressed>>

SendFails ==
    /\ sent.kind \in {"dry", "apply"} /\ Answered
    /\ flow' = [flow EXCEPT !.status = "idle"]
    /\ UNCHANGED <<item, armed, find, sends, repressed>>

-----------------------------------------------------------------------------
(* Delete: the first click arms it, for four seconds.                      *)

CanDelete == item.id # NoItem /\ item.kind \in Deletable

PressDeleteItem ==
    /\ CanDelete /\ flow.status # "busy" /\ ~armed.on
    /\ armed' = [on |-> TRUE, kind |-> item.kind, id |-> item.id]
    /\ UNCHANGED <<item, flow, sent, find, sends, repressed>>

ArmEnds ==
    /\ armed.on /\ armed' = NotArmed
    /\ UNCHANGED <<item, flow, sent, find, sends, repressed>>

PressDeleteAgain ==
    /\ CanDelete /\ flow.status # "busy" /\ armed.on /\ sends < MaxSends
    /\ sent' = [kind |-> "delete", payload |-> [Payload EXCEPT !.id = item.id], with |-> item]
    /\ armed' = NotArmed
    /\ flow' = [flow EXCEPT !.status = "busy"]
    /\ sends' = sends + 1
    /\ UNCHANGED <<item, find, repressed>>

DeleteAnswered ==
    /\ sent.kind = "delete" /\ Answered
    /\ \/ /\ flow' = [flow EXCEPT !.status = "applied", !.stale = FALSE]
          /\ item' = [item EXCEPT !.id = NoItem, !.loaded = NotHeld, !.fields = Empty]
       \/ /\ flow' = [flow EXCEPT !.status = "idle"] /\ UNCHANGED item
    /\ UNCHANGED <<armed, find, sends, repressed>>

-----------------------------------------------------------------------------
EditorNext ==
    \/ \E t \in Kinds : PressKind(t)
    \/ \E q \in Searches \union {NoSearch} : TypeSearch(q)
    \/ SearchAnswers
    \/ \E id \in ItemIds : \E held \in [Fields -> Texts] : PickFound(id, held)
    \/ MakeNewInstead
    \/ \E id \in ItemIds \union {NoItem} : TypeId(id)
    \/ \E k \in Fields, v \in Texts \union {Blank} : SetField(k, v)
    \/ PressPreviewItem \/ PressApplyItem
    \/ DryAnswered \/ ApplyAnswered \/ SendFails
    \/ PressDeleteItem \/ ArmEnds \/ PressDeleteAgain \/ DeleteAnswered

\* Every request is answered or breaks.
EditorFairness == WF_editorVars(DryAnswered \/ ApplyAnswered \/ SendFails \/ DeleteAnswered)

EditorSpec == EditorInit /\ [][EditorNext]_editorVars /\ EditorFairness

-----------------------------------------------------------------------------
\* What the form and the request in the air hold; the form is busy exactly
\* while a request is in the air.
EditorTypeOK ==
    /\ item \in [kind : Kinds, id : MaybeItem, loaded : Values \union {NotHeld}, fields : Values]
    /\ flow.status \in {"idle", "busy", "previewed", "applied"}
    /\ flow.stale \in BOOLEAN /\ flow.edited \in BOOLEAN
    /\ armed \in [on : BOOLEAN, kind : Kinds, id : MaybeItem]
    /\ find \in [box : Searches \union {NoSearch}, got : Searches \union {NoSearch}]
    /\ sent.kind \in {"none", "dry", "apply", "delete"}
    /\ (flow.status = "busy") = (sent # NoCall)
    /\ sends \in Nat /\ repressed \in BOOLEAN

Fired == IF sent.kind = "none" THEN sent'.kind ELSE "none"

\* Create and Update send, to the item it was seen for, exactly what the last
\* Preview sent (Editor.jsx 227-229).
ItemApplyIsSeen == [][Fired = "apply" => sent'.payload = flow.seen]_editorVars

\* The same while the chosen type is not pressed again under a preview.
ItemApplyIsSeenUnlessRepressed ==
    [][Fired = "apply" /\ ~repressed => sent'.payload = flow.seen]_editorVars

\* A Delete armed for one item never fires on another (Editor.jsx 317).
DeleteHitsWhatWasArmed ==
    [][Fired = "delete" => <<item.kind, item.id>> = <<armed.kind, armed.id>>]_editorVars

\* No request leaves the form busy (PreviewApply).
EditorSettles == []<>(flow.status # "busy")
=============================================================================
