------------------------------ MODULE MCBrowser ------------------------------
(***************************************************************************)
(* The browser outside its forms: the shared feeds; the questions of the AI *)
(* page, the threat lookup and the search page; the vault gate, the header  *)
(* and Settings; the update button; the page frame with its dialogs and      *)
(* focus.  They share no modelled state, so a behaviour follows one of them  *)
(* while the others rest, each in a state where nothing is owed.            *)
(***************************************************************************)
EXTENDS Feeds, Ask, Gate, Update, Frame

CONSTANTS conn, ov, daily, pick, data, blocksA, blocksB, h1, h2, n1, a1, t1, t2

\* Three pages: Overview, which shares /api/data with the header; Daily,
\* which reads it without sharing; and a form whose picker changes url as
\* its user chooses.
MCPages == {{conn, ov}, {conn, daily}, {pick}}
MCSiteUrls == [h \in Sites |-> IF h = pick THEN {blocksA, blocksB, NoUrl} ELSE {data}]

\* One behaviour of the gate follows the first connection, a vault locked
\* elsewhere or here, the write switch, tenant switches, or a removal.
MCDoings ==
    { {"init", "unlock", "reset", "add", "fail"},
      {"unlock", "lock", "other", "fail", "rows"},
      {"unlock", "lock", "rows", "sheetStatus"},
      {"grant", "revoke", "other", "fail", "verdict"},
      {"grant", "revoke", "verdict", "sheetTarget"},
      {"grant", "fail", "verdict", "sheetTarget"},
      {"switch", "other", "lost", "rows", "chip"},
      {"activate", "account", "rows", "sheetStatus"},
      {"remove", "chip", "sheetStatus"} }

VARIABLE scene   \* the part a behaviour follows

FeedsRest == FInit /\ page = {pick}
AskRest == AskInit /\ asking = "chat" /\ ~store.on /\ host = h1
GateRest ==
    /\ doing = {} /\ air = {} /\ post = NoPost
    /\ srv = [vault |-> "none", has |-> {}, active |-> NoTenant, away |-> FALSE, grants |-> {}]
    /\ gate = [vault |-> "none", err |-> FALSE, first |-> FALSE, busy |-> FALSE, setup |-> FALSE]
    /\ chip = NoChip /\ sheet = Closed /\ told = [verdict |-> FALSE, rows |-> FALSE]
FrameRest == f = [Blank EXCEPT !.tabFile = "here"]

BrowserInit ==
    \/ scene = "feeds" /\ FInit /\ AskRest /\ GateRest /\ UInit /\ FrameRest
    \/ scene = "ask" /\ FeedsRest /\ AskInit /\ GateRest /\ UInit /\ FrameRest
    \/ scene = "gate" /\ FeedsRest /\ AskRest /\ GInit /\ UInit /\ FrameRest
    \/ scene = "update" /\ FeedsRest /\ AskRest /\ GateRest /\ UInit /\ FrameRest
    \/ scene = "frame" /\ FeedsRest /\ AskRest /\ GateRest /\ UInit /\ FrameInit

BrowserNext ==
    \/ scene = "feeds" /\ FNext /\ UNCHANGED <<scene, askVars, gvars, uvars, f>>
    \/ scene = "ask" /\ AskNext /\ UNCHANGED <<scene, fvars, gvars, uvars, f>>
    \/ scene = "gate" /\ GNext /\ UNCHANGED <<scene, fvars, askVars, uvars, f>>
    \/ scene = "update" /\ UNext /\ UNCHANGED <<scene, fvars, askVars, gvars, f>>
    \/ scene = "frame" /\ FrameNext /\ UNCHANGED <<scene, fvars, askVars, gvars, uvars>>

BrowserSpec ==
    /\ BrowserInit /\ [][BrowserNext]_<<scene, fvars, askVars, gvars, uvars, f>>
    /\ FFairness /\ AskFairness /\ GFairness /\ UFairness /\ WF_f(TabArrives) /\ WF_f(TabGone)

-----------------------------------------------------------------------------
\* Every mounted feed stops loading and retrying, and every row of the search
\* page is answered or given up, and said aloud (api.js 97-107,
\* DossierPage.jsx 308-312).
ReadsSettle == EveryFeedSettles /\ EveryRowIsSaid

\* A vault locked for good takes the dashboard down, an install ends, and a
\* tab whose file is gone ends (VaultGate.jsx 224-250, updateState.js 78-159,
\* App.jsx 201-246).
ShellSettles ==
    [](UTypeOK /\ FrameTypeOK) /\ LockReachesTheGate /\ InstallEnds /\ TabEnds
=============================================================================
