------------------------------- MODULE DemoPage -------------------------------
(***************************************************************************)
(* The Demo server page (DemoServer.jsx, DemoSettingsForm.jsx).  A Preview *)
(* streams a dry run and keeps its plan; Build it streams the build; Tear  *)
(* down streams a dry run whose list is confirmed first.  The settings are *)
(* edited and saved beside them.  A stream ends with a frame that says     *)
(* done or error, or with its connection.                                  *)
(***************************************************************************)
EXTENDS Naturals, FiniteSets

CONSTANTS
    DemoRuns, NoRun, \* the runs of the page
    MaxSaves, MaxStreams \* bounds: settings saved, streams opened

ASSUME DemoAssumption == NoRun \notin DemoRuns /\ MaxSaves \in Nat /\ MaxStreams \in Nat

VARIABLES
    demo,     \* busy with a "preview" or "build", and its plan: the settings it was made of
    removal,  \* the teardown on screen: its run and phase
    streams,  \* the streams open, and how far the server got with each
    settings,     \* the settings: typed and not saved, being saved, the token box
    saved,    \* the server's settings, by number
    asks      \* streams opened

demoVars == <<demo, removal, streams, settings, saved, asks>>

NoPlan == [of |-> 0, ready |-> FALSE]
NoRemoval == [run |-> NoRun, phase |-> "none"]

DemoInit ==
    /\ demo = [busy |-> "no", plan |-> NoPlan] /\ removal = NoRemoval
    /\ streams = {} /\ settings = [dirty |-> FALSE, saving |-> FALSE]
    /\ saved = 1 /\ asks = 0

-----------------------------------------------------------------------------
(* The settings form.                                                      *)

\* A setting typed drops the plan, if it has arrived; the token does not.
SetSetting ==
    /\ settings' = [settings EXCEPT !.dirty = TRUE]
    /\ demo' = [demo EXCEPT !.plan = NoPlan]
    /\ UNCHANGED <<removal, streams, saved, asks>>

TypeJoinToken ==
    /\ settings' = [settings EXCEPT !.dirty = TRUE]
    /\ UNCHANGED <<demo, removal, streams, saved, asks>>

SaveSettings ==
    /\ ~settings.saving /\ saved < MaxSaves
    /\ settings' = [settings EXCEPT !.saving = TRUE]
    /\ UNCHANGED <<demo, removal, streams, saved, asks>>

\* Stored and answered, stored and the answer lost, or refused.
SettingsSaved ==
    /\ settings.saving
    /\ \/ saved' = saved + 1 /\ settings' \in {[dirty |-> FALSE, saving |-> FALSE], [settings EXCEPT !.saving = FALSE]}
       \/ saved' = saved /\ settings' = [settings EXCEPT !.saving = FALSE]
    /\ UNCHANGED <<demo, removal, streams, asks>>

-----------------------------------------------------------------------------
(* Streams.                                                                *)

OpenStream(what, run) ==
    /\ asks < MaxStreams /\ asks' = asks + 1
    /\ streams' = streams \union {[what |-> what, run |-> run, of |-> saved, end |-> "open"]}

\* Mutant: only a last frame ends a stream.
ResolvesOnAFrame == {"done", "error"}

\* stream resolves with the frame that says done or error, or when the
\* connection closes, which it may without either.
Resolves == {"done", "error", "closed"}

StreamEnds(s, how) ==
    /\ s.end = "open"
    /\ streams' = (streams \ {s}) \union {[s EXCEPT !.end = how]}
    /\ UNCHANGED <<demo, removal, settings, saved, asks>>

Finished(s) == s \in streams /\ s.end \in Resolves

\* The saved settings are complete.
PressDemoPreview ==
    /\ demo.busy = "no"
    /\ OpenStream("preview", NoRun)
    /\ demo' = [busy |-> "preview", plan |-> NoPlan]
    /\ UNCHANGED <<removal, settings, saved>>

PreviewEnds(s) ==
    /\ Finished(s) /\ s.what = "preview"
    /\ streams' = streams \ {s}
    /\ \E ready \in BOOLEAN :
           demo' = [busy |-> "no",
                    plan |-> IF s.end = "done" THEN [of |-> s.of, ready |-> ready] ELSE demo.plan]
    /\ UNCHANGED <<removal, settings, saved, asks>>

PressBuild ==
    /\ demo.busy = "no" /\ demo.plan.ready
    /\ OpenStream("build", NoRun)
    /\ demo' = [demo EXCEPT !.busy = "build"]
    /\ UNCHANGED <<removal, settings, saved>>

\* The plan is dropped and the runs are read again, however the build ended.
BuildEnds(s) ==
    /\ Finished(s) /\ s.what = "build"
    /\ streams' = streams \ {s}
    /\ demo' = [busy |-> "no", plan |-> NoPlan]
    /\ UNCHANGED <<removal, settings, saved, asks>>

-----------------------------------------------------------------------------
(* Tearing a run down.                                                     *)

PressTearDown(r) ==
    /\ demo.busy = "no" /\ removal.phase = "none"
    /\ OpenStream("list", r)
    /\ removal' = [run |-> r, phase |-> "checking"]
    /\ UNCHANGED <<demo, settings, saved>>

ListingEnds(s) ==
    /\ Finished(s) /\ s.what = "list"
    /\ streams' = streams \ {s}
    /\ removal' = IF s.end = "done" THEN [run |-> s.run, phase |-> "confirm"]
                  ELSE [run |-> s.run, phase |-> "error"]
    /\ UNCHANGED <<demo, settings, saved, asks>>

\* Remove these is shown beside the list, and is not off while a build runs.
PressRemoveThese ==
    /\ removal.phase = "confirm"
    /\ OpenStream("remove", removal.run)
    /\ removal' = [removal EXCEPT !.phase = "removing"]
    /\ UNCHANGED <<demo, settings, saved>>

\* Keep, or Close beside an error.
KeepRun ==
    /\ removal.phase \in {"confirm", "error"}
    /\ removal' = NoRemoval
    /\ UNCHANGED <<demo, streams, settings, saved, asks>>

RemovalEnds(s) ==
    /\ Finished(s) /\ s.what = "remove"
    /\ streams' = streams \ {s}
    /\ removal' = IF s.end = "done" THEN NoRemoval
                  ELSE [run |-> s.run, phase |-> "error"]
    /\ UNCHANGED <<demo, settings, saved, asks>>

-----------------------------------------------------------------------------
Landing(s) == PreviewEnds(s) \/ BuildEnds(s) \/ ListingEnds(s) \/ RemovalEnds(s)

DemoNext ==
    \/ SetSetting \/ TypeJoinToken \/ SaveSettings \/ SettingsSaved
    \/ \E s \in streams, how \in {"done", "error", "closed"} : StreamEnds(s, how)
    \/ \E s \in streams : Landing(s)
    \/ PressDemoPreview \/ PressBuild
    \/ \E r \in DemoRuns : PressTearDown(r)
    \/ PressRemoveThese \/ KeepRun

\* A stream ends, with a frame or with its connection, and its end is handled.
DemoFairness ==
    /\ WF_demoVars(\E s \in streams, how \in {"done", "error", "closed"} : StreamEnds(s, how))
    /\ WF_demoVars(\E s \in streams : Landing(s))

DemoSpec == DemoInit /\ [][DemoNext]_demoVars /\ DemoFairness

-----------------------------------------------------------------------------
\* What the page, its streams and the server hold; the page is busy exactly
\* while a stream of it is open.
DemoTypeOK ==
    /\ demo \in [busy : {"no", "preview", "build"}, plan : [of : 0 .. saved, ready : BOOLEAN]]
    /\ removal \in [run : DemoRuns \union {NoRun},
                    phase : {"none", "checking", "confirm", "removing", "error"}]
    /\ streams \subseteq [what : {"preview", "build", "list", "remove"}, run : DemoRuns \union {NoRun},
                         of : 1 .. saved, end : {"open", "done", "error", "closed"}]
    /\ (demo.busy # "no") = (\E s \in streams : s.what = demo.busy)
    /\ (removal.phase \in {"checking", "removing"}) = (\E s \in streams : s.what \in {"list", "remove"})
    /\ settings \in [dirty : BOOLEAN, saving : BOOLEAN] /\ saved \in Nat /\ asks \in Nat

\* However a stream ends, the page's buttons come back (DemoServer.jsx 18-36).
DemoSettles ==
    /\ []<>(demo.busy = "no")
    /\ []<>(removal.phase \notin {"checking", "removing"})

\* What the page builds are the settings whose plan is on screen.  False: a
\* plan outlives settings saved after it.
BuildIsOfThePlan == [][demo.busy = "no" /\ demo'.busy = "build" => demo.plan.of = saved]_demoVars
=============================================================================
