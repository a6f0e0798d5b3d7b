------------------------------- MODULE Update -------------------------------
(***************************************************************************)
(* The self-update as the browser drives it: the shared store of           *)
(* lib/updateState.js (checks that may answer out of order, one install at *)
(* a time, the wait for the restarted server) and the "Check for updates"  *)
(* button of UpdateButton.jsx, and the memory of the last look at GitHub   *)
(* from which the server answers most checks (update.go).  The deadlines   *)
(* are events that may come at any time while what they bound is unchanged.*)
(***************************************************************************)
EXTENDS Naturals

CONSTANT MaxChecks   \* bound: update checks sent by the page

VARIABLES
    updates,  \* the stored answer: its check, its look; the install's phase
    checks,   \* checks in the air, and what the server has said to them
    landed,   \* which checks have been answered, and from which look (history)
    hub,      \* the server's looks at GitHub, and its memory of the newest
    asked,    \* checks sent
    button,   \* UpdateCheck: idle, checking (which check) or resting
    install,  \* where applyUpdate is
    machine   \* the server: its version and the install's own phase

uvars == <<updates, checks, landed, hub, asked, button, install, machine>>

UInit ==
    /\ updates = [n |-> 0, look |-> 0, air |-> {}, new |-> FALSE, phase |-> "idle"]
    /\ checks = {} /\ landed = {}
    /\ hub = [looks |-> 0, memory |-> FALSE, forced |-> FALSE]
    /\ asked = 0
    /\ button = [state |-> "idle", n |-> 0]
    /\ install = "no"
    /\ machine = [version |-> "old", phase |-> "idle"]

\* checkForUpdate: a forced press clears an earlier failure as it happens.  A
\* check notes (history) the checks in the air as it is sent.
SendCheck(force) ==
    /\ asked < MaxChecks
    /\ asked' = asked + 1
    /\ checks' = checks \union {[n |-> asked + 1, force |-> force, look |-> 0, new |-> FALSE,
                                air |-> {c.n : c \in checks}]}
    /\ updates' = IF force /\ updates.phase = "error" THEN [updates EXCEPT !.phase = "idle"]
                ELSE updates
    /\ UNCHANGED <<landed, hub>>

\* The header's check on load and every six hours; Settings opening.
Recheck ==
    SendCheck(FALSE) /\ UNCHANGED <<button, install, machine>>

PressCheck ==
    /\ button.state = "idle" /\ updates.phase \notin {"applying", "restarting"}
    /\ SendCheck(TRUE)
    /\ button' = [state |-> "checking", n |-> asked + 1]
    /\ UNCHANGED <<install, machine>>

\* checkUpdateForce, one at a time: from memory while that is fresh, else by
\* looking at GitHub, where a newer release than the old version waits.  A
\* forced check looks, unless one did less than five seconds ago.
ServeCheck(c, fresh) ==
    /\ c.look = 0
    /\ IF fresh THEN hub' = [looks |-> hub.looks + 1, memory |-> TRUE,
                            forced |-> c.force \/ hub.forced]
                ELSE hub.memory /\ (c.force => hub.forced) /\ hub' = hub
    /\ checks' = (checks \ {c}) \union
                   {[c EXCEPT !.look = hub'.looks, !.new = machine.version = "old"]}
    /\ UNCHANGED <<updates, landed, asked, button, install, machine>>

ButtonAfter(c) ==
    IF button.state = "checking" /\ button.n = c.n
    THEN [state |-> "resting", n |-> 0] ELSE button

\* Mutant: an older answer overwrites a newer one.
UpdateCheckLandsAlways(c) ==
    /\ c.look > 0
    /\ updates' = [updates EXCEPT !.n = c.n, !.look = c.look, !.air = c.air, !.new = c.new]
    /\ checks' = checks \ {c} /\ landed' = landed \union {[n |-> c.n, look |-> c.look]}
    /\ button' = ButtonAfter(c)
    /\ UNCHANGED <<hub, asked, install, machine>>

\* The answer lands: stored unless a newer one has been.
UpdateCheckLands(c) ==
    /\ c.look > 0
    /\ updates' = IF c.n > updates.n
                THEN [updates EXCEPT !.n = c.n, !.look = c.look, !.air = c.air, !.new = c.new]
                ELSE updates
    /\ checks' = checks \ {c} /\ landed' = landed \union {[n |-> c.n, look |-> c.look]}
    /\ button' = ButtonAfter(c)
    /\ UNCHANGED <<hub, asked, install, machine>>

CheckFails(c) ==
    /\ checks' = checks \ {c}
    /\ button' = ButtonAfter(c)
    /\ UNCHANGED <<updates, landed, hub, asked, install, machine>>

Rested ==
    /\ button.state = "resting"
    /\ button' = [button EXCEPT !.state = "idle"]
    /\ UNCHANGED <<updates, checks, landed, hub, asked, install, machine>>

-----------------------------------------------------------------------------
(* applyUpdate.                                                            *)

Fail == updates' = [updates EXCEPT !.phase = "error"] /\ install' = "no"

\* startUpdate, from the header or from Settings: one install at a time.
StartUpdate ==
    /\ updates.n > 0 /\ updates.new /\ install = "no"
    /\ updates.phase \notin {"applying", "restarting"}
    /\ updates' = [updates EXCEPT !.phase = "applying"]
    /\ install' = "apply"
    /\ UNCHANGED <<checks, landed, hub, asked, button, machine>>

\* POST apply: accepted, refused, or no answer (the server may be restarting).
ApplyAnswered ==
    /\ install = "apply"
    /\ \/ /\ machine.phase \in {"idle", "error"}
          /\ install' = "tick"
          /\ machine' = [machine EXCEPT !.phase = "running"]
          /\ UNCHANGED updates
       \/ Fail /\ UNCHANGED machine
       \/ install' = "probe" /\ updates' = [updates EXCEPT !.phase = "restarting"]
          /\ machine' \in {machine, [machine EXCEPT !.phase = "running"]}
    /\ UNCHANGED <<checks, landed, hub, asked, button>>

Restarting ==
    install' = "probe" /\ updates' = [updates EXCEPT !.phase = "restarting"]

\* A status poll that is not answered: the server may be restarting.
TickLost ==
    /\ install = "tick" /\ Restarting
    /\ UNCHANGED <<checks, landed, hub, asked, button, machine>>

\* A status poll that is answered: failed, finished, or (nothing changes) going on.
Tick ==
    /\ install = "tick"
    /\ \/ machine.phase = "error" /\ Fail
       \/ machine.phase \in {"done", "idle"} /\ Restarting
    /\ UNCHANGED <<checks, landed, hub, asked, button, machine>>

\* Three minutes in one phase.
Stall ==
    /\ install = "tick" /\ machine.phase = "running"
    /\ Fail
    /\ UNCHANGED <<checks, landed, hub, asked, button, machine>>

\* A probe sees another version: the page reloads, and all this state with it.
ProbeSees ==
    /\ install = "probe" /\ machine.version = "new"
    /\ updates' = [n |-> asked, look |-> 0, air |-> {}, new |-> FALSE, phase |-> "idle"]
    /\ checks' = {} /\ landed' = {}
    /\ button' = [state |-> "idle", n |-> 0]
    /\ install' = "no"
    /\ UNCHANGED <<hub, asked, machine>>

\* Twenty seconds without another version.
ProbeGivesUp ==
    /\ install = "probe"
    /\ Fail
    /\ UNCHANGED <<checks, landed, hub, asked, button, machine>>

\* The server's install (internal/selfupdate), which may also hang.  A new
\* version is a new process: it remembers no look.
MachineStep ==
    /\ machine.phase = "running"
    /\ machine' \in {[version |-> "new", phase |-> "idle"],
                     [machine EXCEPT !.phase = "done"], [machine EXCEPT !.phase = "error"]}
    /\ hub' = IF machine'.version = machine.version THEN hub
              ELSE [hub EXCEPT !.memory = FALSE, !.forced = FALSE]
    /\ UNCHANGED <<updates, checks, landed, asked, button, install>>

UNext ==
    \/ Recheck \/ PressCheck \/ Rested
    \/ \E c \in checks : \/ UpdateCheckLands(c) \/ CheckFails(c)
                         \/ \E fresh \in BOOLEAN : ServeCheck(c, fresh)
    \/ StartUpdate \/ ApplyAnswered \/ Tick \/ TickLost \/ Stall \/ ProbeSees \/ ProbeGivesUp
    \/ MachineStep

\* Every request has a time limit, and the page's timers run.
UFairness ==
    /\ WF_uvars(ApplyAnswered) /\ WF_uvars(Stall)
    /\ WF_uvars(ProbeGivesUp) /\ WF_uvars(Tick)

USpec == UInit /\ [][UNext]_uvars /\ UFairness

-----------------------------------------------------------------------------
\* What the store, the button and the server hold; an answer stored, and one
\* waited for, is of a check that was sent, and from a look that was made.
UTypeOK ==
    /\ asked \in Nat
    /\ hub \in [looks : Nat, memory : BOOLEAN, forced : BOOLEAN]
    /\ updates \in [n : 0 .. asked, look : 0 .. hub.looks, air : SUBSET Nat, new : BOOLEAN,
                   phase : {"idle", "applying", "restarting", "error"}]
    /\ checks \subseteq [n : 1 .. asked, force : BOOLEAN, look : 0 .. hub.looks, new : BOOLEAN,
                         air : SUBSET Nat]
    /\ landed \subseteq [n : 1 .. asked, look : 1 .. hub.looks]
    /\ button \in [state : {"idle", "checking", "resting"}, n : 0 .. asked]
    /\ install \in {"no", "apply", "tick", "probe"}
    /\ machine \in [version : {"old", "new"}, phase : {"idle", "running", "done", "error"}]

\* However the server mixes memory and looks, and whatever order answers land
\* in, the answer on screen comes from a look at GitHub no older than that of
\* any answer that has landed (updateState.js 66-71).  The exception is an
\* answer that was still in the air when the check on screen was sent: that
\* check may have been served from memory before the other one looked, and the
\* other, a forced one too, is dropped when it lands.
NewerAnswerStays ==
    \A a \in landed : a.look > updates.look => a.n \in updates.air

\* An install ends: the page reloads or says what went wrong, though the
\* server hangs, dies or comes back unchanged (updateState.js 78-159).
InstallEnds == []<>(install = "no")
=============================================================================
