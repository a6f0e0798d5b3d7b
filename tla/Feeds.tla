------------------------------- MODULE Feeds -------------------------------
(***************************************************************************)
(* The browser's data feeds: the useApi hook of ui/src/lib/api.js at its   *)
(* call sites, the requests it has in the air, its retry timers, the table *)
(* through which two call sites of one url share an answer, and the        *)
(* registry behind "Try again".                                            *)
(*                                                                         *)
(* A handler is an operator from the whole state to the next one, since    *)
(* load() runs inside most of them.  A payload is told apart by the url it *)
(* answers and, where answers are shared, by the number of the request     *)
(* that fetched it.  Time is abstracted: a timer may fire, a request may   *)
(* be aborted and a shared answer may grow old at any moment.              *)
(***************************************************************************)
EXTENDS Integers, FiniteSets

CONSTANTS
    Urls, NoUrl,
    Sites,      \* call sites of useApi
    Pages,      \* the sets of call sites that are on screen together
    SiteUrls,   \* the urls a call site may want
    Polls,      \* call sites with a poll interval
    Adopters,   \* call sites with adoptIfFresherThan
    Header,     \* call sites of the header, which a change of tab leaves alone
    MaxPrompts  \* bound: mounts, url changes, polls and clicks in a behaviour

ASSUME SitesAssumption ==
    /\ Polls \subseteq Sites /\ Adopters \subseteq Sites /\ Header \subseteq Sites
    /\ Pages \subseteq SUBSET Sites
    /\ SiteUrls \in [Sites -> SUBSET (Urls \union {NoUrl})]
    /\ NoUrl \notin Urls

\* Whoever shares an answer asks for one url as long as it is mounted: the only url
\* shared is /api/data (ConnStatus.jsx 67, Overview.jsx 94, NeedsALook.jsx 56).
ASSUME AdoptersAssumption ==
    \A h \in Adopters : \E u \in Urls : SiteUrls[h] = {u}

VARIABLES
    page,     \* the call sites of the page shown
    hook,     \* what each mounted hook holds
    net,      \* requests in the air
    wire,     \* per url: the shared answer, the sequence, who is asking
    started,  \* per url (history): numbered requests started so far
    forgotten,\* per url (history): how many were, when its sequence was last forgotten
    prompts   \* prompts used up

fvars == <<page, hook, net, wire, started, forgotten, prompts>>
st == [hook |-> hook, net |-> net, wire |-> wire, started |-> started,
       forgotten |-> forgotten]

NoData == [url |-> NoUrl, n |-> 0]
NoTimer == [kind |-> "none", gen |-> 0, url |-> NoUrl]
NoHook == [alive |-> FALSE, url |-> NoUrl, held |-> NoUrl, gen |-> 0, data |-> NoData,
           error |-> FALSE, loading |-> TRUE, retrying |-> FALSE, failures |-> 0,
           timer |-> NoTimer, orphans |-> {}, waiting |-> 0]
NoWire == [ok |-> 0, okSeq |-> 0, fresh |-> FALSE, seq |-> 0, asking |-> 0]

FInit ==
    /\ page \in Pages
    /\ hook = [h \in Sites |-> NoHook]
    /\ net = {}
    /\ wire = [u \in Urls |-> NoWire]
    /\ started = [u \in Urls |-> 0] /\ forgotten = [u \in Urls |-> 0]
    /\ prompts = 0

Set(s) ==
    /\ hook' = s.hook /\ net' = s.net /\ wire' = s.wire
    /\ started' = s.started /\ forgotten' = s.forgotten

-----------------------------------------------------------------------------
(* The shared answers.                                                     *)

Adopting(s, u) == \E h \in Adopters : s.hook[h].alive /\ s.hook[h].held = u

\* Mutant: a call site adopts what it has already shown.
AdoptableAlways(w) == w.ok # 0 /\ w.fresh

\* freshOk: recent, and the answer of the newest request started.
Adoptable(w) == w.ok # 0 /\ w.fresh /\ w.okSeq = w.seq

SetWire(s, u, w) == [s EXCEPT !.wire = [s.wire EXCEPT ![u] = w]]

SetHook(s, h, k) == [s EXCEPT !.hook = [s.hook EXCEPT ![h] = k]]

\* claimSeq, startAsking
ClaimSeq(s, u) ==
    LET n == s.started[u] + 1
        w == s.wire[u]
    IN  [SetWire(s, u, [w EXCEPT !.seq = w.seq + 1, !.asking = n])
            EXCEPT !.started = [s.started EXCEPT ![u] = n]]

\* publishOk: kept only for a watched url, and only from the request that has
\* its latest number (an unnumbered one has none).
PublishOk(s, r) ==
    LET w == s.wire[r.url]
    IN  IF Adopting(s, r.url) /\ r.seq # 0 /\ r.seq = w.seq
        THEN SetWire(s, r.url, [w EXCEPT !.ok = r.n, !.okSeq = r.seq, !.fresh = TRUE])
        ELSE s

\* The watcher effect's cleanup: the last one out forgets the url and where its
\* numbers were, while its requests may be in the air.
Forgotten(w) == [NoWire EXCEPT !.asking = w.asking]

Forget(s, u) ==
    IF u = NoUrl \/ Adopting(s, u) THEN s
    ELSE [SetWire(s, u, Forgotten(s.wire[u])) EXCEPT
             !.forgotten = [s.forgotten EXCEPT ![u] = s.started[u]]]

-----------------------------------------------------------------------------
(* load().                                                                 *)

\* What an answer leaves, this call site's own or another's.
Taken(k, d) ==
    [k EXCEPT !.data = d, !.error = FALSE, !.loading = FALSE, !.retrying = FALSE,
              !.failures = 0]

Adopt(s, h) ==
    LET k == s.hook[h]
    IN  SetHook(s, h, Taken(k, [url |-> k.url, n |-> s.wire[k.url].ok]))

\* A request is numbered only for a watched url.
Request(s, h) ==
    LET k == s.hook[h]
        watched == Adopting(s, k.url)
    IN  [hook |-> h, url |-> k.url, gen |-> k.gen,
         seq |-> IF watched THEN s.wire[k.url].seq + 1 ELSE 0,
         n |-> IF watched THEN s.started[k.url] + 1 ELSE 0]

Send(s, h) ==
    LET u == s.hook[h].url
        t == IF Adopting(s, u) THEN ClaimSeq(s, u) ELSE s
    IN  [t EXCEPT !.net = s.net \union {Request(s, h)}]

AwaitOther(s, h) ==
    LET k == s.hook[h]
    IN  IF k.waiting # 0 THEN s ELSE SetHook(s, h, [k EXCEPT !.waiting = k.gen])

Load(s, h, waited) ==
    LET k == s.hook[h]
    IN  IF k.url = NoUrl \/ k.url # k.held THEN s
        ELSE IF h \in Adopters /\ Adoptable(s.wire[k.url]) THEN Adopt(s, h)
        ELSE IF h \in Adopters /\ ~waited /\ s.wire[k.url].asking # 0 THEN AwaitOther(s, h)
        ELSE Send(s, h)

-----------------------------------------------------------------------------
(* How a request ends.                                                     *)

\* A call site takes only the answers of its present mount and url.
Live(k, gen) == k.alive /\ k.gen = gen

\* A locked vault answers every retry the same way: nothing stays queued.
Locked(k) == [k EXCEPT !.timer = NoTimer, !.data = NoData, !.error = FALSE,
                       !.retrying = FALSE, !.loading = FALSE]

MaxAttempts == 3

\* The timer the ref names, if any.
Running(k) == {k.timer} \ {NoTimer}

\* catch: a poll is its own retry; otherwise a transient failure is tried
\* again until the attempts are spent.  A second failure overwrites the ref of
\* a timer that keeps running.
Failed(k, h, transient) ==
    LET attempt == IF k.failures < MaxAttempts THEN k.failures + 1 ELSE MaxAttempts
        again == transient /\ h \notin Polls /\ attempt < MaxAttempts
    IN  [k EXCEPT !.error = TRUE, !.loading = FALSE, !.failures = attempt,
                  !.retrying = again,
                  !.timer = IF again THEN [kind |-> "auto", gen |-> k.gen, url |-> k.held]
                                     ELSE k.timer,
                  !.orphans = IF again THEN k.orphans \union Running(k) ELSE k.orphans]

\* finally: whoever waited on this request may look again.
Answered(s, r) ==
    LET w == s.wire[r.url]
    IN  [SetWire(s, r.url, [w EXCEPT !.asking = IF r.n # 0 /\ w.asking = r.n THEN 0
                                                ELSE w.asking])
            EXCEPT !.net = s.net \ {r}]

Outcomes == {"ok", "locked", "transient", "final"}

HookAfter(k, r, how) ==
    CASE how = "ok" -> Taken(k, [url |-> r.url, n |-> r.n])
      [] how = "locked" -> Locked(k)
      [] how = "transient" -> Failed(k, r.hook, TRUE)
      [] how = "final" -> Failed(k, r.hook, FALSE)

Settle(s, r, how) ==
    LET k == s.hook[r.hook]
        t == Answered(IF how = "ok" THEN PublishOk(s, r) ELSE s, r)
    IN  IF Live(k, r.gen) THEN SetHook(t, r.hook, HookAfter(k, r, how)) ELSE t

Answer(r) ==
    /\ \E how \in Outcomes : Set(Settle(st, r, how))
    /\ UNCHANGED <<page, prompts>>

-----------------------------------------------------------------------------
(* Effects, timers and prompts.                                            *)

Prompt == prompts < MaxPrompts /\ prompts' = prompts + 1 /\ UNCHANGED page

\* The url effect: a new run, cold, with a full budget and nothing of the old url.
Cold(k, u) ==
    [NoHook EXCEPT !.alive = TRUE, !.url = u, !.held = u, !.gen = k.gen + 1,
                   !.orphans = k.orphans, !.waiting = k.waiting]

StartRun(s, h, u) == Load(SetHook(s, h, Cold(s.hook[h], u)), h, FALSE)

\* The header is there before the tab, and a change of tab leaves it alone.
Mount(h) ==
    /\ h \in page /\ ~hook[h].alive /\ Prompt
    /\ \A s \in (page \intersect Header) \ {h} : h \in Header \/ hook[s].alive
    /\ \E u \in SiteUrls[h] : Set(StartRun(st, h, u))

Unmounted(k) == [NoHook EXCEPT !.gen = k.gen]

Unmount(h) ==
    /\ h \in page \ Header /\ hook[h].alive /\ Prompt
    /\ Set(Forget(SetHook(st, h, Unmounted(hook[h])), hook[h].held))

\* The vault gate takes everything down, header included, when the vault is
\* locked or its status cannot be read; what it shows again later mounts anew in
\* the same document, over the same tables.
CloseGate ==
    /\ \E h \in Sites : hook[h].alive
    /\ Prompt
    /\ hook' = [h \in Sites |-> Unmounted(hook[h])]
    /\ wire' = [u \in Urls |-> Forgotten(wire[u])] /\ forgotten' = started
    /\ UNCHANGED <<net, started>>

\* A render with another url; its effect runs later.
Render(h) ==
    /\ hook[h].alive /\ hook[h].url = hook[h].held /\ Prompt
    /\ \E u \in SiteUrls[h] \ {hook[h].url} :
           Set(SetHook(st, h, [hook[h] EXCEPT !.url = u]))

Effect(h) ==
    /\ hook[h].alive /\ hook[h].url # hook[h].held
    /\ Set(StartRun(Forget(SetHook(st, h, [hook[h] EXCEPT !.alive = FALSE]), hook[h].held),
                    h, hook[h].url))
    /\ UNCHANGED <<page, prompts>>

Poll(h) == h \in Polls /\ hook[h].alive /\ Prompt /\ Set(Load(st, h, FALSE))

Refetch(h) == h \notin Polls /\ hook[h].alive /\ Prompt /\ Set(Load(st, h, FALSE))

\* A timer's callback finds its run: the automatic one only in the run that
\* set it, the button's while the url its load closed over is wanted.
Due(k, t) == t.gen = k.gen \/ (t.kind = "manual" /\ t.url = k.url)

\* The callback clears the ref, whichever timer the ref named.
Fired(k, t) ==
    [k EXCEPT !.timer = NoTimer, !.orphans = (k.orphans \union Running(k)) \ {t}]

FireTimer(h) ==
    LET k == hook[h]
    IN  \E t \in k.orphans \union Running(k) :
            LET s == SetHook(st, h, Fired(k, t))
            IN  /\ Set(IF k.alive /\ Due(k, t) THEN Load(s, h, FALSE) ELSE s)
                /\ UNCHANGED <<page, prompts>>

\* The wait for another asker's answer: it came, or the grace ran out.
EndWait(h) ==
    LET s == SetHook(st, h, [hook[h] EXCEPT !.waiting = 0])
    IN  /\ hook[h].waiting # 0
        /\ Set(IF Live(hook[h], hook[h].waiting) THEN Load(s, h, TRUE) ELSE s)
        /\ UNCHANGED <<page, prompts>>

\* The adoption window of a shared answer passes.
AgeOut(u) ==
    /\ wire[u].fresh
    /\ Set(SetWire(st, u, [wire[u] EXCEPT !.fresh = FALSE]))
    /\ UNCHANGED <<page, prompts>>

-----------------------------------------------------------------------------
(* What a call site is handed, and the registry.                           *)

Shown(h) == IF hook[h].held = hook[h].url THEN hook[h].data ELSE NoData
ShownError(h) == hook[h].alive /\ hook[h].held = hook[h].url /\ hook[h].error

\* publishFeeds: what FeedUnavailable reads.
FeedSnapshot ==
    [failed   |-> \E h \in Sites : ShownError(h),
     retrying |-> \E h \in Sites : ShownError(h) /\ hook[h].retrying]

Retry(k) == [k EXCEPT !.failures = 0, !.retrying = TRUE,
                      !.timer = [kind |-> "manual", gen |-> k.gen, url |-> k.held]]

\* retryFailedFeeds, behind the button FeedUnavailable shows for a failure
\* nothing is retrying.
RetryFailedFeeds ==
    /\ FeedSnapshot.failed /\ ~FeedSnapshot.retrying /\ Prompt
    /\ hook' = [h \in Sites |-> IF ShownError(h) THEN Retry(hook[h]) ELSE hook[h]]
    /\ UNCHANGED <<net, wire, started, forgotten>>

FNext ==
    \/ \E r \in net : Answer(r)
    \/ \E h \in Sites : \/ Mount(h) \/ Unmount(h) \/ Render(h) \/ Effect(h) \/ Poll(h)
                        \/ Refetch(h) \/ FireTimer(h) \/ EndWait(h)
    \/ \E u \in Urls : AgeOut(u)
    \/ CloseGate \/ RetryFailedFeeds

\* A request ends because fetch settles or its budget aborts it; a timer, an
\* effect and the end of a grace period are the browser's to run.
FFairness ==
    /\ WF_fvars(\E r \in net : Answer(r))
    /\ \A h \in Sites : WF_fvars(Effect(h)) /\ WF_fvars(FireTimer(h)) /\ WF_fvars(EndWait(h))

FSpec == FInit /\ [][FNext]_fvars /\ FFairness

-----------------------------------------------------------------------------
\* What the hooks, the requests and the shared table hold.
MaybeUrl == Urls \union {NoUrl}
Payloads == [url : MaybeUrl, n : Nat]
Timers == [kind : {"none", "auto", "manual"}, gen : Nat, url : MaybeUrl]
Hooks ==
    [alive : BOOLEAN, url : MaybeUrl, held : MaybeUrl, gen : Nat, data : Payloads,
     error : BOOLEAN, loading : BOOLEAN, retrying : BOOLEAN, failures : 0 .. MaxAttempts,
     timer : Timers, orphans : SUBSET (Timers \ {NoTimer}), waiting : Nat]
Requests == [hook : Sites, url : Urls, gen : Nat, seq : Nat, n : Nat]
Wires == [ok : Nat, okSeq : Nat, fresh : BOOLEAN, seq : Nat, asking : Nat]
FTypeOK ==
    /\ page \in Pages /\ prompts \in Nat
    /\ hook \in [Sites -> Hooks] /\ net \subseteq Requests
    /\ wire \in [Urls -> Wires]
    /\ started \in [Urls -> Nat] /\ forgotten \in [Urls -> Nat]

\* What a call site is handed was answered for the url it wants now, through
\* url changes, late answers and the gap before the effect runs (api.js 382-401).
ShownBelongsToUrl == \A h \in Sites : Shown(h) # NoData => Shown(h).url = hook[h].url

\* Of the requests started since a url's sequence was last forgotten, only the
\* newest one's answer may be taken by another call site (api.js 303-342).  The
\* exception is the case publishOk does not see: a request that was in the air
\* when the last call site left has an old number, the numbers begin again, and
\* its answer passes for that of the request that has its number now.
AdoptedIsNewest ==
    \A u \in Urls :
        Adoptable(wire[u]) => wire[u].ok = started[u] \/ wire[u].ok <= forgotten[u]

\* "Trying again" is shown only while something is still on its way: a timer,
\* a request or a wait of this run of the hook (api.js 510-532).
RetryingIsTrue ==
    \A h \in Sites :
        LET k == hook[h]
        IN  k.alive /\ k.url = k.held /\ k.retrying =>
                \/ k.timer # NoTimer
                \/ \E t \in k.orphans : Due(k, t)
                \/ \E r \in net : r.hook = h /\ Live(k, r.gen)
                \/ k.waiting = k.gen

\* A call site is handed answers for the url it wants now, takes none from
\* another but the newest or one older than the url's numbering, and says "trying
\* again" only while something is on its way (api.js 303-342, 382-401, 510-532).
FeedIsTrue == FTypeOK /\ ShownBelongsToUrl /\ AdoptedIsNewest /\ RetryingIsTrue

\* Every mounted feed settles, whatever the server answers: neither loading
\* nor retrying for ever (the attempt cap of api.js 97-107, the bounded wait).
EveryFeedSettles ==
    \A h \in Sites :
        []<>(~hook[h].alive \/ hook[h].url = NoUrl \/ ~(hook[h].loading \/ hook[h].retrying))
=============================================================================
