-------------------------------- MODULE Ask --------------------------------
(***************************************************************************)
(* Where the browser asks and is answered once: the chat and the threat    *)
(* lookup of tabs/Ai.jsx with the provider form that names the chat's      *)
(* destination (AiProviderForm.jsx), and the search page of                *)
(* DossierPage.jsx, which asks five sources at once and sums them up       *)
(* (lib/dossierSummary.js, lib/dossierVerdict.js, lib/indicator.js).       *)
(*                                                                         *)
(* One of the three is followed in a behaviour: they share no state.  A    *)
(* request is sent, served and lands in separate steps.  A handler and the *)
(* render after it are one step; the effects of a new query are another.   *)
(***************************************************************************)
EXTENDS Naturals, Sequences, FiniteSets

CONSTANTS
    Askings,      \* which of "chat", "lookup", "dossier" are followed
    Hosts, NoHost,   \* where the AI provider may be
    Names,        \* what may be looked up
    Addresses,    \* which of the names are IP addresses
    NoName,
    Sources,      \* the sources of the search page
    MaxPresses,   \* bound: questions asked for, lookups, new queries
    MaxMoves      \* bound: visits of the chat, provider changes

ASSUME AskAssumption ==
    /\ Askings \subseteq {"chat", "lookup", "dossier"} /\ NoHost \notin Hosts
    /\ Addresses \subseteq Names /\ NoName \notin Names
    /\ {"assets", "ipam", "threat", "changes"} \subseteq Sources
    /\ Sources \subseteq {"assets", "dns", "ipam", "threat", "changes"}

VARIABLES
    asking,   \* which of the three
    chat,     \* the chat card: visit, items, busy, checking, box, notice
    store,    \* localStorage: whether it works, the hosts understood
    form,     \* the provider form: what is typed, busy, what it says
    host,     \* the server's provider
    look,     \* the threat lookup card
    ledger,   \* the search page: query, rows, mirror, announcer
    calls,    \* requests in the air
    past      \* history: presses, moves, questions sent, hosts understood

askVars == <<asking, chat, store, form, host, look, ledger, calls, past>>
chatRest == <<asking, look, ledger>>
lookRest == <<asking, chat, store, form, host, ledger>>
ledgerRest == <<asking, chat, store, form, host, look>>

NoChat == [open |-> FALSE, visit |-> 0, items |-> << >>, busy |-> FALSE, checking |-> FALSE,
           box |-> FALSE, notice |-> NoHost, here |-> NoHost, link |-> FALSE]
NoForm == [typed |-> NoHost, busy |-> FALSE, says |-> "nothing"]
NoLook == [used |-> NoName, busy |-> FALSE, gen |-> 0, res |-> << >>, intel |-> << >>,
           keptRes |-> NoName, keptIntel |-> NoName, block |-> "idle"]
Row(q, body) == [q |-> q, body |-> body]
NoLedger == [q |-> NoName, due |-> FALSE, rows |-> [s \in Sources |-> Row(NoName, "noquery")],
             mirror |-> [s \in Sources |-> Row(NoName, "noquery")], spoken |-> Sources,
             says |-> [q |-> NoName, about |-> {}, left |-> 0]]

AskInit ==
    /\ asking \in Askings
    /\ chat = NoChat /\ form = NoForm /\ look = NoLook /\ ledger = NoLedger
    /\ store \in [on : BOOLEAN, hosts : {{}}]
    /\ host \in Hosts
    /\ calls = {}
    /\ past = [presses |-> 0, moves |-> 0, sent |-> 0, went |-> {}, understood |-> {}]

Press == past.presses < MaxPresses
Pressed == [past EXCEPT !.presses = @ + 1]
Move == past.moves < MaxMoves
Moved == [past EXCEPT !.moves = @ + 1]

Unserved == "unserved"
Served(r, ans) == (calls \ {r}) \union {[r EXCEPT !.ans = ans]}

-----------------------------------------------------------------------------
(* The chat.                                                               *)

EgressRead(why, c) == [kind |-> why, visit |-> c.visit, here |-> c.here, ans |-> Unserved]

\* readEgress is answered the provider's host, or fails: the host is unknown.
ServeEgress(r) ==
    /\ r.kind \in {"notice", "check"} /\ r.ans = Unserved
    /\ \E h \in {host, NoHost} : calls' = Served(r, h)
    /\ UNCHANGED <<chatRest, chat, store, form, host, past>>

\* A host is accepted when it was understood before, as stored, or in this visit.
Accepted(h, here) == h # NoHost /\ (h \in store.hosts \/ h = here)

OpenChat ==
    /\ asking = "chat" /\ ~chat.open /\ Move
    /\ LET c == [chat EXCEPT !.open = TRUE, !.visit = @ + 1]
       IN  chat' = c /\ calls' = calls \union {EgressRead("notice", c)}
    /\ past' = Moved
    /\ UNCHANGED <<chatRest, store, form, host>>

\* Another tab, or a reload: the items stay in sessionStorage and the address
\* keeps what it holds.  What was asked goes on without the card.
LeaveChat ==
    /\ chat.open
    /\ chat' = [NoChat EXCEPT !.visit = chat.visit, !.items = chat.items, !.link = chat.link]
    /\ UNCHANGED <<chatRest, store, form, host, calls, past>>

NoticeLands(r) ==
    /\ r.kind = "notice" /\ r.ans # Unserved
    /\ chat' = IF chat.open /\ r.visit = chat.visit THEN [chat EXCEPT !.notice = r.ans] ELSE chat
    /\ calls' = calls \ {r}
    /\ UNCHANGED <<chatRest, store, form, host, past>>

\* Understood, for the host the notice names.
Understand ==
    /\ chat.open /\ chat.notice # NoHost /\ ~Accepted(chat.notice, chat.here)
    /\ chat' = [chat EXCEPT !.here = chat.notice]
    /\ store' = IF store.on THEN [store EXCEPT !.hosts = @ \union {chat.notice}] ELSE store
    /\ past' = [past EXCEPT !.understood = @ \union {chat.notice}]
    /\ UNCHANGED <<chatRest, form, host, calls>>

\* submit: one question at a time; one that comes meanwhile waits in the box.
Submit(c, given) ==
    IF c.busy \/ c.checking
    THEN chat' = [c EXCEPT !.box = @ \/ given] /\ UNCHANGED calls
    ELSE /\ chat' = [c EXCEPT !.checking = TRUE]
         /\ calls' = calls \union {EgressRead("check", c)}

\* Typed, a suggestion, or Try again.
Ask ==
    /\ chat.open /\ Press
    /\ \E given \in BOOLEAN :
           /\ given => ~chat.busy
           /\ Submit(IF given THEN chat ELSE [chat EXCEPT !.box = TRUE], given)
    /\ past' = Pressed
    /\ UNCHANGED <<chatRest, store, form, host>>

FollowLink ==
    /\ asking = "chat" /\ Press /\ ~chat.link
    /\ chat' = [chat EXCEPT !.link = TRUE]
    /\ past' = Pressed
    /\ UNCHANGED <<chatRest, store, form, host, calls>>

\* Mutant: the link is asked but stays in the address.
TakeKeepsTheLink ==
    /\ chat.open /\ chat.link /\ ~chat.checking /\ ~chat.busy
    /\ Submit(chat, TRUE)
    /\ UNCHANGED <<chatRest, store, form, host, past>>

\* The question of #ai?q=... is taken off the address and asked.
Take ==
    /\ chat.open /\ chat.link
    /\ Submit([chat EXCEPT !.link = FALSE], TRUE)
    /\ UNCHANGED <<chatRest, store, form, host, past>>

NewChat ==
    /\ chat.open /\ ~chat.busy /\ chat.items # << >>
    /\ chat' = [chat EXCEPT !.items = << >>, !.box = FALSE]
    /\ UNCHANGED <<chatRest, store, form, host, calls, past>>

\* The question is sent whether or not its card is still there.
SendQuestion(c, r, mine) ==
    LET n == past.sent + 1
    IN  /\ chat' = IF mine THEN [c EXCEPT !.busy = TRUE, !.box = FALSE,
                                          !.items = Append(@, [role |-> "user", n |-> n])]
                   ELSE c
        /\ past' = [past EXCEPT !.sent = n]
        /\ calls' = (calls \ {r}) \union
                    {[kind |-> "question", visit |-> r.visit, n |-> n, checked |-> r.ans,
                      ans |-> Unserved]}

\* Where the question would go was read afresh: an unaccepted host keeps it in
\* the box.
CheckLands(r) ==
    LET mine == chat.open /\ r.visit = chat.visit
        c == IF mine THEN [chat EXCEPT !.checking = FALSE, !.notice = r.ans] ELSE chat
    IN  /\ r.kind = "check" /\ r.ans # Unserved
        /\ IF Accepted(r.ans, r.here)
             THEN SendQuestion(c, r, mine)
             ELSE /\ chat' = IF mine THEN [c EXCEPT !.box = TRUE] ELSE c
                  /\ calls' = calls \ {r} /\ UNCHANGED past
        /\ UNCHANGED <<chatRest, store, form, host>>

\* The server asks its provider of the moment, or cannot.
ServeQuestion(r) ==
    /\ r.kind = "question" /\ r.ans = Unserved
    /\ \/ /\ calls' = Served(r, "assistant")
          /\ past' = [past EXCEPT !.went = @ \union {[to |-> host, checked |-> r.checked]}]
       \/ calls' = Served(r, "error") /\ UNCHANGED past
    /\ UNCHANGED <<chatRest, chat, store, form, host>>

AnswerLands(r) ==
    /\ r.kind = "question" /\ r.ans # Unserved
    /\ chat' = IF chat.open /\ r.visit = chat.visit
               THEN [chat EXCEPT !.busy = FALSE,
                                 !.items = Append(@, [role |-> r.ans, n |-> r.n])]
               ELSE chat
    /\ calls' = calls \ {r}
    /\ UNCHANGED <<chatRest, store, form, host, past>>

-----------------------------------------------------------------------------
(* The provider form.                                                      *)

TypeProvider(h) ==
    /\ asking = "chat" /\ Move /\ h # form.typed
    /\ form' = [form EXCEPT !.typed = h, !.says = "nothing"]
    /\ past' = Moved
    /\ UNCHANGED <<chatRest, chat, store, host, calls>>

\* Find models, Test and Save: one at a time, with what is typed now.
SendProvider(op) ==
    /\ form.typed # NoHost /\ ~form.busy
    /\ form' = [form EXCEPT !.busy = TRUE, !.says = "nothing"]
    /\ calls' = calls \union {[kind |-> op, to |-> form.typed, ans |-> Unserved]}
    /\ UNCHANGED <<chatRest, chat, store, host, past>>

ServeProvider(r) ==
    /\ r.kind \in {"test", "save"} /\ r.ans = Unserved
    /\ \/ calls' = Served(r, "ok") /\ host' = (IF r.kind = "save" THEN r.to ELSE host)
       \/ calls' = Served(r, "refused") /\ UNCHANGED host
    /\ UNCHANGED <<chatRest, chat, store, form, past>>

ProviderLands(r) ==
    /\ r.kind \in {"test", "save"} /\ r.ans # Unserved
    /\ form' = [form EXCEPT !.busy = FALSE, !.says = r.ans]
    /\ calls' = calls \ {r}
    /\ UNCHANGED <<chatRest, chat, store, host, past>>

-----------------------------------------------------------------------------
(* The threat lookup.                                                      *)

HasVerdict(body) == body \in {"malicious", "clean", "unassessed"}
EntitiesFailed == look.res # << >> /\ look.res[1].ans \in {"degraded", "failed"}
IntelFailed == look.intel # << >> /\ ~HasVerdict(look.intel[1].ans)

\* The last good answer of the same search, under the failure of a retry.
KeptResShown == EntitiesFailed /\ look.keptRes = look.used
KeptIntelShown == IntelFailed /\ look.keptIntel = look.used

\* lookup(): Enter is not stopped by the disabled button, so busy is asked.
Lookup(q) ==
    /\ asking = "lookup" /\ Press /\ ~look.busy
    /\ look' = [look EXCEPT !.used = q, !.busy = TRUE, !.gen = @ + 1, !.res = << >>,
                            !.intel = << >>, !.block = "idle"]
    /\ calls' = calls \union {[kind |-> k, q |-> q, gen |-> look.gen + 1, ans |-> Unserved] :
                                  k \in {"entities", "intel"}}
    /\ past' = Pressed
    /\ UNCHANGED lookRest

ServeLookup(r) ==
    /\ r.kind \in {"entities", "intel"} /\ r.ans = Unserved
    /\ \E a \in IF r.kind = "entities" THEN {"rows", "degraded", "failed"} ELSE {"clean", "down"} :
           calls' = Served(r, a)
    /\ UNCHANGED <<lookRest, look, past>>

Entities(r) ==
    [look EXCEPT !.busy = FALSE, !.res = <<[q |-> r.q, ans |-> r.ans]>>,
                 !.keptRes = IF r.ans = "rows" THEN r.q ELSE @]
Intel(r) ==
    [look EXCEPT !.intel = <<[q |-> r.q, ans |-> r.ans]>>,
                 !.keptIntel = IF HasVerdict(r.ans) THEN r.q ELSE @]

\* Mutant: a lookup lands whatever name is on screen by then.
LookupLandsAnyTime(r) ==
    /\ r.kind \in {"entities", "intel"} /\ r.ans # Unserved
    /\ look' = IF r.kind = "entities" THEN Entities(r) ELSE Intel(r)
    /\ calls' = calls \ {r}
    /\ UNCHANGED <<lookRest, past>>

\* An answer counts only for the lookup it was requested in.
LookupLands(r) ==
    /\ r.kind \in {"entities", "intel"} /\ r.ans # Unserved
    /\ look' = IF r.gen # look.gen THEN look
               ELSE IF r.kind = "entities" THEN Entities(r) ELSE Intel(r)
    /\ calls' = calls \ {r}
    /\ UNCHANGED <<lookRest, past>>

\* BlockDomainButton: drawn once a part has answered, off while a kept result
\* is shown, gone (and its answer with it) at the next lookup.
BlockOffered ==
    /\ (look.res # << >> /\ look.res[1].ans # "failed") \/ look.intel # << >>
    /\ ~KeptResShown /\ ~KeptIntelShown

RunBlock ==
    /\ BlockOffered /\ look.block # "busy"
    /\ look' = [look EXCEPT !.block = "busy"]
    /\ calls' = calls \union {[kind |-> IF look.block = "blocked" THEN "unblock" ELSE "block",
                               q |-> look.used, gen |-> look.gen, ans |-> Unserved]}
    /\ UNCHANGED <<lookRest, past>>

BlockLands(r) ==
    /\ r.kind \in {"block", "unblock"}
    /\ \E ok \in BOOLEAN :
           look' = IF r.gen # look.gen THEN look
                   ELSE [look EXCEPT !.block = IF ~ok THEN "error"
                                               ELSE IF r.kind = "block" THEN "blocked" ELSE "idle"]
    /\ calls' = calls \ {r}
    /\ UNCHANGED <<lookRest, past>>
-----------------------------------------------------------------------------
(* The search page.                                                        *)

\* What a row is before any request: a source that cannot be asked is not.
SettledBefore(s, q) ==
    IF q = NoName THEN "noquery"
    ELSE IF s = "changes" \/ (s = "ipam" /\ q \notin Addresses) THEN "na"
    ELSE "loading"

\* A body that says neither is one nothing is known from, and never a "none".
StateOf(body) ==
    CASE body = "rows" \/ HasVerdict(body) -> "ok"
      [] body = "zero" -> "none"
      [] body \in {"odd", "down", "nosources"} -> "error"
      [] OTHER -> body

Bodies(s) == IF s = "threat" THEN {"malicious", "clean", "unassessed", "nosources", "down"}
                             ELSE {"rows", "zero", "unsupported", "odd", "down"}

\* The address names another query, and the page renders it with what it holds.
Search(q) ==
    /\ asking = "dossier" /\ Press /\ ~ledger.due /\ q # ledger.q
    /\ ledger' = [ledger EXCEPT !.q = q, !.due = TRUE]
    /\ past' = Pressed
    /\ UNCHANGED <<ledgerRest, calls>>

\* The effects of a new query: each row asks its source anew and reports so to
\* the page, and the announcer starts over.
Effects ==
    LET rows == [s \in Sources |-> Row(ledger.q, SettledBefore(s, ledger.q))]
    IN  /\ ledger.due
        /\ ledger' = [ledger EXCEPT !.due = FALSE, !.rows = rows, !.mirror = rows, !.spoken = {},
                          !.says = [q |-> ledger.q, about |-> {}, left |-> 0]]
        /\ calls' = calls \union
              {[kind |-> "source", s |-> s, q |-> ledger.q, turn |-> past.presses,
                ans |-> Unserved] : s \in {x \in Sources : rows[x].body = "loading"}}
        /\ UNCHANGED <<ledgerRest, past>>

SetRow(r, body) ==
    /\ ledger' = IF r.turn = past.presses
                 THEN [ledger EXCEPT !.rows[r.s] = Row(r.q, body), !.mirror[r.s] = Row(r.q, body)]
                 ELSE ledger
    /\ calls' = calls \ {r}
    /\ UNCHANGED <<ledgerRest, past>>

\* An answer of the query shown; the effects of a query run before any.
SourceLands(r) ==
    /\ r.kind = "source" /\ ~ledger.due
    /\ \E body \in Bodies(r.s) : SetRow(r, body)

\* Mutant: a row waits for its source for ever.
NeverGivesUp(r) == r.kind = "source" /\ r.ans # Unserved /\ SetRow(r, "down")

\* The 45 seconds are over: no answer is an error, and said to be one.
GiveUp(r) == r.kind = "source" /\ ~ledger.due /\ SetRow(r, "down")

Settled == {s \in Sources : StateOf(ledger.mirror[s].body) # "loading"}

\* What settled since, in one sentence, with how many are still to come.
Announce ==
    LET news == Settled \ ledger.spoken
        spoken == ledger.spoken \union news
    IN  /\ ~ledger.due /\ news # {}
        /\ ledger' = [ledger EXCEPT !.spoken = spoken,
                          !.says = [q |-> ledger.q, about |-> news,
                                    left |-> Cardinality(Sources) - Cardinality(spoken)]]
        /\ UNCHANGED <<ledgerRest, calls, past>>

\* The plain answer on top, from what the sources have reported to the page.
UsedBy == Sources \intersect {"assets", "dns", "ipam"}
Summary ==
    LET state == [s \in UsedBy |-> StateOf(ledger.mirror[s].body)]
        askable == {s \in UsedBy : state[s] # "na"}
    IN  IF ledger.q = NoName \/ \E s \in UsedBy : state[s] \in {"loading", "noquery"} THEN "nothing"
        ELSE IF \E s \in askable : state[s] = "ok" THEN "in use"
        ELSE IF \E s \in askable : state[s] # "none" THEN "could not be checked"
        ELSE "free"
Verdict == IF StateOf(ledger.mirror["threat"].body) = "ok" THEN ledger.mirror["threat"].body
                                                           ELSE "unknown"

-----------------------------------------------------------------------------
AskNext ==
    \/ OpenChat \/ LeaveChat \/ Understand \/ Ask \/ FollowLink \/ Take \/ NewChat
    \/ \E h \in Hosts : TypeProvider(h)
    \/ \E op \in {"test", "save"} : SendProvider(op)
    \/ \E q \in Names : Lookup(q)
    \/ \E q \in Names \union {NoName} : Search(q)
    \/ RunBlock \/ Effects \/ Announce
    \/ \E r \in calls :
           \/ ServeEgress(r) \/ NoticeLands(r) \/ CheckLands(r) \/ ServeQuestion(r)
           \/ AnswerLands(r) \/ ServeProvider(r) \/ ProviderLands(r) \/ ServeLookup(r)
           \/ LookupLands(r) \/ BlockLands(r) \/ SourceLands(r) \/ GiveUp(r)

\* The browser runs effects and timers; no server has to answer.
AskFairness ==
    /\ WF_askVars(Effects) /\ WF_askVars(Announce)
    /\ WF_askVars(\E r \in calls : GiveUp(r))

AskSpec == AskInit /\ [][AskNext]_askVars /\ AskFairness

-----------------------------------------------------------------------------
\* What the three pages, the server and the requests between them hold.
MaybeHost == Hosts \union {NoHost}
MaybeName == Names \union {NoName}
LookBodies == {"rows", "degraded", "failed", "clean", "down"}
RowBodies == {"noquery", "na", "loading"} \union UNION {Bodies(s) : s \in Sources}
EgressReads ==
    [kind : {"notice", "check"}, visit : Nat, here : MaybeHost, ans : MaybeHost \union {Unserved}]
Questions ==
    [kind : {"question"}, visit : Nat, n : Nat, checked : Hosts,
     ans : {Unserved, "assistant", "error"}]
ProviderCalls == [kind : {"test", "save"}, to : Hosts, ans : {Unserved, "ok", "refused"}]
Lookups ==
    [kind : {"entities", "intel"}, q : Names, gen : Nat, ans : LookBodies \union {Unserved}]
Blocks == [kind : {"block", "unblock"}, q : Names, gen : Nat, ans : {Unserved}]
SourceCalls == [kind : {"source"}, s : Sources, q : Names, turn : Nat, ans : {Unserved}]
Calls ==
    EgressReads \union Questions \union ProviderCalls \union Lookups \union Blocks
        \union SourceCalls
Items == [role : {"user", "assistant", "error"}, n : Nat]
Chats ==
    [open : BOOLEAN, visit : Nat, items : Seq(Items), busy : BOOLEAN, checking : BOOLEAN,
     box : BOOLEAN, notice : MaybeHost, here : MaybeHost, link : BOOLEAN]
ProviderForms == [typed : MaybeHost, busy : BOOLEAN, says : {"nothing", "ok", "refused"}]
Found == [q : Names, ans : LookBodies]
Looks ==
    [used : MaybeName, busy : BOOLEAN, gen : Nat, res : Seq(Found), intel : Seq(Found),
     keptRes : MaybeName, keptIntel : MaybeName, block : {"idle", "busy", "blocked", "error"}]
LedgerRows == [Sources -> [q : MaybeName, body : RowBodies]]
Ledgers ==
    [q : MaybeName, due : BOOLEAN, rows : LedgerRows, mirror : LedgerRows,
     spoken : SUBSET Sources, says : [q : MaybeName, about : SUBSET Sources, left : Nat]]
Pasts ==
    [presses : Nat, moves : Nat, sent : Nat, went : SUBSET [to : Hosts, checked : Hosts],
     understood : SUBSET Hosts]
AskTypeOK ==
    /\ asking \in Askings /\ host \in Hosts /\ calls \subseteq Calls
    /\ chat \in Chats /\ store \in [on : BOOLEAN, hosts : SUBSET Hosts]
    /\ form \in ProviderForms /\ look \in Looks /\ ledger \in Ledgers /\ past \in Pasts

\* Unless the provider is changed between the check and the question, tenant
\* data goes only to a host whose notice was understood (Ai.jsx 727-729).
SentWhereUnderstood ==
    \A w \in past.went : w.to = w.checked => w.to \in past.understood

\* A question is asked once for every time somebody asked it: a link that is
\* reloaded or gone back to does not ask, and spend, again (Ai.jsx 363-365).
AskedOnce ==
    past.sent + Cardinality({r \in calls : r.kind = "check"}) <= past.presses

\* Every question shown is answered, or about to be: going to another page and
\* back keeps the chat (Ai.jsx 255).  False: an answer that lands while the card
\* is not on screen is dropped.
AskedIsAnswered ==
    \A i \in DOMAIN chat.items : chat.items[i].role = "user" =>
        \/ \E r \in calls : r.kind = "question" /\ r.n = chat.items[i].n
        \/ \E j \in DOMAIN chat.items : j > i /\ chat.items[j].n = chat.items[i].n

\* What the lookup shows, its own answers and the kept ones, is about the name
\* it says, however late an earlier lookup answers (Ai.jsx 624-627).
LookupShowsItsOwn ==
    /\ look.res # << >> => look.res[1].q = look.used
    /\ look.intel # << >> => look.intel[1].q = look.used

\* "Free" is said only when every source that can be asked answered a real
\* zero for this name, and "no threat intel flags it" only when a source
\* assessed it (DossierPage.jsx 25-55, dossierVerdict.js 10-15).
SummaryIsEarned ==
    ~ledger.due =>
        /\ Summary = "free" => \A s \in UsedBy :
               ledger.mirror[s] \in {Row(ledger.q, "zero"), Row(ledger.q, "na")}
        /\ Summary = "in use" => \E s \in UsedBy : ledger.mirror[s] = Row(ledger.q, "rows")
        /\ Verdict = "clean" => ledger.mirror["threat"] = Row(ledger.q, "clean")

\* What is said aloud is about the query shown, never that more sources have
\* answered than have, and at last that all have (DossierPage.jsx 685-704).
AnnouncedIsTrue ==
    ~ledger.due =>
        /\ ledger.says.q = ledger.q
        /\ ledger.says.about # {} => Cardinality(Sources \ Settled) <= ledger.says.left
        /\ ledger.q # NoName /\ ledger.spoken = Sources =>
               ledger.says.about # {} /\ ledger.says.left = 0

\* Tenant data goes only where its notice was understood, once for every time
\* somebody asked (Ai.jsx 363-365, 727-729).
QuestionsGoWhereMeant == AskTypeOK /\ SentWhereUnderstood /\ AskedOnce

\* The lookup's answers are about the name it says, and the search page says
\* "free", "clean" or how many are left only as its sources have answered
\* (Ai.jsx 624-627, DossierPage.jsx 25-55, 685-704).
AnswersAreTheirOwn == LookupShowsItsOwn /\ SummaryIsEarned /\ AnnouncedIsTrue

\* A section that will never be answered says so, and is heard: no skeleton is
\* for ever (DossierPage.jsx 308-312).
EveryRowIsSaid == []<>(~ledger.due /\ Settled = Sources /\ ledger.spoken = Sources)
=============================================================================
