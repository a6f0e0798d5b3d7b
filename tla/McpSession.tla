------------------------------ MODULE McpSession ------------------------------
(***************************************************************************)
(* The session the server keeps with the portal's query endpoint            *)
(* (mcp/mcp.go): a handshake opens it, every call sends its id, and the     *)
(* endpoint may drop it.  It belongs to the identity that opened it, while  *)
(* that identity may change between any two steps of any caller.            *)
(*                                                                         *)
(* initMu is held for a whole handshake, c.mu for single reads and writes.  *)
(* The endpoint is external.                                                *)
(***************************************************************************)
EXTENDS Naturals, Sequences

CONSTANTS
    Askers,     \* goroutines that query
    Auths,        \* values Authorization may have
    NoSession, NoHolder,
    MaxSessions,  \* bound: sessions the endpoint opens
    MaxTurns      \* bound: changes of identity

ASSUME McpAssumption == NoHolder \notin Askers /\ NoSession = 0 /\ MaxSessions \in Nat /\ MaxTurns \in Nat

VARIABLES
    auth,     \* what c.auth() answers now
    turns,    \* changes of it
    session,  \* sessionID and sessionAuth
    ready,    \* initialized
    holder,   \* who holds initMu
    asker,    \* per caller: where it is, and its request
    opened    \* the endpoint's sessions by number: who opened each, and whether it lives

mcpVars == <<auth, turns, session, ready, holder, asker, opened>>

AskerSteps == {"idle", "entering", "starting", "calling", "stamping", "sent", "served"}
Asks == {"initialize", "initialized", "call"}
Replies == {"none", "ok", "gone", "failed"}
NoAsk == [pc |-> "idle", what |-> "call", auth |-> CHOOSE a \in Auths : TRUE, sid |-> NoSession,
          reply |-> "none", got |-> NoSession]

McpInit ==
    /\ auth \in Auths /\ turns = 0
    /\ session = [id |-> NoSession, auth |-> NoAsk.auth]
    /\ ready = FALSE /\ holder = NoHolder
    /\ asker = [c \in Askers |-> NoAsk]
    /\ opened = <<>>

Now(c, step) == asker[c].pc = step
Becomes(c, with) == asker' = [asker EXCEPT ![c] = with]

-----------------------------------------------------------------------------
(* Initialize.                                                             *)
WantSession(c) ==
    /\ Now(c, "idle") /\ Becomes(c, [NoAsk EXCEPT !.pc = "entering"])
    /\ UNCHANGED <<auth, turns, session, ready, holder, opened>>

LockInit(c) ==
    /\ Now(c, "entering") /\ holder = NoHolder /\ holder' = c
    /\ Becomes(c, [asker[c] EXCEPT !.pc = "starting", !.auth = auth])
    /\ UNCHANGED <<auth, turns, session, ready, opened>>

\* A handshake made for this identity is not made again.
CheckSession(c) ==
    /\ Now(c, "starting")
    /\ IF ready /\ session.id # NoSession /\ session.auth = asker[c].auth
       THEN holder' = NoHolder /\ Becomes(c, [asker[c] EXCEPT !.pc = "calling", !.what = "call"])
       ELSE UNCHANGED holder /\ Becomes(c, [asker[c] EXCEPT !.pc = "calling", !.what = "initialize"])
    /\ UNCHANGED <<auth, turns, session, ready, opened>>

-----------------------------------------------------------------------------
(* post: the identity is read first, the session's id after it.            *)
ReadAuth(c) ==
    /\ Now(c, "calling") /\ Becomes(c, [asker[c] EXCEPT !.pc = "stamping", !.auth = auth])
    /\ UNCHANGED <<auth, turns, session, ready, holder, opened>>

\* Mutant: the id of whatever session there is goes along.
StampAnySession(c) ==
    /\ Now(c, "stamping")
    /\ Becomes(c, [asker[c] EXCEPT !.pc = "sent", !.sid = session.id])
    /\ UNCHANGED <<auth, turns, session, ready, holder, opened>>

StampSession(c) ==
    /\ Now(c, "stamping")
    /\ Becomes(c, [asker[c] EXCEPT !.pc = "sent",
                       !.sid = IF session.auth = asker[c].auth THEN session.id ELSE NoSession])
    /\ UNCHANGED <<auth, turns, session, ready, holder, opened>>

\* The endpoint opens a session for a handshake, also one it then fails; it
\* may answer "gone" to the id of a session it has dropped.
Serve(c) ==
    LET q == asker[c]
        says(reply, got) == Becomes(c, [q EXCEPT !.pc = "served", !.reply = reply, !.got = got])
    IN  /\ Now(c, "sent")
        /\ \/ q.sid # NoSession /\ ~opened[q.sid].lives /\ says("gone", NoSession) /\ UNCHANGED opened
           \/ /\ q.what = "initialize" /\ Len(opened) < MaxSessions
              /\ opened' = Append(opened, [by |-> q.auth, lives |-> TRUE])
              /\ \E reply \in {"ok", "failed"} : says(reply, Len(opened'))
           \/ says("ok", NoSession) /\ UNCHANGED opened
              /\ q.what # "initialize" /\ (q.sid # NoSession => opened[q.sid].lives)
           \/ says("failed", NoSession) /\ UNCHANGED opened
        /\ UNCHANGED <<auth, turns, session, ready, holder>>

\* Only a handshake's reply sets the session; a refusal ends the one it was
\* asked with, if that is still the client's.
TakeReply(q) ==
    IF q.what = "initialize"
    THEN session' = IF q.got # NoSession THEN [id |-> q.got, auth |-> q.auth] ELSE session
    ELSE session' = IF q.reply = "gone" /\ session = [id |-> q.sid, auth |-> q.auth]
                    THEN [session EXCEPT !.id = NoSession] ELSE session

\* What Initialize, and then its caller, make of the reply: a refused
\* "initialized" does not fail the handshake.
ReplyLands(c) ==
    LET q == asker[c]
        next(what) == Becomes(c, [NoAsk EXCEPT !.pc = "calling", !.what = what])
    IN  /\ Now(c, "served") /\ TakeReply(q)
        /\ CASE q.what = "initialize" /\ q.reply = "ok" ->
                    next("initialized") /\ UNCHANGED <<ready, holder>>
             [] q.what = "initialize" /\ q.reply # "ok" ->
                    Becomes(c, NoAsk) /\ ready' = FALSE /\ holder' = NoHolder
             [] q.what = "initialized" ->
                    next("call") /\ ready' = TRUE /\ holder' = NoHolder
             [] q.what = "call" ->
                    Becomes(c, NoAsk) /\ UNCHANGED <<ready, holder>>
        /\ UNCHANGED <<auth, turns, opened>>

\* The call's own time limit, with no reply.
Expires(c) ==
    /\ Now(c, "sent") /\ Becomes(c, [asker[c] EXCEPT !.pc = "served", !.reply = "failed"])
    /\ UNCHANGED <<auth, turns, session, ready, holder, opened>>

-----------------------------------------------------------------------------
\* A tenant switch, or a replaced key.
IdentityTurns ==
    /\ turns < MaxTurns /\ turns' = turns + 1
    /\ \E a \in Auths : a # auth /\ auth' = a
    /\ UNCHANGED <<session, ready, holder, asker, opened>>

EndpointDrops(s) ==
    /\ opened[s].lives /\ opened' = [opened EXCEPT ![s].lives = FALSE]
    /\ UNCHANGED <<auth, turns, session, ready, holder, asker>>

AskerStep(c) ==
    CheckSession(c) \/ ReadAuth(c) \/ StampSession(c) \/ Serve(c) \/ ReplyLands(c)

McpNext ==
    \/ \E c \in Askers : WantSession(c) \/ LockInit(c) \/ AskerStep(c) \/ Expires(c)
    \/ IdentityTurns \/ \E s \in DOMAIN opened : EndpointDrops(s)

McpFairness == \A c \in Askers : WF_mcpVars(AskerStep(c) \/ Expires(c))

McpSpec == McpInit /\ [][McpNext]_mcpVars /\ McpFairness

-----------------------------------------------------------------------------
\* What the client, its callers and the endpoint hold; initMu is held by the
\* caller that is in its handshake.
McpTypeOK ==
    /\ auth \in Auths /\ turns \in 0 .. MaxTurns /\ ready \in BOOLEAN
    /\ opened \in Seq([by : Auths, lives : BOOLEAN])
    /\ session \in [id : 0 .. Len(opened), auth : Auths]
    /\ asker \in [Askers -> [pc : AskerSteps, what : Asks, auth : Auths, sid : 0 .. Len(opened),
                               reply : Replies, got : 0 .. Len(opened)]]
    /\ \A c \in Askers :
           (holder = c) <=> \/ Now(c, "starting")
                            \/ asker[c].what # "call"

\* No request carries one identity's session under another identity's key
\* (mcp.go 176-180, 297-305), however the identity changes between its steps.
SessionStaysHome ==
    \A c \in Askers : asker[c].sid # NoSession => opened[asker[c].sid].by = asker[c].auth

\* A late refusal, or a late reply, never takes away a session that a newer
\* handshake opened (mcp.go 336-357).
NewerSessionStays ==
    /\ session'.id = NoSession /\ session.id # NoSession => ~opened[session.id].lives
    /\ session'.id # NoSession => session'.id >= session.id

\* What the session promises in every step: what a request is sent with is
\* its own identity's, and no newer session is lost.
SessionsStayHome == [][SessionStaysHome' /\ NewerSessionStays]_mcpVars

\* Every query ends, and so every handshake gives the lock back to those who
\* wait for it (mcp.go 224-226, 291-295, 586-645).
QueriesEnd == \A c \in Askers : []<>(Now(c, "idle") \/ Now(c, "entering"))
=============================================================================
