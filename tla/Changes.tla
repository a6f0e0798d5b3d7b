------------------------------- MODULE Changes -------------------------------
(***************************************************************************)
(* What changed in the last 24 hours (Changes.jsx, changes.js): the page   *)
(* asks for the events since a moment it fixed when it was opened, gets    *)
(* the newest RowCap of them, keeps those its own clock puts in the last   *)
(* day, and answers questions of them, or says that it cannot.  The        *)
(* server's clock, which stamps the events, may differ from the browser's. *)
(***************************************************************************)
EXTENDS Integers, Sequences, SequencesExt

CONSTANTS
    Users,       \* who acts
    DayLength,   \* 24 hours
    RowCap500,   \* 500 in the code, here and at the server
    MinHistory,  \* two hours
    Skews,       \* how far the two clocks run ahead: [server, browser]
    MaxTime, MaxEvents \* bounds: the last moment, events logged

ASSUME ChangesAssumption ==
    /\ DayLength \in Nat /\ RowCap500 \in Nat \ {0} /\ MinHistory \in Nat \ {0}
    /\ Skews \subseteq [server : Nat, browser : Nat]

VARIABLES
    time,    \* the time, and
    skew,    \* how far each clock is ahead of it
    audit,   \* the server's log: [at, who]
    feed,    \* the page: opened, since, clock (nowMs), the payload and whether the last poll failed
    poll     \* the read in the air

changeVars == <<time, skew, audit, feed, poll>>

NoPayload == [status |-> "none", rows |-> <<>>, truncated |-> FALSE, asOf |-> 0]
ServerClock == time + skew.server
BrowserClock == time + skew.browser
Closed == [open |-> FALSE, since |-> 0, clock |-> 0, payload |-> NoPayload,
           error |-> FALSE, loading |-> TRUE]
NoPoll == [sent |-> FALSE, answer |-> NoPayload]

ChangesInit ==
    /\ time = 0 /\ skew \in Skews /\ audit = <<>> /\ feed = Closed /\ poll = NoPoll

\* Someone changes something.
SomeoneActs(who) ==
    /\ Len(audit) < MaxEvents
    /\ audit' = Append(audit, [at |-> ServerClock, who |-> who])
    /\ UNCHANGED <<time, skew, feed, poll>>

TimePasses ==
    /\ time < MaxTime /\ time' = time + 1
    /\ UNCHANGED <<skew, audit, feed, poll>>

OpenChanges ==
    /\ ~feed.open
    /\ feed' = [Closed EXCEPT !.open = TRUE, !.since = BrowserClock - DayLength, !.clock = BrowserClock]
    /\ poll' = [NoPoll EXCEPT !.sent = TRUE]
    /\ UNCHANGED <<time, skew, audit>>

\* The page reads its clock every half minute, and polls every minute.
TickClock ==
    /\ feed.open /\ feed.clock # BrowserClock
    /\ feed' = [feed EXCEPT !.clock = BrowserClock]
    /\ UNCHANGED <<time, skew, audit, poll>>

PollChanges ==
    /\ feed.open /\ ~poll.sent
    /\ poll' = [NoPoll EXCEPT !.sent = TRUE]
    /\ UNCHANGED <<time, skew, audit, feed>>

\* The events from a moment on.
Since(s, from) ==
    LET kept[n \in 0 .. Len(s)] ==
            IF n = 0 THEN <<>>
            ELSE IF s[n].at >= from THEN Append(kept[n - 1], s[n]) ELSE kept[n - 1]
    IN  kept[Len(s)]

\* CSPAudit: the newest of the events asked for, and whether there may be more;
\* or a read that failed, told with status "error".
Events ==
    LET asked == Since(audit, feed.since)
        kept == IF Len(asked) > RowCap500
                THEN SubSeq(asked, Len(asked) - RowCap500 + 1, Len(asked)) ELSE asked
    IN  [status |-> "ok", rows |-> kept, truncated |-> Len(kept) >= RowCap500, asOf |-> ServerClock]
ReadFailed == [NoPayload EXCEPT !.status = "error"]

ServeChanges ==
    /\ poll.sent /\ poll.answer.status = "none"
    /\ \E answer \in {Events, ReadFailed} : poll' = [poll EXCEPT !.answer = answer]
    /\ UNCHANGED <<time, skew, audit, feed>>

ChangesLand ==
    /\ poll.answer.status # "none"
    /\ feed' = [feed EXCEPT !.payload = poll.answer, !.error = FALSE, !.loading = FALSE]
    /\ poll' = NoPoll
    /\ UNCHANGED <<time, skew, audit>>

\* A failed poll keeps the payload there was.
ChangesLost ==
    /\ poll.sent /\ poll' = NoPoll
    /\ feed' = [feed EXCEPT !.error = TRUE, !.loading = FALSE]
    /\ UNCHANGED <<time, skew, audit>>

ChangesNext ==
    \/ \E who \in Users : SomeoneActs(who)
    \/ TimePasses \/ OpenChanges \/ TickClock \/ PollChanges
    \/ ServeChanges \/ ChangesLand \/ ChangesLost

ChangesSpec == ChangesInit /\ [][ChangesNext]_changeVars

-----------------------------------------------------------------------------
\* What the server and the page hold, each by its own clock.
LogEntries == [at : Nat, who : Users]
ChangePayloads == [status : {"none", "ok", "error"}, rows : Seq(LogEntries), truncated : BOOLEAN, asOf : Nat]
ChangesTypeOK ==
    /\ time \in Nat /\ skew \in Skews /\ audit \in Seq(LogEntries)
    /\ feed \in [open : BOOLEAN, since : Int, clock : Nat, payload : ChangePayloads,
                 error : BOOLEAN, loading : BOOLEAN]
    /\ poll \in [sent : BOOLEAN, answer : ChangePayloads]

(* What the page says of the rows.                                         *)

\* Both edges of the window are kept; of the rows, which there are matters.
withinWindow ==
    {e \in Range(feed.payload.rows) : feed.clock - DayLength <= e.at /\ e.at <= feed.clock}

\* A read that failed is not a quiet day.
feedState ==
    IF feed.loading THEN "loading"
    ELSE IF feed.error \/ feed.payload.status # "ok" THEN "unavailable"
    ELSE IF withinWindow # {} THEN "ok" ELSE "empty"

Moments == {e.at : e \in withinWindow}
dataSpan ==
    IF Moments = {} THEN [first |-> 0, last |-> 0]
    ELSE [first |-> Min(Moments), last |-> Max(Moments)]

ActorsAfter(moment) ==
    LET earlier == {e.who : e \in {r \in withinWindow : 2 * r.at <= moment}}
        recent == {e.who : e \in {r \in withinWindow : 2 * r.at > moment}}
    IN  recent \ earlier

NewHowever ==
    IF dataSpan.last - dataSpan.first < MinHistory THEN [status |-> "unknown", who |-> {}]
    ELSE [status |-> "ok", who |-> ActorsAfter(dataSpan.first + dataSpan.last)]

\* Mutant: the rows the server cut off are taken for rows that never were.
NewThoughCut == NewHowever

\* Who acted in the later half of what is there and never in the earlier;
\* unknown when the cap was hit, or the span is too short.
newActors ==
    IF feed.payload.truncated THEN [status |-> "unknown", who |-> {}] ELSE NewHowever

\* The cell of the band: a count, a proven zero, or no answer.
notability ==
    IF newActors.status = "unknown" THEN "unknown"
    ELSE IF newActors.who # {} THEN "populated" ELSE "none"

\* The notice that the cap was hit stands in every state of the page.
capNotice == feed.open /\ feed.payload.truncated

SaysNothingChanged == feed.open /\ feedState = "empty"
BandShown == feed.open /\ feedState \in {"ok", "empty"}

Happened(from, to) == {e \in Range(audit) : from <= e.at /\ e.at <= to}

\* "Nothing changed in the last 24 hours", with no notice of the cap beside it,
\* is said only when nothing was stamped in them, as far as the page's clock
\* and the newest answer reach: not after a failed read, nor of a page left
\* open.  What a server ahead of the browser has stamped later is not reached
\* (changes.js 28-45, 178-190).
QuietMeansQuiet ==
    SaysNothingChanged /\ ~capNotice =>
        Happened(feed.clock - DayLength, Min({feed.clock, feed.payload.asOf - 1})) = {}

\* An actor called new did not act in the earlier half: not in the rows on screen,
\* nor in those of the window the server did not send (changes.js 238-257).
NewActorsAreNew ==
    BandShown /\ notability = "populated" =>
        \A e \in Happened(feed.clock - DayLength, feed.clock) :
            2 * e.at <= dataSpan.first + dataSpan.last => e.who \notin newActors.who

\* The Changes page says a quiet day only of one, and calls nobody new who
\* acted before (changes.js 43-112, 260-290).
ChangesAreTrue == ChangesTypeOK /\ QuietMeansQuiet /\ NewActorsAreNew

\* The notice that rows are missing is true of the window.  False: the events
\* asked for are those since the page was opened, less a day, however long it
\* stays open, so the cap may have dropped none of the last day's.
CapNoticeIsTrue ==
    capNotice /\ BandShown =>
        withinWindow # Happened(feed.clock - DayLength, feed.clock)
=============================================================================
