---------------------------- MODULE BrowserProofs ----------------------------
(***************************************************************************)
(* What the browser promises outside its pages, for any call sites, urls,  *)
(* hosts, names and sources.                                               *)
(*                                                                         *)
(* Ask: a request in the air is told by its kind, so that each part of the *)
(* invariant says which kinds disturb it.  Feeds: a handler is an operator *)
(* from state to state; every operator has a lemma saying what it leaves,  *)
(* and a step follows from the lemmas of the operators its handler calls.  *)
(* Gate: most steps only ask reads, drop them or let them land, which one  *)
(* lemma covers; those that do more have a lemma each.  Frame: a step is   *)
(* an update of the record and a chain of renders and effects, with a      *)
(* lemma for each link; what a link must not disturb is what is drawn.     *)
(***************************************************************************)
EXTENDS Feeds, Ask, Gate, Update, Frame, FiniteSetTheorems, TLAPS

(* The chat, the lookup and the search page.                               *)

ChatKinds == {"notice", "check", "question", "test", "save"}
LookKinds == {"entities", "intel"}
CallsOf(kinds, C) == {r \in C : r.kind \in kinds}

(* Only what was understood is accepted: in the store, in this visit, or   *)
(* in the visit a request was made from.                                   *)
ChatFits ==
    /\ store.hosts \subseteq past.understood
    /\ chat.here \in past.understood \union {NoHost}
    /\ \A r \in CallsOf({"notice", "check"}, calls) : r.here \in past.understood \union {NoHost}
    /\ \A r \in CallsOf({"question"}, calls) : r.checked \in past.understood
    /\ \A w \in past.went : w.checked \in past.understood

(* A press is a question sent, one being checked, or a link to be taken.   *)
Pending == IF chat.link THEN 1 ELSE 0
Counted ==
    /\ IsFiniteSet(calls)
    /\ past.sent + Cardinality(CallsOf({"check"}, calls)) + Pending <= past.presses

LookFits ==
    /\ LookupShowsItsOwn
    /\ \A r \in CallsOf(LookKinds, calls) :
           r.gen <= look.gen /\ (r.gen = look.gen => r.q = look.used)

(* What the rows hold is of the query shown; what was said counted them.   *)
RowsFit ==
    \A s \in Sources :
        /\ ledger.mirror[s].q = ledger.q
        /\ ledger.mirror[s].body \in Bodies(s) \union {SettledBefore(s, ledger.q)}
SaidFits ==
    /\ ledger.says.q = ledger.q
    /\ ledger.spoken \subseteq Settled
    /\ \/ ledger.says.about = {} /\ (ledger.spoken = {} \/ ledger.q = NoName)
       \/ /\ ledger.says.about # {}
          /\ ledger.says.left = Cardinality(Sources) - Cardinality(ledger.spoken)
SourcesFit ==
    \A r \in CallsOf({"source"}, calls) :
        /\ r.turn <= past.presses
        /\ r.turn = past.presses => ~ledger.due /\ r.q = ledger.q
LedgerFits == SourcesFit /\ (~ledger.due => RowsFit /\ SaidFits)

AskInv == AskTypeOK /\ ChatFits /\ Counted /\ LookFits /\ LedgerFits

-----------------------------------------------------------------------------
(* Requests.                                                               *)

LEMMA CallShapes ==
  ASSUME NEW r \in Calls
  PROVE  /\ r.kind \in {"notice", "check"} => r \in EgressReads
         /\ r.kind = "question" => r \in Questions
         /\ r.kind \in {"test", "save"} => r \in ProviderCalls
         /\ r.kind \in {"entities", "intel"} => r \in Lookups
         /\ r.kind \in {"block", "unblock"} => r \in Blocks
         /\ r.kind = "source" => r \in SourceCalls
  BY DEF Calls, EgressReads, Questions, ProviderCalls, Lookups, Blocks, SourceCalls

LEMMA ServedEgress ==
  ASSUME NEW r \in EgressReads, NEW a \in MaybeHost
  PROVE  LET s == [r EXCEPT !.ans = a]
         IN  s \in Calls /\ s.kind = r.kind /\ s.here = r.here
  BY DEF EgressReads, Calls

LEMMA ServedQuestion ==
  ASSUME NEW r \in Questions, NEW a \in {"assistant", "error"}
  PROVE  LET s == [r EXCEPT !.ans = a]
         IN  s \in Calls /\ s.kind = r.kind /\ s.checked = r.checked
  BY DEF Questions, Calls

LEMMA ServedProvider ==
  ASSUME NEW r \in ProviderCalls, NEW a \in {"ok", "refused"}
  PROVE  LET s == [r EXCEPT !.ans = a]
         IN  s \in Calls /\ s.kind = r.kind
  BY DEF ProviderCalls, Calls

LEMMA ServedLookup ==
  ASSUME NEW r \in Lookups, NEW a \in LookBodies
  PROVE  LET s == [r EXCEPT !.ans = a]
         IN  s \in Calls /\ s.kind = r.kind /\ s.q = r.q /\ s.gen = r.gen
  BY DEF Lookups, Calls

\* Requests of other kinds do not tell.
LEMMA CallsTaken ==
  ASSUME NEW C, NEW r, NEW kinds, r.kind \notin kinds
  PROVE  CallsOf(kinds, C \ {r}) = CallsOf(kinds, C)
  BY DEF CallsOf

LEMMA CallsAdded ==
  ASSUME NEW C, NEW r, NEW kinds, r.kind \notin kinds
  PROVE  CallsOf(kinds, C \union {r}) = CallsOf(kinds, C)
  BY DEF CallsOf

LEMMA CallsServed ==
  ASSUME NEW C, NEW r, NEW s, NEW kinds, r.kind \notin kinds, s.kind \notin kinds
  PROVE  CallsOf(kinds, (C \ {r}) \union {s}) = CallsOf(kinds, C)
  BY DEF CallsOf

LEMMA ChecksAre ==
  ASSUME NEW C, IsFiniteSet(C)
  PROVE  LET S == CallsOf({"check"}, C) IN IsFiniteSet(S) /\ Cardinality(S) \in Nat
  <1>1. CallsOf({"check"}, C) \subseteq C
    BY DEF CallsOf
  <1> QED
    BY <1>1, FS_Subset, FS_CardinalityType

\* A request added is at most one check more; one replaced, no check more.
LEMMA CountAdded ==
  ASSUME NEW C, IsFiniteSet(C), NEW r
  PROVE  /\ IsFiniteSet(C \union {r})
         /\ Cardinality(CallsOf({"check"}, C \union {r})) <= Cardinality(CallsOf({"check"}, C)) + 1
  <1> DEFINE S == CallsOf({"check"}, C)
             T == CallsOf({"check"}, C \union {r})
  <1>1. IsFiniteSet(C \union {r})
    BY FS_AddElement
  <1>2. IsFiniteSet(S) /\ Cardinality(S) \in Nat
    BY ChecksAre
  <1>3. T = S \/ T = S \union {r}
    BY DEF CallsOf
  <1> HIDE DEF S, T
  <1>4. Cardinality(S \union {r}) <= Cardinality(S) + 1
    <2>1. Cardinality(S \union {r}) = IF r \in S THEN Cardinality(S) ELSE Cardinality(S) + 1
      BY <1>2, FS_AddElement
    <2> QED
      BY <1>2, <2>1
  <1>5. Cardinality(T) = Cardinality(S) \/ Cardinality(T) = Cardinality(S \union {r})
    BY <1>3, Zenon
  <1>6. Cardinality(T) <= Cardinality(S) + 1
    BY <1>2, <1>4, <1>5
  <1> QED
    BY <1>1, <1>6 DEF S, T

LEMMA CountTaken ==
  ASSUME NEW C, IsFiniteSet(C), NEW r \in C
  PROVE  /\ IsFiniteSet(C \ {r})
         /\ Cardinality(CallsOf({"check"}, C \ {r})) <= Cardinality(CallsOf({"check"}, C))
         /\ r.kind = "check" =>
                Cardinality(CallsOf({"check"}, C \ {r})) + 1 = Cardinality(CallsOf({"check"}, C))
  <1> DEFINE S == CallsOf({"check"}, C)
             T == CallsOf({"check"}, C \ {r})
  <1>1. IsFiniteSet(C \ {r})
    BY FS_RemoveElement
  <1>2. IsFiniteSet(S) /\ Cardinality(S) \in Nat
    BY ChecksAre
  <1>3. CASE r.kind = "check"
    <2>1. T = S \ {r} /\ r \in S
      BY <1>3 DEF CallsOf
    <2>2. Cardinality(S \ {r}) = Cardinality(S) - 1
      <3> HIDE DEF S, T
      <3> QED
        BY <2>1, <1>2, FS_RemoveElement
    <2> HIDE DEF S, T
    <2>3. Cardinality(T) + 1 = Cardinality(S) /\ Cardinality(T) <= Cardinality(S)
      BY <2>1, <2>2, <1>2
    <2> QED
      BY <1>1, <2>3 DEF S, T
  <1>4. CASE r.kind # "check"
    <2>1. T = S
      BY <1>4 DEF CallsOf
    <2>2. Cardinality(T) <= Cardinality(S)
      <3> HIDE DEF S, T
      <3> QED
        BY <2>1, <1>2
    <2> QED
      BY <1>1, <1>4, <2>2 DEF S, T
  <1> QED
    BY <1>3, <1>4

LEMMA CountServed ==
  ASSUME NEW C, IsFiniteSet(C), NEW r \in C, NEW s, s.kind = r.kind
  PROVE  /\ IsFiniteSet((C \ {r}) \union {s})
         /\ Cardinality(CallsOf({"check"}, (C \ {r}) \union {s}))
                <= Cardinality(CallsOf({"check"}, C))
  <1> DEFINE D == C \ {r}
             E == D \union {s}
  <1>1. IsFiniteSet(D) /\ IsFiniteSet(E)
    BY CountTaken, CountAdded
  <1>2. CASE r.kind = "check"
    <2>1. Cardinality(CallsOf({"check"}, D)) + 1 = Cardinality(CallsOf({"check"}, C))
      BY <1>2, CountTaken
    <2>2. Cardinality(CallsOf({"check"}, E)) <= Cardinality(CallsOf({"check"}, D)) + 1
      BY <1>1, CountAdded
    <2>3. /\ Cardinality(CallsOf({"check"}, D)) \in Nat
          /\ Cardinality(CallsOf({"check"}, C)) \in Nat
          /\ Cardinality(CallsOf({"check"}, E)) \in Nat
      BY <1>1, ChecksAre
    <2> QED
      BY <1>1, <2>1, <2>2, <2>3
  <1>3. CASE r.kind # "check"
    <2>1. CallsOf({"check"}, E) = CallsOf({"check"}, C)
      BY <1>3 DEF CallsOf
    <2>2. Cardinality(CallsOf({"check"}, C)) \in Nat
      BY ChecksAre
    <2> QED
      BY <1>1, <2>1, <2>2
  <1> QED
    BY <1>2, <1>3

-----------------------------------------------------------------------------
(* Steps of the chat and its provider.                                     *)

SameCalls(kinds) == CallsOf(kinds, calls') = CallsOf(kinds, calls)

\* Neither the lookup nor the search page hears of what is asked elsewhere.
LEMMA LookUndisturbed ==
  ASSUME AskInv, UNCHANGED look, SameCalls(LookKinds)
  PROVE  LookFits'
  BY DEF AskInv, LookFits, SameCalls, LookupShowsItsOwn

LEMMA LedgerUndisturbed ==
  ASSUME AskInv, UNCHANGED ledger, SameCalls({"source"}),
         past' \in Pasts, past'.presses >= past.presses
  PROVE  LedgerFits'
  <1>1. SourcesFit'
    <2> SUFFICES ASSUME NEW r \in CallsOf({"source"}, calls)
                 PROVE  /\ r.turn <= past'.presses
                        /\ r.turn = past'.presses => ~ledger.due /\ r.q = ledger.q
      BY DEF SourcesFit, SameCalls
    <2>1. r.turn \in Nat /\ past.presses \in Nat /\ past'.presses \in Nat
      BY CallShapes DEF CallsOf, AskInv, AskTypeOK, SourceCalls, Pasts
    <2>2. r.turn <= past.presses /\ (r.turn = past.presses => ~ledger.due /\ r.q = ledger.q)
      BY DEF AskInv, LedgerFits, SourcesFit
    <2> QED
      BY <2>1, <2>2
  <1>2. ~ledger'.due => (RowsFit /\ SaidFits)'
    BY DEF AskInv, LedgerFits, RowsFit, SaidFits, Settled
  <1> QED
    BY <1>1, <1>2 DEF LedgerFits

\* What the chat has understood, and counted, stands while others move.
LEMMA OthersLeaveChat ==
  ASSUME AskInv, UNCHANGED <<chat, store>>,
         SameCalls({"notice", "check"}), SameCalls({"question"}), IsFiniteSet(calls'),
         past' \in Pasts, past'.presses >= past.presses, past'.sent = past.sent,
         past'.went = past.went, past'.understood = past.understood
  PROVE  ChatFits' /\ Counted'
  <1>1. ChatFits'
    BY DEF AskInv, ChatFits, SameCalls
  <1>2. CallsOf({"check"}, calls') = CallsOf({"check"}, calls)
    BY DEF SameCalls, CallsOf
  <1>3. Cardinality(CallsOf({"check"}, calls)) \in Nat
    BY ChecksAre DEF AskInv, Counted
  <1>4. past.sent \in Nat /\ past.presses \in Nat /\ past'.presses \in Nat
    BY DEF AskInv, AskTypeOK, Pasts
  <1>5. Counted'
    <2>1. Pending' = Pending /\ Pending \in Nat
      BY DEF Pending
    <2> QED
      BY <1>2, <1>3, <1>4, <2>1 DEF AskInv, Counted
  <1> QED
    BY <1>1, <1>5

LEMMA PressedOf ==
  ASSUME past \in Pasts
  PROVE  /\ Pressed \in Pasts /\ Pressed.presses = past.presses + 1 /\ Pressed.sent = past.sent
         /\ Pressed.went = past.went /\ Pressed.understood = past.understood
  BY DEF Pressed, Pasts

LEMMA MovedOf ==
  ASSUME past \in Pasts
  PROVE  /\ Moved \in Pasts /\ Moved.presses = past.presses /\ Moved.sent = past.sent
         /\ Moved.went = past.went /\ Moved.understood = past.understood
  BY DEF Moved, Pasts

LEMMA Numbers ==
  ASSUME AskInv
  PROVE  /\ past.sent \in Nat /\ past.presses \in Nat
         /\ Pending \in 0 .. 1
         /\ IsFiniteSet(calls) /\ Cardinality(CallsOf({"check"}, calls)) \in Nat
         /\ past.sent + Cardinality(CallsOf({"check"}, calls)) + Pending <= past.presses
  BY ChecksAre DEF AskInv, AskTypeOK, Pasts, Counted, Pending

\* A request served is the same request.
LEMMA OneServed ==
  ASSUME AskInv, NEW r \in calls, NEW s \in Calls, s.kind = r.kind,
         calls' = (calls \ {r}) \union {s}
  PROVE  /\ calls' \subseteq Calls /\ IsFiniteSet(calls')
         /\ Cardinality(CallsOf({"check"}, calls')) <= Cardinality(CallsOf({"check"}, calls))
         /\ \A kinds : r.kind \notin kinds => SameCalls(kinds)
  <1>1. calls' \subseteq Calls
    BY DEF AskInv, AskTypeOK
  <1>2. /\ IsFiniteSet(calls')
        /\ Cardinality(CallsOf({"check"}, calls')) <= Cardinality(CallsOf({"check"}, calls))
    BY CountServed, Numbers
  <1>3. ASSUME NEW kinds, r.kind \notin kinds
        PROVE  SameCalls(kinds)
    BY <1>3, CallsServed DEF SameCalls
  <1> QED
    BY <1>1, <1>2, <1>3

\* A step of the chat keeps the rest, if it keeps its own.
LEMMA ChatMoves ==
  ASSUME AskInv, UNCHANGED <<asking, look, ledger>>,
         chat' \in Chats, store' \in [on : BOOLEAN, hosts : SUBSET Hosts],
         form' \in ProviderForms, host' \in Hosts, past' \in Pasts, calls' \subseteq Calls,
         SameCalls(LookKinds), SameCalls({"source"}), past'.presses >= past.presses,
         ChatFits', Counted'
  PROVE  AskInv'
  <1>1. AskTypeOK'
    BY DEF AskInv, AskTypeOK
  <1>2. LookFits' /\ LedgerFits'
    BY LookUndisturbed, LedgerUndisturbed
  <1> QED
    BY <1>1, <1>2 DEF AskInv

LEMMA Types ==
  ASSUME AskInv
  PROVE  /\ asking \in Askings /\ host \in Hosts /\ calls \subseteq Calls
         /\ chat \in Chats /\ store \in [on : BOOLEAN, hosts : SUBSET Hosts]
         /\ form \in ProviderForms /\ look \in Looks /\ ledger \in Ledgers /\ past \in Pasts
  BY DEF AskInv, AskTypeOK

LEMMA ReadOf ==
  ASSUME NEW why \in {"notice", "check"}, NEW c \in Chats
  PROVE  LET r == EgressRead(why, c)
         IN  r \in Calls /\ r.kind = why /\ r.here = c.here
  BY DEF EgressRead, Calls, EgressReads, Chats

LEMMA OpenChatKeeps == ASSUME AskInv, OpenChat PROVE AskInv'
  <1> DEFINE next == chat.visit + 1
             c == [chat EXCEPT !.open = TRUE, !.visit = next]
             r == EgressRead("notice", c)
  <1>0. next \in Nat
    BY Types DEF Chats
  <1>1. c \in Chats /\ c.here = chat.here /\ c.link = chat.link
    <2> HIDE DEF next
    <2> QED
      BY <1>0, Types DEF Chats
  <1>2. r \in Calls /\ r.kind = "notice" /\ r.here = chat.here
    <2> HIDE DEF c
    <2> QED
      BY <1>1, ReadOf
  <1>3. chat' = c /\ calls' = calls \union {r} /\ past' = Moved
        /\ UNCHANGED <<asking, look, ledger, store, form, host>>
    BY DEF OpenChat, chatRest
  <1> HIDE DEF c, r
  <1>4. /\ past' \in Pasts /\ past'.presses = past.presses /\ past'.sent = past.sent
        /\ past'.went = past.went /\ past'.understood = past.understood
    BY <1>3, Types, MovedOf
  <1>5. ChatFits'
    BY <1>1, <1>2, <1>3, <1>4 DEF AskInv, ChatFits, CallsOf
  <1>6. Counted'
    <2>1. CallsOf({"check"}, calls') = CallsOf({"check"}, calls)
      BY <1>2, <1>3, CallsAdded
    <2>2. IsFiniteSet(calls')
      BY <1>3, CountAdded, Numbers
    <2>3. Pending' = Pending
      BY <1>1, <1>3 DEF Pending
    <2> QED
      BY <1>4, <2>1, <2>2, <2>3, Numbers DEF Counted
  <1>7. SameCalls(LookKinds) /\ SameCalls({"source"})
    BY <1>2, <1>3, CallsAdded DEF SameCalls, LookKinds
  <1> QED
    BY <1>1, <1>2, <1>3, <1>4, <1>5, <1>6, <1>7, ChatMoves, Types, Numbers

LEMMA LeaveChatKeeps == ASSUME AskInv, LeaveChat PROVE AskInv'
  <1> DEFINE c == [NoChat EXCEPT !.visit = chat.visit, !.items = chat.items, !.link = chat.link]
  <1>1. c \in Chats /\ c.here = NoHost /\ c.link = chat.link
    BY Types DEF NoChat, Chats, MaybeHost
  <1>2. chat' = c /\ UNCHANGED <<asking, look, ledger, store, form, host, calls, past>>
    BY DEF LeaveChat, chatRest
  <1> HIDE DEF c
  <1>3. ChatFits'
    BY <1>1, <1>2 DEF AskInv, ChatFits
  <1>4. Counted'
    <2>1. Pending' = Pending
      BY <1>1, <1>2 DEF Pending
    <2> QED
      BY <1>2, <2>1 DEF AskInv, Counted
  <1> QED
    BY <1>1, <1>2, <1>3, <1>4, ChatMoves, Types, Numbers DEF SameCalls

LEMMA NoticeLandsKeeps == ASSUME AskInv, NEW r \in calls, NoticeLands(r) PROVE AskInv'
  <1>1. r \in EgressReads /\ r.kind = "notice"
    BY CallShapes, Types DEF NoticeLands
  <1>2. chat' \in Chats /\ chat'.here = chat.here /\ chat'.link = chat.link
    <2>1. r.ans \in MaybeHost
      BY <1>1 DEF NoticeLands, EgressReads
    <2> QED
      BY <2>1, Types DEF NoticeLands, Chats
  <1>3. calls' = calls \ {r} /\ UNCHANGED <<asking, look, ledger, store, form, host, past>>
    BY DEF NoticeLands, chatRest
  <1>4. ChatFits'
    BY <1>2, <1>3 DEF AskInv, ChatFits, CallsOf
  <1>5. Counted'
    <2>1. CallsOf({"check"}, calls') = CallsOf({"check"}, calls) /\ IsFiniteSet(calls')
      BY <1>1, <1>3, CallsTaken, CountTaken, Numbers
    <2>2. Pending' = Pending
      BY <1>2 DEF Pending
    <2> QED
      BY <1>3, <2>1, <2>2, Numbers DEF Counted
  <1>6. SameCalls(LookKinds) /\ SameCalls({"source"})
    BY <1>1, <1>3, CallsTaken DEF SameCalls, LookKinds
  <1> QED
    BY <1>2, <1>3, <1>4, <1>5, <1>6, ChatMoves, Types, Numbers

LEMMA ServeEgressKeeps == ASSUME AskInv, NEW r \in calls, ServeEgress(r) PROVE AskInv'
  <1>1. r \in EgressReads /\ r.kind \in {"notice", "check"}
    BY CallShapes, Types DEF ServeEgress
  <1>2. PICK h \in {host, NoHost} : calls' = Served(r, h)
    BY DEF ServeEgress
  <1> DEFINE s == [r EXCEPT !.ans = h]
  <1>3. s \in Calls /\ s.kind = r.kind /\ s.here = r.here
    BY <1>1, ServedEgress, Types DEF MaybeHost
  <1>4. calls' = (calls \ {r}) \union {s}
        /\ UNCHANGED <<asking, look, ledger, chat, store, form, host, past>>
    BY <1>2 DEF Served, ServeEgress, chatRest
  <1> HIDE DEF s
  <1>5. ChatFits'
    BY <1>1, <1>3, <1>4 DEF AskInv, ChatFits, CallsOf
  <1>6. Counted'
    <2>1. /\ IsFiniteSet(calls')
          /\ Cardinality(CallsOf({"check"}, calls')) <= Cardinality(CallsOf({"check"}, calls))
      BY <1>3, <1>4, CountServed, Numbers
    <2>2. Pending' = Pending
      BY <1>4 DEF Pending
    <2>3. Cardinality(CallsOf({"check"}, calls')) \in Nat
      BY <2>1, ChecksAre
    <2> QED
      BY <1>4, <2>1, <2>2, <2>3, Numbers DEF Counted
  <1>7. SameCalls(LookKinds) /\ SameCalls({"source"})
    BY <1>1, <1>3, <1>4, CallsServed DEF SameCalls, LookKinds
  <1> QED
    BY <1>3, <1>4, <1>5, <1>6, <1>7, ChatMoves, Types, Numbers

LEMMA UnderstandKeeps == ASSUME AskInv, Understand PROVE AskInv'
  <1> DEFINE h == chat.notice
  <1>1. h \in Hosts
    BY Types DEF Understand, Chats, MaybeHost
  <1>2. chat' \in Chats /\ chat'.here = h /\ chat'.link = chat.link
    BY <1>1, Types DEF Understand, Chats, MaybeHost
  <1>3. /\ past' \in Pasts /\ past'.presses = past.presses /\ past'.sent = past.sent
        /\ past'.went = past.went /\ past'.understood = past.understood \union {h}
    BY <1>1, Types DEF Understand, Pasts
  <1>4. /\ store' \in [on : BOOLEAN, hosts : SUBSET Hosts]
        /\ store'.hosts \subseteq store.hosts \union {h}
    BY <1>1, Types DEF Understand
  <1>5. UNCHANGED <<asking, look, ledger, form, host, calls>>
    BY DEF Understand, chatRest
  <1> HIDE DEF h
  <1>6. ChatFits'
    BY <1>2, <1>3, <1>4, <1>5 DEF AskInv, ChatFits
  <1>7. Counted'
    <2>1. Pending' = Pending
      BY <1>2 DEF Pending
    <2> QED
      BY <1>3, <1>5, <2>1, Numbers DEF Counted
  <1> QED
    BY <1>2, <1>3, <1>4, <1>5, <1>6, <1>7, ChatMoves, Types, Numbers DEF SameCalls

\* A question is checked, one check more, or waits in the box.
LEMMA SubmitDoes ==
  ASSUME AskInv, NEW c \in Chats, NEW given \in BOOLEAN, Submit(c, given)
  PROVE  /\ chat' \in Chats /\ chat'.here = c.here /\ chat'.link = c.link
         /\ calls' \subseteq Calls /\ IsFiniteSet(calls')
         /\ SameCalls(LookKinds) /\ SameCalls({"source"}) /\ SameCalls({"question"})
         /\ \A r \in calls' : r \in calls \/ r.here = c.here
         /\ Cardinality(CallsOf({"check"}, calls')) <= Cardinality(CallsOf({"check"}, calls)) + 1
  <1>1. CASE c.busy \/ c.checking
    <2>1. chat' = [c EXCEPT !.box = @ \/ given] /\ calls' = calls
      BY <1>1 DEF Submit
    <2>2. chat' \in Chats /\ chat'.here = c.here /\ chat'.link = c.link
      <3>1. (c.box \/ given) \in BOOLEAN
        BY DEF Chats
      <3> QED
        BY <2>1, <3>1 DEF Chats
    <2> QED
      BY <2>1, <2>2, Types, Numbers DEF SameCalls
  <1>2. CASE ~(c.busy \/ c.checking)
    <2> DEFINE r == EgressRead("check", c)
    <2>1. chat' = [c EXCEPT !.checking = TRUE] /\ calls' = calls \union {r}
      BY <1>2 DEF Submit
    <2>2. r \in Calls /\ r.kind = "check" /\ r.here = c.here
      BY ReadOf
    <2>3. chat' \in Chats /\ chat'.here = c.here /\ chat'.link = c.link
      BY <2>1 DEF Chats
    <2> HIDE DEF r
    <2>4. SameCalls(LookKinds) /\ SameCalls({"source"}) /\ SameCalls({"question"})
      BY <2>1, <2>2, CallsAdded DEF SameCalls, LookKinds
    <2> QED
      BY <2>1, <2>2, <2>3, <2>4, CountAdded, Types, Numbers
  <1> QED
    BY <1>1, <1>2

\* A press more, and the question it stands for.
LEMMA SubmitKeeps ==
  ASSUME AskInv, NEW c \in Chats, NEW given \in BOOLEAN, Submit(c, given),
         c.here = chat.here, UNCHANGED <<asking, look, ledger, store, form, host>>,
         past' \in Pasts, past'.presses >= past.presses, past'.sent = past.sent,
         past'.went = past.went, past'.understood = past.understood,
         past.sent + Cardinality(CallsOf({"check"}, calls)) + 1 + (IF c.link THEN 1 ELSE 0)
             <= past'.presses
  PROVE  AskInv'
  <1>1. ChatFits'
    BY SubmitDoes DEF AskInv, ChatFits, CallsOf, SameCalls
  <1>2. Counted'
    <2>1. Cardinality(CallsOf({"check"}, calls')) \in Nat
      BY SubmitDoes, ChecksAre
    <2>2. past'.presses \in Nat
      BY DEF Pasts
    <2>3. /\ Cardinality(CallsOf({"check"}, calls')) <= Cardinality(CallsOf({"check"}, calls)) + 1
          /\ IsFiniteSet(calls') /\ chat'.link = c.link
      BY SubmitDoes
    <2> QED
      BY <2>1, <2>2, <2>3, Numbers DEF Counted, Pending
  <1>3. /\ chat' \in Chats /\ calls' \subseteq Calls
        /\ SameCalls(LookKinds) /\ SameCalls({"source"})
    BY SubmitDoes
  <1>4. /\ store' \in [on : BOOLEAN, hosts : SUBSET Hosts]
        /\ form' \in ProviderForms /\ host' \in Hosts
    BY Types
  <1> QED
    BY <1>1, <1>2, <1>3, <1>4, ChatMoves

LEMMA AskKeeps == ASSUME AskInv, Ask PROVE AskInv'
  <1>1. PICK given \in BOOLEAN :
            Submit(IF given THEN chat ELSE [chat EXCEPT !.box = TRUE], given)
    BY DEF Ask
  <1> DEFINE c == IF given THEN chat ELSE [chat EXCEPT !.box = TRUE]
  <1>2. c \in Chats /\ c.here = chat.here /\ c.link = chat.link
    BY Types DEF Chats
  <1>3. Submit(c, given) /\ past' = Pressed /\ UNCHANGED <<asking, look, ledger, store, form, host>>
    BY <1>1 DEF Ask, chatRest
  <1> HIDE DEF c
  <1>4. /\ past' \in Pasts /\ past'.presses = past.presses + 1 /\ past'.sent = past.sent
        /\ past'.went = past.went /\ past'.understood = past.understood
    BY <1>3, PressedOf, Types
  <1>5. past.sent + Cardinality(CallsOf({"check"}, calls)) + 1 + (IF c.link THEN 1 ELSE 0)
            <= past'.presses
    BY <1>2, <1>4, Numbers DEF Pending
  <1> QED
    BY <1>2, <1>3, <1>4, <1>5, SubmitKeeps, Numbers

LEMMA TakeKeeps == ASSUME AskInv, Take PROVE AskInv'
  <1> DEFINE c == [chat EXCEPT !.link = FALSE]
  <1>1. c \in Chats /\ c.here = chat.here /\ ~c.link
    BY Types DEF Chats
  <1>2. Submit(c, TRUE) /\ chat.link /\ UNCHANGED <<asking, look, ledger, store, form, host, past>>
    BY DEF Take, chatRest
  <1> HIDE DEF c
  <1>3. past.sent + Cardinality(CallsOf({"check"}, calls)) + 1 + (IF c.link THEN 1 ELSE 0)
            <= past'.presses
    BY <1>1, <1>2, Numbers DEF Pending
  <1>4. /\ past' \in Pasts /\ past'.presses >= past.presses /\ past'.sent = past.sent
        /\ past'.went = past.went /\ past'.understood = past.understood
    BY <1>2, Types, Numbers
  <1> QED
    BY <1>1, <1>2, <1>3, <1>4, SubmitKeeps

LEMMA FollowLinkKeeps == ASSUME AskInv, FollowLink PROVE AskInv'
  <1>1. chat' \in Chats /\ chat'.here = chat.here /\ chat'.link /\ ~chat.link
    BY Types DEF FollowLink, Chats
  <1>2. past' = Pressed /\ UNCHANGED <<asking, look, ledger, store, form, host, calls>>
    BY DEF FollowLink, chatRest
  <1>3. /\ past' \in Pasts /\ past'.presses = past.presses + 1 /\ past'.sent = past.sent
        /\ past'.went = past.went /\ past'.understood = past.understood
    BY <1>2, PressedOf, Types
  <1>4. ChatFits'
    BY <1>1, <1>2, <1>3 DEF AskInv, ChatFits
  <1>5. Counted'
    BY <1>1, <1>2, <1>3, Numbers DEF Counted, Pending
  <1> QED
    BY <1>1, <1>2, <1>3, <1>4, <1>5, ChatMoves, Types, Numbers DEF SameCalls

LEMMA NewChatKeeps == ASSUME AskInv, NewChat PROVE AskInv'
  <1> DEFINE none == << >>
  <1>1. none \in Seq(Items)
    OBVIOUS
  <1>2. chat' = [chat EXCEPT !.items = none, !.box = FALSE]
        /\ UNCHANGED <<asking, look, ledger, store, form, host, calls, past>>
    BY DEF NewChat, chatRest
  <1> HIDE DEF none
  <1>3. chat' \in Chats /\ chat'.here = chat.here /\ chat'.link = chat.link
    BY <1>1, <1>2, Types DEF Chats
  <1>4. ChatFits'
    BY <1>2, <1>3 DEF AskInv, ChatFits
  <1>5. Counted'
    <2>1. Pending' = Pending
      BY <1>3 DEF Pending
    <2> QED
      BY <1>2, <2>1, Numbers DEF Counted
  <1> QED
    BY <1>2, <1>3, <1>4, <1>5, ChatMoves, Types, Numbers DEF SameCalls

\* A step of the chat that asks and answers no more than it did, and counts none.
QuietCalls ==
    /\ calls' \subseteq Calls /\ IsFiniteSet(calls')
    /\ \A kinds \in {LookKinds, {"source"}, {"notice", "check"}, {"question"}} : SameCalls(kinds)

LEMMA QuietChatKeeps ==
  ASSUME AskInv, QuietCalls, UNCHANGED <<asking, look, ledger, store>>,
         chat' \in Chats, chat'.here = chat.here, chat'.link = chat.link,
         form' \in ProviderForms, host' \in Hosts, past' \in Pasts,
         past'.presses = past.presses, past'.sent = past.sent,
         past'.went = past.went, past'.understood = past.understood
  PROVE  AskInv'
  <1>1. ChatFits'
    BY DEF AskInv, ChatFits, QuietCalls, SameCalls
  <1>2. Counted'
    <2>1. CallsOf({"check"}, calls') = CallsOf({"check"}, calls)
      BY DEF QuietCalls, SameCalls, CallsOf
    <2>2. Pending' = Pending
      BY DEF Pending
    <2> QED
      BY <2>1, <2>2, Numbers DEF Counted, QuietCalls
  <1> QED
    BY <1>1, <1>2, ChatMoves, Types, Numbers DEF QuietCalls

LEMMA CheckLandsKeeps == ASSUME AskInv, NEW r \in calls, CheckLands(r) PROVE AskInv'
  <1> DEFINE mine == chat.open /\ r.visit = chat.visit
             c == IF mine THEN [chat EXCEPT !.checking = FALSE, !.notice = r.ans] ELSE chat
             n == past.sent + 1
             q == [kind |-> "question", visit |-> r.visit, n |-> n, checked |-> r.ans,
                   ans |-> Unserved]
  <1>1. r \in EgressReads /\ r.kind = "check" /\ r.ans \in MaybeHost
    BY CallShapes, Types DEF CheckLands, EgressReads
  <1>2. c \in Chats /\ c.here = chat.here /\ c.link = chat.link
    BY <1>1, Types DEF Chats
  <1>3. UNCHANGED <<asking, look, ledger, store, form, host>>
    BY DEF CheckLands, chatRest
  <1>4. CASE Accepted(r.ans, r.here)
    <2>1. SendQuestion(c, r, mine)
      BY <1>4 DEF CheckLands
    <2>2. n \in Nat
      BY Numbers
    <2>3. r.ans \in Hosts /\ r.ans \in past.understood
      BY <1>1, <1>4 DEF Accepted, AskInv, ChatFits, CallsOf, MaybeHost
    <2>4. q \in Calls /\ q.kind = "question" /\ q.checked = r.ans
      BY <1>1, <2>2, <2>3 DEF Calls, Questions, EgressReads
    <2>5. chat' \in Chats /\ chat'.here = chat.here /\ chat'.link = chat.link
      <3> DEFINE items == Append(c.items, [role |-> "user", n |-> n])
      <3>2. chat' = IF mine THEN [c EXCEPT !.busy = TRUE, !.box = FALSE, !.items = items] ELSE c
        BY <2>1 DEF SendQuestion
      <3> HIDE DEF c, mine, n
      <3>1. items \in Seq(Items)
        <4>1. c.items \in Seq(Items) /\ [role |-> "user", n |-> n] \in Items
          BY <1>2, <2>2 DEF Chats, Items
        <4> QED
          BY <4>1
      <3> HIDE DEF items
      <3> QED
        BY <1>2, <3>1, <3>2 DEF Chats
    <2>6. /\ past' \in Pasts /\ past'.presses = past.presses /\ past'.sent = n
          /\ past'.went = past.went /\ past'.understood = past.understood
      <3>1. past' = [past EXCEPT !.sent = n]
        BY <2>1 DEF SendQuestion
      <3> HIDE DEF n
      <3> QED
        BY <2>2, <3>1, Types DEF Pasts
    <2>7. calls' = (calls \ {r}) \union {q}
      BY <2>1 DEF SendQuestion
    <2> HIDE DEF q, c, mine
    <2>8. ChatFits'
      BY <1>3, <2>3, <2>4, <2>5, <2>6, <2>7 DEF AskInv, ChatFits, CallsOf
    <2>9. Counted'
      <3>1. CallsOf({"check"}, calls') = CallsOf({"check"}, calls \ {r})
        BY <2>4, <2>7 DEF CallsOf
      <3>2. IsFiniteSet(calls \ {r})
        BY CountTaken, Numbers
      <3>3. IsFiniteSet(calls')
        BY <2>7, <3>2, CountAdded
      <3>4. Cardinality(CallsOf({"check"}, calls \ {r})) + 1 = Cardinality(CallsOf({"check"}, calls))
        BY <1>1, CountTaken, Numbers
      <3>5. Cardinality(CallsOf({"check"}, calls \ {r})) \in Nat
        BY <3>2, ChecksAre
      <3>6. Pending' = Pending
        BY <2>5 DEF Pending
      <3>7. Cardinality(CallsOf({"check"}, calls')) = Cardinality(CallsOf({"check"}, calls \ {r}))
        BY <3>1, Zenon
      <3>8. past'.sent + Cardinality(CallsOf({"check"}, calls')) + Pending' <= past'.presses
        <4> DEFINE after == Cardinality(CallsOf({"check"}, calls'))
                   taken == Cardinality(CallsOf({"check"}, calls \ {r}))
                   before == Cardinality(CallsOf({"check"}, calls))
        <4>1. /\ before \in Nat /\ past.sent \in Nat /\ past.presses \in Nat /\ Pending \in 0 .. 1
              /\ past.sent + before + Pending <= past.presses
          BY Numbers
        <4>2. taken + 1 = before /\ taken \in Nat /\ after = taken
          BY <3>4, <3>5, <3>7
        <4>3. past'.sent = past.sent + 1 /\ past'.presses = past.presses
          BY <2>6
        <4> HIDE DEF after, taken, before
        <4>4. past'.sent + after + Pending' <= past'.presses
          BY <3>6, <4>1, <4>2, <4>3
        <4> QED
          BY <4>4 DEF after
      <3> QED
        BY <3>3, <3>8 DEF Counted
    <2>10. SameCalls(LookKinds) /\ SameCalls({"source"})
      <3>1. ASSUME NEW kinds, r.kind \notin kinds, q.kind \notin kinds
            PROVE  SameCalls(kinds)
        BY <2>7, <3>1, CallsServed DEF SameCalls
      <3> QED
        BY <1>1, <2>4, <3>1 DEF LookKinds
    <2> QED
      BY <1>3, <2>4, <2>5, <2>6, <2>7, <2>8, <2>9, <2>10, ChatMoves, Types, Numbers
  <1>5. CASE ~Accepted(r.ans, r.here)
    <2>1. chat' = (IF mine THEN [c EXCEPT !.box = TRUE] ELSE c) /\ calls' = calls \ {r} /\ past' = past
      BY <1>5 DEF CheckLands
    <2> HIDE DEF c, mine
    <2>2. chat' \in Chats /\ chat'.here = chat.here /\ chat'.link = chat.link
      BY <1>2, <2>1 DEF Chats
    <2>3. ChatFits'
      BY <1>3, <2>1, <2>2 DEF AskInv, ChatFits, CallsOf
    <2>4. Counted'
      <3>1. /\ IsFiniteSet(calls')
            /\ Cardinality(CallsOf({"check"}, calls')) <= Cardinality(CallsOf({"check"}, calls))
        BY <2>1, CountTaken, Numbers
      <3>2. Cardinality(CallsOf({"check"}, calls')) \in Nat
        BY <3>1, ChecksAre
      <3>3. Pending' = Pending
        BY <2>2 DEF Pending
      <3> QED
        BY <2>1, <3>1, <3>2, <3>3, Numbers DEF Counted
    <2>5. SameCalls(LookKinds) /\ SameCalls({"source"})
      BY <1>1, <2>1, CallsTaken DEF SameCalls, LookKinds
    <2> QED
      BY <1>3, <2>1, <2>2, <2>3, <2>4, <2>5, ChatMoves, Types, Numbers
  <1> QED
    BY <1>4, <1>5

LEMMA ServeQuestionKeeps == ASSUME AskInv, NEW r \in calls, ServeQuestion(r) PROVE AskInv'
  <1>1. r \in Questions /\ r.kind = "question"
    BY CallShapes, Types DEF ServeQuestion
  <1>2. r.checked \in Hosts /\ r.checked \in past.understood
    BY <1>1 DEF Questions, AskInv, ChatFits, CallsOf
  <1>3. PICK a \in {"assistant", "error"} : calls' = Served(r, a)
    BY DEF ServeQuestion
  <1> DEFINE s == [r EXCEPT !.ans = a]
             went == past.went \union {[to |-> host, checked |-> r.checked]}
  <1>4. s \in Calls /\ s.kind = r.kind /\ s.checked = r.checked
    BY <1>1, ServedQuestion
  <1>5. calls' = (calls \ {r}) \union {s} /\ UNCHANGED <<asking, look, ledger, chat, store, form, host>>
    BY <1>3 DEF Served, ServeQuestion, chatRest
  <1>6. went \in SUBSET [to : Hosts, checked : Hosts]
        /\ \A w \in went : w.checked \in past.understood
    BY <1>2, Types DEF Pasts, AskInv, ChatFits
  <1>7. past' = past \/ past' = [past EXCEPT !.went = went]
    BY DEF ServeQuestion
  <1> HIDE DEF s, went
  <1>8. /\ past' \in Pasts /\ past'.presses = past.presses /\ past'.sent = past.sent
        /\ past'.understood = past.understood
        /\ \A w \in past'.went : w.checked \in past'.understood
    BY <1>6, <1>7, Types DEF Pasts, AskInv, ChatFits
  <1>9. ChatFits'
    BY <1>1, <1>4, <1>5, <1>8 DEF AskInv, ChatFits, CallsOf
  <1>10. Counted'
    <2>1. CallsOf({"check"}, calls') = CallsOf({"check"}, calls) /\ IsFiniteSet(calls')
      BY <1>1, <1>4, <1>5, OneServed DEF SameCalls
    <2>2. Pending' = Pending
      BY <1>5 DEF Pending
    <2> QED
      BY <1>8, <2>1, <2>2, Numbers DEF Counted
  <1>11. SameCalls(LookKinds) /\ SameCalls({"source"})
    BY <1>1, <1>4, <1>5, CallsServed DEF SameCalls, LookKinds
  <1> QED
    BY <1>4, <1>5, <1>8, <1>9, <1>10, <1>11, ChatMoves, Types, Numbers

LEMMA AnswerLandsKeeps == ASSUME AskInv, NEW r \in calls, AnswerLands(r) PROVE AskInv'
  <1>1. r \in Questions /\ r.kind = "question" /\ r.ans \in {"assistant", "error"}
    BY CallShapes, Types DEF AnswerLands, Questions
  <1>2. calls' = calls \ {r} /\ UNCHANGED <<asking, look, ledger, store, form, host, past>>
    BY DEF AnswerLands, chatRest
  <1>3. chat' \in Chats /\ chat'.here = chat.here /\ chat'.link = chat.link
    <2> DEFINE items == Append(chat.items, [role |-> r.ans, n |-> r.n])
    <2>1. items \in Seq(Items)
      BY <1>1, Types DEF Chats, Items, Questions
    <2>2. chat' = chat \/ chat' = [chat EXCEPT !.busy = FALSE, !.items = items]
      BY DEF AnswerLands
    <2> HIDE DEF items
    <2> QED
      BY <2>1, <2>2, Types DEF Chats
  <1>4. ChatFits'
    BY <1>2, <1>3 DEF AskInv, ChatFits, CallsOf
  <1>5. Counted'
    <2>1. CallsOf({"check"}, calls') = CallsOf({"check"}, calls) /\ IsFiniteSet(calls')
      BY <1>1, <1>2, CallsTaken, CountTaken, Numbers
    <2>2. Pending' = Pending
      BY <1>3 DEF Pending
    <2> QED
      BY <1>2, <2>1, <2>2, Numbers DEF Counted
  <1>6. SameCalls(LookKinds) /\ SameCalls({"source"})
    BY <1>1, <1>2, CallsTaken DEF SameCalls, LookKinds
  <1> QED
    BY <1>2, <1>3, <1>4, <1>5, <1>6, ChatMoves, Types, Numbers

LEMMA TypeProviderKeeps == ASSUME AskInv, NEW h \in Hosts, TypeProvider(h) PROVE AskInv'
  <1>1. form' \in ProviderForms
    BY Types DEF TypeProvider, ProviderForms, MaybeHost
  <1>2. past' = Moved /\ UNCHANGED <<asking, look, ledger, chat, store, host, calls>>
    BY DEF TypeProvider, chatRest
  <1>3. QuietCalls
    BY <1>2, Types, Numbers DEF QuietCalls, SameCalls
  <1> QED
    BY <1>1, <1>2, <1>3, QuietChatKeeps, MovedOf, Types

LEMMA SendProviderKeeps ==
  ASSUME AskInv, NEW op \in {"test", "save"}, SendProvider(op)
  PROVE  AskInv'
  <1> DEFINE r == [kind |-> op, to |-> form.typed, ans |-> Unserved]
  <1>1. form' \in ProviderForms
    BY Types DEF SendProvider, ProviderForms
  <1>2. calls' = calls \union {r} /\ UNCHANGED <<asking, look, ledger, chat, store, host, past>>
    BY DEF SendProvider, chatRest
  <1>3. r \in Calls /\ r.kind \in {"test", "save"}
    BY Types DEF SendProvider, Calls, ProviderCalls, ProviderForms, MaybeHost
  <1> HIDE DEF r
  <1>4. QuietCalls
    BY <1>2, <1>3, CallsAdded, CountAdded, Types, Numbers DEF QuietCalls, SameCalls, LookKinds
  <1> QED
    BY <1>1, <1>2, <1>4, QuietChatKeeps, Types

LEMMA ServeProviderKeeps == ASSUME AskInv, NEW r \in calls, ServeProvider(r) PROVE AskInv'
  <1>1. r \in ProviderCalls /\ r.kind \in {"test", "save"}
    BY CallShapes, Types DEF ServeProvider
  <1>2. PICK a \in {"ok", "refused"} : calls' = Served(r, a)
    BY DEF ServeProvider
  <1>3. host' \in Hosts
    BY <1>1, Types DEF ServeProvider, ProviderCalls
  <1> DEFINE s == [r EXCEPT !.ans = a]
  <1>4. s \in Calls /\ s.kind = r.kind
    BY <1>1, ServedProvider
  <1>5. calls' = (calls \ {r}) \union {s} /\ UNCHANGED <<asking, look, ledger, chat, store, form, past>>
    BY <1>2 DEF Served, ServeProvider, chatRest
  <1> HIDE DEF s
  <1>6. QuietCalls
    BY <1>1, <1>4, <1>5, OneServed DEF QuietCalls, LookKinds
  <1> QED
    BY <1>3, <1>5, <1>6, QuietChatKeeps, Types

LEMMA ProviderLandsKeeps == ASSUME AskInv, NEW r \in calls, ProviderLands(r) PROVE AskInv'
  <1>1. r \in ProviderCalls /\ r.kind \in {"test", "save"} /\ r.ans \in {"ok", "refused"}
    BY CallShapes, Types DEF ProviderLands, ProviderCalls
  <1>2. calls' = calls \ {r} /\ UNCHANGED <<asking, look, ledger, chat, store, host, past>>
    BY DEF ProviderLands, chatRest
  <1>3. form' \in ProviderForms
    BY <1>1, Types DEF ProviderLands, ProviderForms
  <1>4. QuietCalls
    BY <1>1, <1>2, CallsTaken, CountTaken, Types, Numbers DEF QuietCalls, SameCalls, LookKinds
  <1> QED
    BY <1>2, <1>3, <1>4, QuietChatKeeps, Types

-----------------------------------------------------------------------------
(* Steps of the lookup.                                                    *)

QuietPast ==
    /\ past' \in Pasts /\ past'.presses >= past.presses /\ past'.sent = past.sent
    /\ past'.went = past.went /\ past'.understood = past.understood

LEMMA LookMoves ==
  ASSUME AskInv, UNCHANGED <<asking, chat, store, form, host, ledger>>, look' \in Looks,
         QuietPast, calls' \subseteq Calls, IsFiniteSet(calls'),
         SameCalls({"source"}), SameCalls({"notice", "check"}), SameCalls({"question"}), LookFits'
  PROVE  AskInv'
  <1>1. AskTypeOK'
    BY DEF AskInv, AskTypeOK, QuietPast
  <1>2. ChatFits' /\ Counted'
    BY OthersLeaveChat DEF QuietPast
  <1>3. LedgerFits'
    BY LedgerUndisturbed DEF QuietPast
  <1> QED
    BY <1>1, <1>2, <1>3 DEF AskInv

LEMMA LookupKeeps == ASSUME AskInv, NEW q \in Names, Lookup(q) PROVE AskInv'
  <1> DEFINE none == << >>
             next == look.gen + 1
             c1 == [kind |-> "entities", q |-> q, gen |-> next, ans |-> Unserved]
             c2 == [kind |-> "intel", q |-> q, gen |-> next, ans |-> Unserved]
  <1>1. none \in Seq(Found) /\ next \in Nat /\ look.gen \in Nat /\ next > look.gen
    BY Types DEF Looks
  <1>2. look' = [look EXCEPT !.used = q, !.busy = TRUE, !.gen = next, !.res = none,
                             !.intel = none, !.block = "idle"]
    BY DEF Lookup
  <1>3. {[kind |-> k, q |-> q, gen |-> next, ans |-> Unserved] : k \in {"entities", "intel"}}
            = {c1, c2}
    OBVIOUS
  <1>4. calls' = (calls \union {c1}) \union {c2}
    BY <1>3 DEF Lookup
  <1>5. /\ c1 \in Calls /\ c1.kind = "entities" /\ c1.q = q /\ c1.gen = next
        /\ c2 \in Calls /\ c2.kind = "intel" /\ c2.q = q /\ c2.gen = next
    BY <1>1 DEF Calls, Lookups
  <1>6. past' = Pressed /\ UNCHANGED <<asking, chat, store, form, host, ledger>>
    BY DEF Lookup, lookRest
  <1>7. none = << >>
    OBVIOUS
  <1> HIDE DEF none, next, c1, c2
  <1>8. look' \in Looks /\ look'.used = q /\ look'.gen = next /\ look'.res = none /\ look'.intel = none
    BY <1>1, <1>2, Types DEF Looks, MaybeName
  <1>9. LookFits'
    <2>1. LookupShowsItsOwn'
      BY <1>7, <1>8 DEF LookupShowsItsOwn
    <2>2. ASSUME NEW r \in CallsOf(LookKinds, calls')
          PROVE  r.gen <= look'.gen /\ (r.gen = look'.gen => r.q = look'.used)
      <3>1. CASE r \in {c1, c2}
        BY <1>1, <1>5, <1>8, <3>1
      <3>2. CASE r \in CallsOf(LookKinds, calls)
        <4>1. r.gen \in Nat /\ r.gen <= look.gen
          BY <3>2, CallShapes, Types DEF CallsOf, LookKinds, AskInv, LookFits, Lookups
        <4> QED
          BY <1>1, <1>8, <4>1
      <3> QED
        BY <1>4, <3>1, <3>2 DEF CallsOf
    <2> QED
      BY <2>1, <2>2 DEF LookFits
  <1>10. QuietPast
    BY <1>6, PressedOf, Types, Numbers DEF QuietPast
  <1>11. /\ calls' \subseteq Calls /\ IsFiniteSet(calls')
         /\ SameCalls({"source"}) /\ SameCalls({"notice", "check"}) /\ SameCalls({"question"})
    <2>1. calls' \subseteq Calls /\ IsFiniteSet(calls')
      BY <1>4, <1>5, CountAdded, Types, Numbers
    <2> QED
      BY <1>4, <1>5, <2>1 DEF SameCalls, CallsOf
  <1> QED
    BY <1>6, <1>8, <1>9, <1>10, <1>11, LookMoves

LEMMA ServeLookupKeeps == ASSUME AskInv, NEW r \in calls, ServeLookup(r) PROVE AskInv'
  <1>1. r \in Lookups /\ r.kind \in LookKinds
    BY CallShapes, Types DEF ServeLookup, LookKinds
  <1>2. PICK a \in LookBodies : calls' = Served(r, a)
    BY DEF ServeLookup, LookBodies
  <1> DEFINE s == [r EXCEPT !.ans = a]
  <1>3. s \in Calls /\ s.kind = r.kind /\ s.q = r.q /\ s.gen = r.gen
    BY <1>1, ServedLookup
  <1>4. calls' = (calls \ {r}) \union {s}
        /\ UNCHANGED <<asking, chat, store, form, host, ledger, look, past>>
    BY <1>2 DEF Served, ServeLookup, lookRest
  <1> HIDE DEF s
  <1>5. LookFits'
    BY <1>1, <1>3, <1>4 DEF AskInv, LookFits, LookupShowsItsOwn, CallsOf
  <1>6. QuietPast
    BY <1>4, Types, Numbers DEF QuietPast
  <1>7. /\ calls' \subseteq Calls /\ IsFiniteSet(calls')
        /\ SameCalls({"source"}) /\ SameCalls({"notice", "check"}) /\ SameCalls({"question"})
    BY <1>1, <1>3, <1>4, OneServed DEF LookKinds
  <1> QED
    BY <1>4, <1>5, <1>6, <1>7, LookMoves, Types

\* One lookup call less.
LEMMA LookTaken ==
  ASSUME AskInv, NEW r \in calls, calls' = calls \ {r},
         r.kind \in {"entities", "intel", "block", "unblock"}
  PROVE  /\ calls' \subseteq Calls /\ IsFiniteSet(calls')
         /\ SameCalls({"source"}) /\ SameCalls({"notice", "check"}) /\ SameCalls({"question"})
         /\ CallsOf(LookKinds, calls') \subseteq CallsOf(LookKinds, calls)
  BY CountTaken, CallsTaken, Types, Numbers DEF SameCalls, CallsOf

LEMMA LookupLandsKeeps == ASSUME AskInv, NEW r \in calls, LookupLands(r) PROVE AskInv'
  <1>1. r \in Lookups /\ r.kind \in LookKinds /\ r.ans \in LookBodies
    BY CallShapes, Types DEF LookupLands, LookKinds, Lookups
  <1>2. calls' = calls \ {r} /\ UNCHANGED <<asking, chat, store, form, host, ledger, past>>
    BY DEF LookupLands, lookRest
  <1> DEFINE found == <<[q |-> r.q, ans |-> r.ans]>>
  <1>3. found \in Seq(Found) /\ found[1].q = r.q /\ r.q \in Names
    BY <1>1 DEF Found, Lookups
  <1>4. \/ look' = look
        \/ r.gen = look.gen /\ \E k \in MaybeName :
               look' = [look EXCEPT !.busy = FALSE, !.res = found, !.keptRes = k]
        \/ r.gen = look.gen /\ \E k \in MaybeName :
               look' = [look EXCEPT !.intel = found, !.keptIntel = k]
    <2>1. CASE r.gen # look.gen
      BY <2>1 DEF LookupLands
    <2>2. CASE r.gen = look.gen /\ r.kind = "entities"
      <3> DEFINE k == IF r.ans = "rows" THEN r.q ELSE look.keptRes
      <3>1. look' = [look EXCEPT !.busy = FALSE, !.res = found, !.keptRes = k]
        BY <2>2 DEF LookupLands, Entities
      <3>2. k \in MaybeName
        BY <1>3, Types DEF Looks, MaybeName
      <3> QED
        BY <2>2, <3>1, <3>2
    <2>3. CASE r.gen = look.gen /\ r.kind # "entities"
      <3> DEFINE k == IF HasVerdict(r.ans) THEN r.q ELSE look.keptIntel
      <3>1. look' = [look EXCEPT !.intel = found, !.keptIntel = k]
        BY <2>3 DEF LookupLands, Intel
      <3>2. k \in MaybeName
        BY <1>3, Types DEF Looks, MaybeName
      <3> QED
        BY <2>3, <3>1, <3>2
    <2> QED
      BY <2>1, <2>2, <2>3
  <1> HIDE DEF found
  <1>5. /\ look' \in Looks /\ look'.used = look.used /\ look'.gen = look.gen
        /\ \/ look'.res = look.res
           \/ r.gen = look.gen /\ look'.res = found
        /\ \/ look'.intel = look.intel
           \/ r.gen = look.gen /\ look'.intel = found
    BY <1>3, <1>4, Types DEF Looks
  <1>6. r.gen = look.gen => r.q = look.used
    BY <1>1 DEF AskInv, LookFits, CallsOf
  <1>7. LookFits'
    BY <1>2, <1>3, <1>5, <1>6, LookTaken, <1>1 DEF AskInv, LookFits, LookupShowsItsOwn, LookKinds
  <1>8. QuietPast
    BY <1>2, Types, Numbers DEF QuietPast
  <1> QED
    BY <1>1, <1>2, <1>5, <1>7, <1>8, LookTaken, LookMoves DEF LookKinds

LEMMA RunBlockKeeps == ASSUME AskInv, RunBlock PROVE AskInv'
  <1> DEFINE k == IF look.block = "blocked" THEN "unblock" ELSE "block"
             c == [kind |-> k, q |-> look.used, gen |-> look.gen, ans |-> Unserved]
  <1>1. look.used \in Names
    <2>1. CASE look.res # << >>
      <3>1. look.res[1] \in Found
        BY <2>1, Types DEF Looks
      <3> QED
        BY <2>1, <3>1 DEF AskInv, LookFits, LookupShowsItsOwn, Found
    <2>2. CASE look.intel # << >>
      <3>1. look.intel[1] \in Found
        BY <2>2, Types DEF Looks
      <3> QED
        BY <2>2, <3>1 DEF AskInv, LookFits, LookupShowsItsOwn, Found
    <2> QED
      BY <2>1, <2>2 DEF RunBlock, BlockOffered
  <1>2. c \in Calls /\ c.kind \in {"block", "unblock"}
    BY <1>1, Types DEF Calls, Blocks, Looks
  <1>3. calls' = calls \union {c} /\ UNCHANGED <<asking, chat, store, form, host, ledger, past>>
    BY DEF RunBlock, lookRest
  <1>4. /\ look' \in Looks /\ look'.used = look.used /\ look'.gen = look.gen
        /\ look'.res = look.res /\ look'.intel = look.intel
    BY Types DEF RunBlock, Looks
  <1> HIDE DEF c
  <1>5. /\ calls' \subseteq Calls /\ IsFiniteSet(calls')
        /\ \A kinds \in {{"source"}, {"notice", "check"}, {"question"}, LookKinds} : SameCalls(kinds)
    BY <1>2, <1>3, CountAdded, CallsAdded, Types, Numbers DEF SameCalls, LookKinds
  <1>6. LookFits'
    BY <1>4, <1>5 DEF AskInv, LookFits, LookupShowsItsOwn, SameCalls
  <1>7. QuietPast
    BY <1>3, Types, Numbers DEF QuietPast
  <1> QED
    BY <1>3, <1>4, <1>5, <1>6, <1>7, LookMoves

LEMMA BlockLandsKeeps == ASSUME AskInv, NEW r \in calls, BlockLands(r) PROVE AskInv'
  <1>1. calls' = calls \ {r} /\ UNCHANGED <<asking, chat, store, form, host, ledger, past>>
        /\ r.kind \in {"block", "unblock"}
    BY DEF BlockLands, lookRest
  <1>2. /\ look' \in Looks /\ look'.used = look.used /\ look'.gen = look.gen
        /\ look'.res = look.res /\ look'.intel = look.intel
    BY Types DEF BlockLands, Looks
  <1>3. LookFits'
    BY <1>1, <1>2, LookTaken DEF AskInv, LookFits, LookupShowsItsOwn
  <1>4. QuietPast
    BY <1>1, Types, Numbers DEF QuietPast
  <1> QED
    BY <1>1, <1>2, <1>3, <1>4, LookTaken, LookMoves

-----------------------------------------------------------------------------
(* Steps of the search page.                                               *)

LEMMA SourcesFinite ==
  IsFiniteSet(Sources) /\ Cardinality(Sources) \in Nat
  <1>1. IsFiniteSet({"assets", "dns", "ipam", "threat", "changes"})
    <2> DEFINE one == {"assets"}
               two == one \union {"dns"}
               three == two \union {"ipam"}
               four == three \union {"threat"}
               five == four \union {"changes"}
    <2>1. five = {"assets", "dns", "ipam", "threat", "changes"}
      OBVIOUS
    <2>2. IsFiniteSet(one)
      BY FS_Singleton
    <2> HIDE DEF one
    <2>3. IsFiniteSet(two)
      BY <2>2, FS_AddElement
    <2> HIDE DEF two
    <2>4. IsFiniteSet(three)
      BY <2>3, FS_AddElement
    <2> HIDE DEF three
    <2>5. IsFiniteSet(four)
      BY <2>4, FS_AddElement
    <2> HIDE DEF four
    <2>6. IsFiniteSet(five)
      BY <2>5, FS_AddElement
    <2> HIDE DEF five
    <2> QED
      BY <2>1, <2>6, Zenon
  <1> QED
    BY <1>1, AskAssumption, FS_Subset, FS_CardinalityType

\* Counting some of the sources.
LEMMA SomeSources ==
  ASSUME NEW S \in SUBSET Sources, NEW T \in SUBSET S
  PROVE  /\ IsFiniteSet(S) /\ Cardinality(S) \in Nat /\ Cardinality(T) \in Nat
         /\ Cardinality(T) <= Cardinality(S) /\ Cardinality(S) <= Cardinality(Sources)
  <1>1. IsFiniteSet(S)
    BY SourcesFinite, FS_Subset
  <1> QED
    BY <1>1, SourcesFinite, FS_Subset, FS_CardinalityType

LEMMA OthersOfSources ==
  ASSUME NEW S \in SUBSET Sources
  PROVE  Cardinality(Sources \ S) = Cardinality(Sources) - Cardinality(S)
  <1>1. Sources \intersect S = S
    OBVIOUS
  <1>2. Cardinality(Sources \ S) = Cardinality(Sources) - Cardinality(Sources \intersect S)
    BY SourcesFinite, FS_Difference
  <1> QED
    BY <1>1, <1>2

\* What a source may answer, and what is said of it.
LEMMA SourceAnswered ==
  ASSUME NEW s \in Sources, NEW body \in Bodies(s)
  PROVE  body \in RowBodies /\ StateOf(body) # "loading"
  <1>1. body \in RowBodies
    BY DEF RowBodies
  <1>2. body \in {"malicious", "clean", "unassessed", "nosources", "down", "rows", "zero",
                  "unsupported", "odd"}
    BY DEF Bodies
  <1> QED
    BY <1>1, <1>2 DEF StateOf, HasVerdict

LEMMA BeforeIs ==
  ASSUME NEW s \in Sources, NEW q \in MaybeName
  PROVE  /\ SettledBefore(s, q) \in {"noquery", "na", "loading"} \intersect RowBodies
         /\ SettledBefore(s, q) = "loading" => q \in Names
         /\ q = NoName => SettledBefore(s, q) = "noquery"
         /\ SettledBefore(s, q) = "noquery" => q = NoName
  BY DEF SettledBefore, RowBodies, MaybeName

LEMMA LedgerMoves ==
  ASSUME AskInv, UNCHANGED <<asking, chat, store, form, host, look>>, ledger' \in Ledgers,
         QuietPast, calls' \subseteq Calls, IsFiniteSet(calls'),
         SameCalls(LookKinds), SameCalls({"notice", "check"}), SameCalls({"question"}), LedgerFits'
  PROVE  AskInv'
  <1>1. AskTypeOK'
    BY DEF AskInv, AskTypeOK, QuietPast
  <1>2. ChatFits' /\ Counted'
    BY OthersLeaveChat DEF QuietPast
  <1>3. LookFits'
    BY LookUndisturbed
  <1> QED
    BY <1>1, <1>2, <1>3 DEF AskInv

LEMMA SearchKeeps == ASSUME AskInv, NEW q \in MaybeName, Search(q) PROVE AskInv'
  <1>1. ledger' \in Ledgers /\ ledger'.due
    BY Types DEF Search, Ledgers, MaybeName
  <1>2. past' = Pressed /\ UNCHANGED <<asking, chat, store, form, host, look, calls>>
    BY DEF Search, ledgerRest
  <1>3. QuietPast /\ past'.presses = past.presses + 1
    BY <1>2, PressedOf, Types, Numbers DEF QuietPast
  <1>4. SourcesFit'
    <2> SUFFICES ASSUME NEW r \in CallsOf({"source"}, calls)
                 PROVE  r.turn <= past'.presses /\ r.turn # past'.presses
      BY <1>2 DEF SourcesFit
    <2>1. r.turn \in Nat
      BY CallShapes, Types DEF CallsOf, SourceCalls
    <2>2. r.turn <= past.presses
      BY DEF AskInv, LedgerFits, SourcesFit
    <2> QED
      BY <1>3, <2>1, <2>2, Numbers
  <1> QED
    BY <1>1, <1>2, <1>3, <1>4, LedgerMoves, Types, Numbers DEF LedgerFits, SameCalls

LEMMA EffectsKeeps == ASSUME AskInv, Effects PROVE AskInv'
  <1> DEFINE rows == [s \in Sources |-> Row(ledger.q, SettledBefore(s, ledger.q))]
             none == {}
             says == [q |-> ledger.q, about |-> {}, left |-> 0]
             CallTo(s) == [kind |-> "source", s |-> s, q |-> ledger.q, turn |-> past.presses,
                           ans |-> Unserved]
             wanted == {x \in Sources : rows[x].body = "loading"}
             To == [s \in wanted |-> CallTo(s)]
             new == {CallTo(s) : s \in wanted}
  <1>1. ledger.q \in MaybeName
    BY Types DEF Ledgers
  <1>2. /\ rows \in LedgerRows
        /\ \A s \in Sources : rows[s].q = ledger.q /\ rows[s].body = SettledBefore(s, ledger.q)
    BY <1>1, BeforeIs DEF LedgerRows, Row
  <1>3. /\ says \in [q : MaybeName, about : SUBSET Sources, left : Nat]
        /\ says.q = ledger.q /\ says.about = {} /\ none \in SUBSET Sources
    BY <1>1
  <1>4. ledger' = [ledger EXCEPT !.due = FALSE, !.rows = rows, !.mirror = rows, !.spoken = none,
                                 !.says = says]
    BY DEF Effects
  <1>5. calls' = calls \union new /\ UNCHANGED <<asking, chat, store, form, host, look, past>>
    BY DEF Effects, ledgerRest
  <1>6. \A c \in new : /\ c \in Calls /\ c.kind = "source" /\ c.turn = past.presses
                       /\ c.q = ledger.q
    <2> SUFFICES ASSUME NEW c \in new
                 PROVE  /\ c \in Calls /\ c.kind = "source" /\ c.turn = past.presses
                        /\ c.q = ledger.q
      OBVIOUS
    <2>0. PICK s \in wanted : c = CallTo(s)
      OBVIOUS
    <2>1. s \in Sources /\ ledger.q \in Names
      BY <1>1, <1>2, BeforeIs
    <2>2. CallTo(s) \in SourceCalls
      BY <2>1, Numbers DEF SourceCalls
    <2> QED
      BY <2>0, <2>2 DEF Calls
  <1>7. IsFiniteSet(new)
    <2>1. IsFiniteSet(wanted)
      BY SourcesFinite, FS_Subset
    <2>2. To \in Surjection(wanted, new)
      BY DEF Surjection
    <2> QED
      BY <2>1, <2>2, FS_Surjection
  <1>8. none = {}
    OBVIOUS
  <1> HIDE DEF rows, none, says, new
  <1>9. /\ ledger' \in Ledgers /\ ledger'.q = ledger.q /\ ~ledger'.due /\ ledger'.mirror = rows
        /\ ledger'.spoken = none /\ ledger'.says = says
    BY <1>2, <1>3, <1>4, Types DEF Ledgers
  <1>10. LedgerFits'
    <2>1. SourcesFit'
      <3> SUFFICES ASSUME NEW r \in CallsOf({"source"}, calls')
                   PROVE  /\ r.turn <= past.presses
                          /\ r.turn = past.presses => r.q = ledger.q
        BY <1>5, <1>9 DEF SourcesFit
      <3>1. CASE r \in new
        BY <1>6, <3>1, Numbers
      <3>2. CASE r \in CallsOf({"source"}, calls)
        BY <3>2 DEF AskInv, LedgerFits, SourcesFit
      <3> QED
        BY <1>5, <3>1, <3>2 DEF CallsOf
    <2>2. RowsFit'
      BY <1>2, <1>9 DEF RowsFit
    <2>3. SaidFits'
      BY <1>3, <1>8, <1>9 DEF SaidFits
    <2> QED
      BY <2>1, <2>2, <2>3 DEF LedgerFits
  <1>11. calls' \subseteq Calls /\ IsFiniteSet(calls')
    BY <1>5, <1>6, <1>7, FS_Union, Types, Numbers
  <1>12. SameCalls(LookKinds) /\ SameCalls({"notice", "check"}) /\ SameCalls({"question"})
    BY <1>5, <1>6 DEF SameCalls, CallsOf, LookKinds
  <1> QED
    BY <1>5, <1>9, <1>10, <1>11, <1>12, LedgerMoves, Types, Numbers DEF QuietPast

LEMMA SetRowKeeps ==
  ASSUME AskInv, NEW r \in calls, r.kind = "source", ~ledger.due,
         NEW body \in Bodies(r.s), SetRow(r, body)
  PROVE  AskInv'
  <1>1. r \in SourceCalls /\ r.s \in Sources /\ r.q \in Names
    BY CallShapes, Types DEF SourceCalls
  <1>2. calls' = calls \ {r} /\ UNCHANGED <<asking, chat, store, form, host, look, past>>
    BY DEF SetRow, ledgerRest
  <1> DEFINE row == Row(r.q, body)
             rows == [ledger.rows EXCEPT ![r.s] = row]
             mirror == [ledger.mirror EXCEPT ![r.s] = row]
  <1>3. row \in [q : MaybeName, body : RowBodies] /\ row.q = r.q /\ row.body = body
    BY <1>1, SourceAnswered DEF Row, MaybeName
  <1>4. ledger.rows \in LedgerRows /\ ledger.mirror \in LedgerRows
    BY Types DEF Ledgers
  <1>5. \/ ledger' = ledger
        \/ r.turn = past.presses /\ ledger' = [ledger EXCEPT !.rows = rows, !.mirror = mirror]
    <2> DEFINE l1 == [ledger EXCEPT !.rows[r.s] = row]
    <2>1. l1 = [ledger EXCEPT !.rows = rows] /\ l1.mirror = ledger.mirror
      BY Types DEF Ledgers
    <2>2. [l1 EXCEPT !.mirror[r.s] = row] = [ledger EXCEPT !.rows = rows, !.mirror = mirror]
      BY <2>1, Zenon
    <2>3. \/ ledger' = ledger
          \/ r.turn = past.presses /\ ledger' = [l1 EXCEPT !.mirror[r.s] = row]
      BY DEF SetRow
    <2> QED
      BY <2>2, <2>3, Zenon
  <1> HIDE DEF row
  <1>6. rows \in LedgerRows /\ mirror \in LedgerRows
        /\ \A s \in Sources : mirror[s] = IF s = r.s THEN row ELSE ledger.mirror[s]
    BY <1>1, <1>3, <1>4 DEF LedgerRows
  <1> HIDE DEF rows, mirror
  <1>7. /\ ledger' \in Ledgers /\ ledger'.q = ledger.q /\ ledger'.due = ledger.due
        /\ ledger'.spoken = ledger.spoken /\ ledger'.says = ledger.says
        /\ \/ ledger'.mirror = ledger.mirror
           \/ r.turn = past.presses /\ ledger'.mirror = mirror
    BY <1>5, <1>6, Types DEF Ledgers
  <1>8. SourcesFit'
    BY <1>2, <1>7 DEF AskInv, LedgerFits, SourcesFit, CallsOf
  <1>9. r.turn = past.presses => r.q = ledger.q
    BY DEF AskInv, LedgerFits, SourcesFit, CallsOf
  <1>10. RowsFit'
    BY <1>3, <1>6, <1>7, <1>9 DEF AskInv, LedgerFits, RowsFit
  <1>11. SaidFits'
    <2>1. Settled \subseteq Settled'
      <3> SUFFICES ASSUME NEW s \in Sources, StateOf(ledger.mirror[s].body) # "loading"
                   PROVE  StateOf(ledger'.mirror[s].body) # "loading"
        BY DEF Settled
      <3> QED
        BY <1>1, <1>3, <1>6, <1>7, SourceAnswered
    <2> QED
      BY <1>7, <2>1 DEF AskInv, LedgerFits, SaidFits
  <1>12. calls' \subseteq Calls /\ IsFiniteSet(calls')
    BY <1>2, CountTaken, Types, Numbers
  <1>13. SameCalls(LookKinds) /\ SameCalls({"notice", "check"}) /\ SameCalls({"question"})
    BY <1>2, CallsTaken DEF SameCalls, LookKinds
  <1> QED
    BY <1>2, <1>7, <1>8, <1>10, <1>11, <1>12, <1>13, LedgerMoves, Types, Numbers
    DEF QuietPast, LedgerFits

LEMMA SourceLandsKeeps == ASSUME AskInv, NEW r \in calls, SourceLands(r) PROVE AskInv'
  BY SetRowKeeps DEF SourceLands

LEMMA GiveUpKeeps == ASSUME AskInv, NEW r \in calls, GiveUp(r) PROVE AskInv'
  <1>1. "down" \in Bodies(r.s)
    BY DEF Bodies
  <1> QED
    BY <1>1, SetRowKeeps DEF GiveUp

LEMMA AnnounceKeeps == ASSUME AskInv, Announce PROVE AskInv'
  <1> DEFINE news == Settled \ ledger.spoken
             spoken == ledger.spoken \union news
             left == Cardinality(Sources) - Cardinality(spoken)
             says == [q |-> ledger.q, about |-> news, left |-> left]
  <1>1. /\ ~ledger.due /\ news # {} /\ ledger' = [ledger EXCEPT !.spoken = spoken, !.says = says]
        /\ UNCHANGED <<asking, chat, store, form, host, look, calls, past>>
    BY DEF Announce, ledgerRest
  <1>2. Settled \subseteq Sources /\ ledger.spoken \subseteq Settled /\ ledger.q \in MaybeName
    BY <1>1, Types DEF Settled, AskInv, LedgerFits, SaidFits, Ledgers
  <1>3. spoken \in SUBSET Sources /\ news \in SUBSET Sources /\ spoken \subseteq Settled
    BY <1>2
  <1>4. left \in Nat
    <2> HIDE DEF spoken
    <2> QED
      BY <1>3, SomeSources, SourcesFinite
  <1>5. /\ says \in [q : MaybeName, about : SUBSET Sources, left : Nat]
        /\ says.q = ledger.q /\ says.about = news /\ says.left = left
    <2> HIDE DEF left, news
    <2> QED
      BY <1>2, <1>3, <1>4
  <1>6. left = Cardinality(Sources) - Cardinality(spoken)
    OBVIOUS
  <1> HIDE DEF news, spoken, left, says
  <1>7. /\ ledger' \in Ledgers /\ ledger'.q = ledger.q /\ ~ledger'.due
        /\ ledger'.mirror = ledger.mirror /\ ledger'.spoken = spoken /\ ledger'.says = says
    BY <1>1, <1>3, <1>5, Types DEF Ledgers
  <1>8. SourcesFit'
    BY <1>1, <1>7 DEF AskInv, LedgerFits, SourcesFit
  <1>9. RowsFit'
    BY <1>1, <1>7 DEF AskInv, LedgerFits, RowsFit
  <1>10. SaidFits'
    <2>1. Settled' = Settled
      BY <1>7 DEF Settled
    <2> QED
      BY <1>1, <1>3, <1>5, <1>6, <1>7, <2>1 DEF SaidFits
  <1> QED
    BY <1>1, <1>7, <1>8, <1>9, <1>10, LedgerMoves, Types, Numbers DEF QuietPast, LedgerFits, SameCalls

-----------------------------------------------------------------------------
LEMMA AskInitFits == AskInit => AskInv
  <1> SUFFICES ASSUME AskInit PROVE AskInv
    OBVIOUS
  <1> DEFINE none == << >>
  <1>1. none \in Seq(Items) /\ none \in Seq(Found)
    OBVIOUS
  <1>2. chat \in Chats /\ chat.here = NoHost /\ ~chat.link
    BY DEF AskInit, NoChat, Chats, MaybeHost
  <1>3. look \in Looks /\ look.res = << >> /\ look.intel = << >>
    BY DEF AskInit, NoLook, Looks, MaybeName
  <1>4. form \in ProviderForms
    BY DEF AskInit, NoForm, ProviderForms, MaybeHost
  <1>5. past \in Pasts /\ past.presses = 0 /\ past.sent = 0 /\ past.went = {}
    BY DEF AskInit, Pasts
  <1>6. /\ ledger \in Ledgers /\ ~ledger.due /\ ledger.q = NoName /\ ledger.spoken = Sources
        /\ ledger.says.q = NoName /\ ledger.says.about = {}
        /\ \A s \in Sources : ledger.mirror[s].q = NoName /\ ledger.mirror[s].body = "noquery"
    <2> DEFINE rows == [s \in Sources |-> Row(NoName, "noquery")]
               says == [q |-> NoName, about |-> {}, left |-> 0]
    <2>1. rows \in LedgerRows /\ \A s \in Sources : rows[s].q = NoName /\ rows[s].body = "noquery"
      BY DEF LedgerRows, Row, RowBodies, MaybeName
    <2>2. says \in [q : MaybeName, about : SUBSET Sources, left : Nat]
          /\ says.q = NoName /\ says.about = {}
      BY DEF MaybeName
    <2>3. ledger = [q |-> NoName, due |-> FALSE, rows |-> rows, mirror |-> rows,
                    spoken |-> Sources, says |-> says]
      BY DEF AskInit, NoLedger
    <2> HIDE DEF rows, says
    <2> QED
      BY <2>1, <2>2, <2>3 DEF Ledgers, MaybeName
  <1>7. AskTypeOK
    BY <1>2, <1>3, <1>4, <1>5, <1>6 DEF AskInit, AskTypeOK
  <1>8. ChatFits
    BY <1>2, <1>5 DEF AskInit, ChatFits, CallsOf
  <1>9. Counted
    <2>1. calls = {} /\ CallsOf({"check"}, calls) = {}
      BY DEF AskInit, CallsOf
    <2> QED
      BY <1>2, <1>5, <2>1, FS_EmptySet DEF Counted, Pending
  <1>10. LookFits
    BY <1>3 DEF AskInit, LookFits, LookupShowsItsOwn, CallsOf
  <1>11. LedgerFits
    <2>1. SourcesFit
      BY DEF AskInit, SourcesFit, CallsOf
    <2>2. RowsFit
      BY <1>6, BeforeIs DEF RowsFit, MaybeName
    <2>3. SaidFits
      BY <1>6 DEF SaidFits, Settled, StateOf, HasVerdict
    <2> QED
      BY <2>1, <2>2, <2>3 DEF LedgerFits
  <1> QED
    BY <1>7, <1>8, <1>9, <1>10, <1>11 DEF AskInv

LEMMA AskStays == AskInv /\ UNCHANGED askVars => AskInv'
  <1> SUFFICES ASSUME AskInv, UNCHANGED askVars PROVE AskInv'
    OBVIOUS
  <1>1. UNCHANGED <<asking, chat, store, form, host, look, ledger, calls, past>>
    BY DEF askVars
  <1>2. AskTypeOK'
    BY <1>1 DEF AskInv, AskTypeOK
  <1>3. ChatFits' /\ Counted'
    BY <1>1 DEF AskInv, ChatFits, Counted, Pending
  <1>4. LookFits'
    BY <1>1 DEF AskInv, LookFits, LookupShowsItsOwn
  <1>5. LedgerFits'
    BY <1>1 DEF AskInv, LedgerFits, SourcesFit, RowsFit, SaidFits, Settled
  <1> QED
    BY <1>2, <1>3, <1>4, <1>5 DEF AskInv

LEMMA AskStepKeeps == AskInv /\ [AskNext]_askVars => AskInv'
  <1> SUFFICES ASSUME AskInv, [AskNext]_askVars PROVE AskInv'
    OBVIOUS
  <1>1. CASE OpenChat \/ LeaveChat \/ Understand \/ Ask \/ FollowLink \/ Take \/ NewChat
    BY <1>1, OpenChatKeeps, LeaveChatKeeps, UnderstandKeeps, AskKeeps, FollowLinkKeeps, TakeKeeps,
       NewChatKeeps
  <1>2. ASSUME NEW h \in Hosts, TypeProvider(h) PROVE AskInv'
    BY <1>2, TypeProviderKeeps
  <1>3. ASSUME NEW op \in {"test", "save"}, SendProvider(op) PROVE AskInv'
    BY <1>3, SendProviderKeeps
  <1>4. ASSUME NEW q \in Names, Lookup(q) PROVE AskInv'
    BY <1>4, LookupKeeps
  <1>5. ASSUME NEW q \in Names \union {NoName}, Search(q) PROVE AskInv'
    BY <1>5, SearchKeeps DEF MaybeName
  <1>6. CASE RunBlock \/ Effects \/ Announce
    BY <1>6, RunBlockKeeps, EffectsKeeps, AnnounceKeeps
  <1>7. ASSUME NEW r \in calls,
               \/ ServeEgress(r) \/ NoticeLands(r) \/ CheckLands(r) \/ ServeQuestion(r)
               \/ AnswerLands(r) \/ ServeProvider(r) \/ ProviderLands(r)
        PROVE  AskInv'
    BY <1>7, ServeEgressKeeps, NoticeLandsKeeps, CheckLandsKeeps, ServeQuestionKeeps,
       AnswerLandsKeeps, ServeProviderKeeps, ProviderLandsKeeps
  <1>8. ASSUME NEW r \in calls,
               \/ ServeLookup(r) \/ LookupLands(r) \/ BlockLands(r) \/ SourceLands(r) \/ GiveUp(r)
        PROVE  AskInv'
    BY <1>8, ServeLookupKeeps, LookupLandsKeeps, BlockLandsKeeps, SourceLandsKeeps, GiveUpKeeps
  <1>9. CASE UNCHANGED askVars
    BY <1>9, AskStays
  <1> QED
    BY <1>1, <1>2, <1>3, <1>4, <1>5, <1>6, <1>7, <1>8, <1>9 DEF AskNext

\* The chat, the lookup and the search page keep the invariant.
THEOREM AskInductive == AskSpec => []AskInv
  <1>1. AskInit => AskInv
    BY AskInitFits
  <1>2. AskInv /\ [AskNext]_askVars => AskInv'
    BY AskStepKeeps
  <1> QED
    BY <1>1, <1>2, PTL DEF AskSpec

\* A question goes to a host whose notice was understood, unless the provider
\* was changed meanwhile, and once for each time somebody asked (Ai.jsx 363-365,
\* 727-729).
THEOREM QuestionsAlwaysGoWhereMeant == AskSpec => []QuestionsGoWhereMeant
  <1>1. AskInv => QuestionsGoWhereMeant
    <2> SUFFICES ASSUME AskInv PROVE QuestionsGoWhereMeant
      OBVIOUS
    <2>1. SentWhereUnderstood
      BY DEF AskInv, ChatFits, SentWhereUnderstood
    <2>2. AskedOnce
      <3>1. {r \in calls : r.kind = "check"} = CallsOf({"check"}, calls)
        BY DEF CallsOf
      <3>2. Cardinality({r \in calls : r.kind = "check"}) = Cardinality(CallsOf({"check"}, calls))
        BY <3>1, Zenon
      <3> DEFINE tests == Cardinality({r \in calls : r.kind = "check"})
      <3>3. /\ past.sent \in Nat /\ past.presses \in Nat /\ Pending \in 0 .. 1 /\ tests \in Nat
            /\ past.sent + tests + Pending <= past.presses
        BY <3>2, Numbers
      <3> HIDE DEF tests
      <3>4. past.sent + tests <= past.presses
        BY <3>3
      <3> QED
        BY <3>4 DEF tests, AskedOnce
    <2> QED
      BY <2>1, <2>2 DEF AskInv, QuestionsGoWhereMeant
  <1> QED
    BY <1>1, AskInductive, PTL

\* What a row that fits says of its source.
LEMMA RowSays ==
  ASSUME AskInv, ~ledger.due, NEW s \in Sources
  PROVE  LET body == ledger.mirror[s].body
         IN  /\ ledger.mirror[s] = Row(ledger.q, body)
             /\ body \in Bodies(s) \union {"noquery", "na", "loading"}
  <1>1. /\ ledger.mirror[s].q = ledger.q
        /\ ledger.mirror[s].body \in Bodies(s) \union {SettledBefore(s, ledger.q)}
    BY DEF AskInv, LedgerFits, RowsFit
  <1>2. ledger.mirror[s] \in [q : MaybeName, body : RowBodies] /\ ledger.q \in MaybeName
    BY Types DEF Ledgers, LedgerRows
  <1> QED
    BY <1>1, <1>2, BeforeIs DEF Row

LEMMA SummaryFits == AskInv => SummaryIsEarned
  <1> SUFFICES ASSUME AskInv, ~ledger.due PROVE SummaryIsEarned
    BY DEF SummaryIsEarned
  <1>1. \A s \in UsedBy : s \in Sources /\ s # "threat"
    BY DEF UsedBy
  <1>2. ASSUME Summary = "free", NEW s \in UsedBy
        PROVE  ledger.mirror[s] \in {Row(ledger.q, "zero"), Row(ledger.q, "na")}
    <2>1. StateOf(ledger.mirror[s].body) \in {"na", "none"}
      BY <1>2 DEF Summary
    <2>2. ledger.mirror[s].body \in {"zero", "na"}
      BY <1>1, <2>1, RowSays DEF StateOf, HasVerdict, Bodies
    <2> QED
      BY <1>1, <2>2, RowSays
  <1>3. ASSUME Summary = "in use"
        PROVE  \E s \in UsedBy : ledger.mirror[s] = Row(ledger.q, "rows")
    <2>1. PICK s \in UsedBy : StateOf(ledger.mirror[s].body) = "ok"
      BY <1>3 DEF Summary
    <2>2. ledger.mirror[s].body = "rows"
      BY <1>1, <2>1, RowSays DEF StateOf, HasVerdict, Bodies
    <2> QED
      BY <1>1, <2>2, RowSays
  <1>4. ASSUME Verdict = "clean"
        PROVE  ledger.mirror["threat"] = Row(ledger.q, "clean")
    <2>1. "threat" \in Sources
      BY AskAssumption
    <2>2. ledger.mirror["threat"].body = "clean"
      BY <1>4 DEF Verdict
    <2> QED
      BY <2>1, <2>2, RowSays
  <1> QED
    BY <1>2, <1>3, <1>4 DEF SummaryIsEarned

LEMMA AnnouncementFits == AskInv => AnnouncedIsTrue
  <1> SUFFICES ASSUME AskInv, ~ledger.due PROVE AnnouncedIsTrue
    BY DEF AnnouncedIsTrue
  <1>1. SaidFits /\ Settled \in SUBSET Sources /\ ledger.spoken \in SUBSET Settled
    BY DEF AskInv, LedgerFits, SaidFits, Settled
  <1>2. ASSUME ledger.says.about # {}
        PROVE  Cardinality(Sources \ Settled) <= ledger.says.left
    <2>1. ledger.says.left = Cardinality(Sources) - Cardinality(ledger.spoken)
      BY <1>1, <1>2 DEF SaidFits
    <2>2. Cardinality(Sources \ Settled) = Cardinality(Sources) - Cardinality(Settled)
      BY <1>1, OthersOfSources
    <2>3. /\ Cardinality(ledger.spoken) <= Cardinality(Settled)
          /\ Cardinality(ledger.spoken) \in Nat /\ Cardinality(Settled) \in Nat
          /\ Cardinality(Sources) \in Nat
      BY <1>1, SomeSources, SourcesFinite
    <2> QED
      BY <2>1, <2>2, <2>3
  <1>3. ASSUME ledger.q # NoName, ledger.spoken = Sources
        PROVE  ledger.says.about # {} /\ ledger.says.left = 0
    <2>1. ledger.says.about # {} /\ ledger.says.left = Cardinality(Sources) - Cardinality(Sources)
      BY <1>1, <1>3, AskAssumption DEF SaidFits
    <2> QED
      BY <2>1, SourcesFinite
  <1> QED
    BY <1>1, <1>2, <1>3 DEF AnnouncedIsTrue, SaidFits

\* The lookup shows what was answered about its name, and the search page says
\* no more than its sources have answered (Ai.jsx 624-627, DossierPage.jsx 25-55,
\* 685-704).
THEOREM AnswersAlwaysTheirOwn == AskSpec => []AnswersAreTheirOwn
  <1>1. AskInv => AnswersAreTheirOwn
    BY SummaryFits, AnnouncementFits DEF AnswersAreTheirOwn, AskInv, LookFits
  <1> QED
    BY <1>1, AskInductive, PTL

-----------------------------------------------------------------------------
(* The data feeds.                                                         *)

States ==
    [hook : [Sites -> Hooks], net : SUBSET Requests,
     wire : [Urls -> Wires], started : [Urls -> Nat], forgotten : [Urls -> Nat]]

HookFits(h, k) ==
    /\ k.alive => h \in page /\ k.url \in SiteUrls[h] /\ k.held \in SiteUrls[h]
    /\ k.data # NoData => k.data.url = k.held
    /\ k.timer # NoTimer => k.timer.gen = k.gen
    /\ k.waiting # 0 => h \in Adopters /\ k.alive /\ k.waiting = k.gen
    /\ k.error \/ k.retrying => k.held # NoUrl

\* An answer is to the url its call site still holds, unless it comes too late.
RequestFits(r, k) ==
    /\ r.gen <= k.gen
    /\ Live(k, r.gen) => r.url = k.held

\* The sequence of a url counts the requests started since it was last forgotten,
\* and the answer it keeps has the number of its request, unless that is older.
WireFits(s, u) ==
    /\ s.wire[u].seq = s.started[u] - s.forgotten[u]
    /\ s.wire[u].ok > s.forgotten[u] => s.wire[u].okSeq = s.wire[u].ok - s.forgotten[u]

NumberFits(s, r) ==
    /\ r.n <= s.started[r.url]
    /\ r.n > s.forgotten[r.url] => r.seq = r.n - s.forgotten[r.url]

HooksFit(s) == \A h \in Sites : HookFits(h, s.hook[h])
NetFits(s) == \A r \in s.net : RequestFits(r, s.hook[r.hook])
WiresFit(s) == \A u \in Urls : WireFits(s, u)
NumbersFit(s) == \A r \in s.net : NumberFits(s, r)
NumbersCount(s) == WiresFit(s) /\ NumbersFit(s)

Fits(s) == HooksFit(s) /\ NetFits(s) /\ NumbersCount(s)

\* RetryingIsTrue for one call site.
RetryFits(s, h) ==
    LET k == s.hook[h]
    IN  k.alive /\ k.url = k.held /\ k.retrying =>
            \/ k.timer # NoTimer
            \/ \E t \in k.orphans : Due(k, t)
            \/ \E r \in s.net : r.hook = h /\ Live(k, r.gen)
            \/ k.waiting = k.gen

RetriesFit(s) == \A h \in Sites : RetryFits(s, h)

Sound(s) == s \in States /\ Fits(s) /\ RetriesFit(s)

FeedInv == page \in Pages /\ prompts \in Nat /\ Sound(st)

USE SitesAssumption

-----------------------------------------------------------------------------
(* What the operators on one hook leave.                                   *)

LEMMA SentinelTypes == NoData \in Payloads /\ NoTimer \in Timers /\ NoHook \in Hooks
  BY DEF NoData, NoTimer, NoHook, Payloads, Timers, Hooks, MaybeUrl, MaxAttempts

LEMMA TakenFields ==
  ASSUME NEW k \in Hooks, NEW d \in Payloads
  PROVE  LET j == Taken(k, d)
         IN  /\ j \in Hooks
             /\ j.alive = k.alive /\ j.url = k.url /\ j.held = k.held /\ j.gen = k.gen
             /\ j.timer = k.timer /\ j.orphans = k.orphans /\ j.waiting = k.waiting
             /\ j.data = d /\ ~j.error /\ ~j.retrying
  <1> DEFINE none == 0
             j == [k EXCEPT !.data = d, !.error = FALSE, !.loading = FALSE,
                            !.retrying = FALSE, !.failures = none]
  <1>a. none \in 0 .. MaxAttempts /\ Taken(k, d) = j
    BY DEF Taken, MaxAttempts
  <1> HIDE DEF none
  <1>b. j \in Hooks
    BY <1>a DEF Hooks
  <1>1. Taken(k, d) \in Hooks
    BY <1>a, <1>b
  <1>2. /\ Taken(k, d).data = d /\ ~Taken(k, d).error /\ ~Taken(k, d).retrying
        /\ Taken(k, d).alive = k.alive /\ Taken(k, d).url = k.url
        /\ Taken(k, d).held = k.held /\ Taken(k, d).gen = k.gen
        /\ Taken(k, d).timer = k.timer /\ Taken(k, d).orphans = k.orphans
        /\ Taken(k, d).waiting = k.waiting
    BY SMTT(30) DEF Taken, Hooks
  <1> QED
    BY <1>1, <1>2

LEMMA LockedFields ==
  ASSUME NEW k \in Hooks
  PROVE  LET j == Locked(k)
         IN  /\ j \in Hooks
             /\ j.alive = k.alive /\ j.url = k.url /\ j.held = k.held /\ j.gen = k.gen
             /\ j.waiting = k.waiting
             /\ j.timer = NoTimer /\ j.data = NoData /\ ~j.error /\ ~j.retrying
  BY SentinelTypes DEF Locked, Hooks

LEMMA RunningType ==
  ASSUME NEW k \in Hooks
  PROVE  Running(k) \subseteq Timers \ {NoTimer}
  BY DEF Running, Hooks

LEMMA FailedFields ==
  ASSUME NEW k \in Hooks, NEW h \in Sites, NEW transient \in BOOLEAN, k.held \in Urls
  PROVE  LET j == Failed(k, h, transient)
         IN  /\ j \in Hooks
             /\ j.alive = k.alive /\ j.url = k.url /\ j.held = k.held /\ j.gen = k.gen
             /\ j.waiting = k.waiting /\ j.data = k.data
             /\ j.timer = k.timer \/ (j.timer # NoTimer /\ j.timer.gen = k.gen)
             /\ j.retrying => j.timer # NoTimer
  <1> DEFINE attempt == IF k.failures < MaxAttempts THEN k.failures + 1 ELSE MaxAttempts
             again == transient /\ h \notin Polls /\ attempt < MaxAttempts
             auto == [kind |-> "auto", gen |-> k.gen, url |-> k.held]
             timer == IF again THEN auto ELSE k.timer
             orphans == IF again THEN k.orphans \union Running(k) ELSE k.orphans
             j == [k EXCEPT !.error = TRUE, !.loading = FALSE, !.failures = attempt,
                            !.retrying = again, !.timer = timer, !.orphans = orphans]
  <1>1. Failed(k, h, transient) = j
    BY DEF Failed
  <1>2. attempt \in 0 .. MaxAttempts
    BY DEF Hooks, MaxAttempts
  <1>3. auto \in Timers /\ auto # NoTimer /\ auto.gen = k.gen
    BY DEF Timers, NoTimer, Hooks, MaybeUrl
  <1>4. timer \in Timers /\ (again => timer # NoTimer) /\ (~again => timer = k.timer)
        /\ (again => timer.gen = k.gen)
    BY <1>3 DEF Hooks
  <1>5. orphans \in SUBSET (Timers \ {NoTimer})
    BY RunningType DEF Hooks
  <1>6. again \in BOOLEAN
    OBVIOUS
  <1> HIDE DEF attempt, again, timer, orphans
  <1>7. /\ j \in Hooks
        /\ j.alive = k.alive /\ j.url = k.url /\ j.held = k.held /\ j.gen = k.gen
        /\ j.waiting = k.waiting /\ j.data = k.data
        /\ j.timer = timer /\ j.retrying = again
    BY <1>2, <1>4, <1>5, <1>6 DEF Hooks
  <1> QED
    BY <1>1, <1>4, <1>7

LEMMA ColdFields ==
  ASSUME NEW k \in Hooks, NEW u \in MaybeUrl
  PROVE  LET j == Cold(k, u)
         IN  /\ j \in Hooks
             /\ j.alive /\ j.url = u /\ j.held = u /\ j.gen = k.gen + 1
             /\ j.waiting = k.waiting /\ j.data = NoData /\ j.timer = NoTimer
             /\ ~j.error /\ ~j.retrying
  <1> DEFINE next == k.gen + 1
             i == [NoHook EXCEPT !.alive = TRUE, !.url = u, !.held = u]
             j == [i EXCEPT !.gen = next, !.orphans = k.orphans, !.waiting = k.waiting]
  <1>1. Cold(k, u) = j
    BY DEF Cold
  <1>2. next \in Nat /\ next = k.gen + 1
    BY DEF Hooks
  <1>3. NoHook.data = NoData /\ NoHook.timer = NoTimer /\ ~NoHook.error /\ ~NoHook.retrying
    BY DEF NoHook
  <1> HIDE DEF next
  <1>4. /\ i \in Hooks /\ i.alive /\ i.url = u /\ i.held = u
        /\ i.data = NoData /\ i.timer = NoTimer /\ ~i.error /\ ~i.retrying
    BY <1>3, SentinelTypes DEF Hooks
  <1> HIDE DEF i
  <1>5. k.orphans \in SUBSET (Timers \ {NoTimer}) /\ k.waiting \in Nat
    BY DEF Hooks
  <1>6. /\ j \in Hooks /\ j.alive /\ j.url = u /\ j.held = u /\ j.gen = next
        /\ j.waiting = k.waiting /\ j.data = NoData /\ j.timer = NoTimer
        /\ ~j.error /\ ~j.retrying
    BY <1>2, <1>4, <1>5 DEF Hooks
  <1> QED
    BY <1>1, <1>2, <1>6

LEMMA FiredFields ==
  ASSUME NEW k \in Hooks, NEW t \in Timers
  PROVE  LET j == Fired(k, t)
         IN  /\ j \in Hooks
             /\ j.alive = k.alive /\ j.url = k.url /\ j.held = k.held /\ j.gen = k.gen
             /\ j.waiting = k.waiting /\ j.data = k.data /\ j.error = k.error
             /\ j.retrying = k.retrying /\ j.timer = NoTimer
             /\ j.orphans = (k.orphans \union Running(k)) \ {t}
  <1>1. (k.orphans \union Running(k)) \ {t} \in SUBSET (Timers \ {NoTimer})
    BY RunningType DEF Hooks
  <1> QED
    BY <1>1, SentinelTypes DEF Fired, Hooks

LEMMA RetryFields ==
  ASSUME NEW k \in Hooks
  PROVE  LET j == Retry(k)
         IN  /\ j \in Hooks
             /\ j.alive = k.alive /\ j.url = k.url /\ j.held = k.held /\ j.gen = k.gen
             /\ j.waiting = k.waiting /\ j.data = k.data /\ j.error = k.error
             /\ j.timer # NoTimer /\ j.timer.gen = k.gen
  <1> DEFINE manual == [kind |-> "manual", gen |-> k.gen, url |-> k.held]
  <1>1. manual \in Timers /\ manual # NoTimer /\ manual.gen = k.gen
    BY DEF Timers, NoTimer, Hooks
  <1> DEFINE none == 0
  <1>2. none \in 0 .. MaxAttempts
        /\ Retry(k) = [k EXCEPT !.failures = none, !.retrying = TRUE, !.timer = manual]
    BY DEF Retry, MaxAttempts
  <1> HIDE DEF manual, none
  <1>3. Retry(k) \in Hooks
    BY <1>1, <1>2 DEF Hooks
  <1>4. /\ Retry(k).alive = k.alive /\ Retry(k).url = k.url /\ Retry(k).held = k.held
        /\ Retry(k).gen = k.gen /\ Retry(k).waiting = k.waiting /\ Retry(k).data = k.data
        /\ Retry(k).error = k.error /\ Retry(k).timer = manual
    BY <1>1, <1>2, SMTT(30) DEF Hooks
  <1> QED
    BY <1>1, <1>3, <1>4

-----------------------------------------------------------------------------
(* What the operators on the state leave.                                  *)

LEMMA SetHookFields ==
  ASSUME NEW s \in States, NEW h \in Sites, NEW k \in Hooks
  PROVE  LET t == SetHook(s, h, k)
         IN  /\ t \in States
             /\ t.net = s.net /\ t.wire = s.wire
             /\ t.started = s.started /\ t.forgotten = s.forgotten
             /\ t.hook[h] = k
             /\ \A g \in Sites \ {h} : t.hook[g] = s.hook[g]
  <1> DEFINE put == [s.hook EXCEPT ![h] = k]
  <1>1. put \in [Sites -> Hooks] /\ put[h] = k /\ \A g \in Sites \ {h} : put[g] = s.hook[g]
    BY DEF States
  <1>2. SetHook(s, h, k) = [s EXCEPT !.hook = put]
    BY DEF SetHook
  <1> HIDE DEF put
  <1> QED
    BY <1>1, <1>2 DEF States

LEMMA SetWireFields ==
  ASSUME NEW s \in States, NEW u \in Urls, NEW w \in Wires
  PROVE  LET t == SetWire(s, u, w)
         IN  /\ t \in States
             /\ t.hook = s.hook /\ t.net = s.net
             /\ t.started = s.started /\ t.forgotten = s.forgotten
             /\ t.wire[u] = w
             /\ \A v \in Urls \ {u} : t.wire[v] = s.wire[v]
  <1> DEFINE put == [s.wire EXCEPT ![u] = w]
  <1>1. put \in [Urls -> Wires] /\ put[u] = w /\ \A v \in Urls \ {u} : put[v] = s.wire[v]
    BY DEF States
  <1>2. SetWire(s, u, w) = [s EXCEPT !.wire = put]
    BY DEF SetWire
  <1> HIDE DEF put
  <1> QED
    BY <1>1, <1>2 DEF States

\* The count does not depend on the hooks, and a request may end.
LEMMA SameCount ==
  ASSUME NEW s \in States, NEW t \in States, NumbersCount(s), t.net \subseteq s.net,
         t.wire = s.wire, t.started = s.started, t.forgotten = s.forgotten
  PROVE  NumbersCount(t)
  BY DEF NumbersCount, WiresFit, WireFits, NumbersFit, NumberFits

LEMMA ForgottenFields ==
  ASSUME NEW w \in Wires
  PROVE  Forgotten(w) \in Wires /\ Forgotten(w).seq = 0 /\ Forgotten(w).ok = 0
  BY DEF Forgotten, NoWire, Wires

\* A forgotten url counts from here: every request it has in the air is older.
LEMMA ForgetFits ==
  ASSUME NEW s \in States, NumbersCount(s), NEW u \in MaybeUrl
  PROVE  LET t == Forget(s, u)
         IN t \in States /\ t.hook = s.hook /\ t.net = s.net /\ NumbersCount(t)
  <1>1. CASE u = NoUrl \/ Adopting(s, u)
    BY <1>1 DEF Forget
  <1>2. CASE ~(u = NoUrl \/ Adopting(s, u))
    <2> DEFINE w == Forgotten(s.wire[u])
               m == SetWire(s, u, w)
               base == [s.forgotten EXCEPT ![u] = s.started[u]]
               t == [m EXCEPT !.forgotten = base]
    <2>1. u \in Urls /\ Forget(s, u) = t
      BY <1>2 DEF MaybeUrl, Forget
    <2>2. w \in Wires /\ w.seq = 0 /\ w.ok = 0
      BY <2>1, ForgottenFields DEF States
    <2> HIDE DEF w
    <2>3. /\ m \in States /\ m.hook = s.hook /\ m.net = s.net /\ m.started = s.started
          /\ m.wire[u] = w /\ \A v \in Urls \ {u} : m.wire[v] = s.wire[v]
      BY <2>1, <2>2, SetWireFields
    <2> HIDE DEF m
    <2>4. /\ base \in [Urls -> Nat] /\ base[u] = s.started[u]
          /\ \A v \in Urls \ {u} : base[v] = s.forgotten[v]
      BY <2>1 DEF States
    <2> HIDE DEF base
    <2>5. /\ t \in States /\ t.hook = s.hook /\ t.net = s.net /\ t.started = s.started
          /\ t.wire = m.wire /\ t.forgotten = base
      BY <2>3, <2>4 DEF States
    <2> HIDE DEF t
    <2>6. s.started[u] \in Nat
      BY <2>1 DEF States
    <2>7. WiresFit(t)
      <3> SUFFICES ASSUME NEW v \in Urls PROVE WireFits(t, v)
        BY DEF WiresFit
      <3>1. CASE v = u
        BY <2>2, <2>3, <2>4, <2>5, <2>6, <3>1 DEF WireFits
      <3>2. CASE v # u
        BY <2>3, <2>4, <2>5, <3>2 DEF NumbersCount, WiresFit, WireFits
      <3> QED
        BY <3>1, <3>2
    <2>8. NumbersFit(t)
      <3> SUFFICES ASSUME NEW r \in s.net PROVE NumberFits(t, r)
        BY <2>5 DEF NumbersFit
      <3>1. NumberFits(s, r) /\ r.url \in Urls /\ r.n \in Nat
        BY DEF NumbersCount, NumbersFit, States, Requests
      <3>2. CASE r.url = u
        BY <2>4, <2>5, <2>6, <3>1, <3>2 DEF NumberFits
      <3>3. CASE r.url # u
        BY <2>4, <2>5, <3>1, <3>3 DEF NumberFits
      <3> QED
        BY <3>2, <3>3
    <2> QED
      BY <2>1, <2>5, <2>7, <2>8 DEF NumbersCount
  <1> QED
    BY <1>1, <1>2

LEMMA PublishFits ==
  ASSUME NEW s \in States, NEW r \in s.net, NumbersCount(s)
  PROVE  LET t == PublishOk(s, r)
         IN t \in States /\ t.hook = s.hook /\ t.net = s.net /\ NumbersCount(t)
  <1> DEFINE u == r.url
             w == [s.wire[u] EXCEPT !.ok = r.n, !.okSeq = r.seq, !.fresh = TRUE]
             t == SetWire(s, u, w)
  <1>1. /\ u \in Urls /\ r.n \in Nat /\ r.seq \in Nat /\ s.wire[u] \in Wires
        /\ NumberFits(s, r) /\ WireFits(s, u)
    BY DEF Requests, States, NumbersCount, NumbersFit, WiresFit
  <1>2. PublishOk(s, r) = s \/ PublishOk(s, r) = t
    BY DEF PublishOk
  <1>3. w \in Wires /\ w.seq = s.wire[u].seq /\ w.ok = r.n /\ w.okSeq = r.seq
    BY <1>1 DEF Wires
  <1> HIDE DEF w
  <1>4. /\ t \in States /\ t.hook = s.hook /\ t.net = s.net
        /\ t.started = s.started /\ t.forgotten = s.forgotten
        /\ t.wire[u] = w /\ \A v \in Urls \ {u} : t.wire[v] = s.wire[v]
    BY <1>1, <1>3, SetWireFields
  <1> HIDE DEF t
  <1>5. WireFits(t, u)
    BY <1>1, <1>3, <1>4 DEF WireFits, NumberFits
  <1>6. \A v \in Urls \ {u} : WireFits(t, v)
    BY <1>4 DEF NumbersCount, WiresFit, WireFits
  <1>7. NumbersFit(t)
    BY <1>4 DEF NumbersCount, NumbersFit, NumberFits
  <1>8. NumbersCount(t)
    BY <1>5, <1>6, <1>7 DEF NumbersCount, WiresFit
  <1> QED
    BY <1>2, <1>4, <1>8

LEMMA AnsweredFits ==
  ASSUME NEW s \in States, NEW r \in Requests, NumbersCount(s)
  PROVE  LET t == Answered(s, r)
         IN  /\ t \in States /\ t.hook = s.hook /\ t.net = s.net \ {r} /\ NumbersCount(t)
  <1> DEFINE u == r.url
             a == IF r.n # 0 /\ s.wire[u].asking = r.n THEN 0 ELSE s.wire[u].asking
             w == [s.wire[u] EXCEPT !.asking = a]
             t == SetWire(s, u, w)
             net1 == s.net \ {r}
  <1>1. u \in Urls /\ s.wire[u] \in Wires
    BY DEF Requests, States
  <1>2. a \in Nat
    BY <1>1 DEF Wires
  <1>3. Answered(s, r) = [t EXCEPT !.net = net1]
    BY DEF Answered
  <1>4. net1 \in SUBSET Requests
    BY DEF States
  <1> HIDE DEF a, net1
  <1>5. w \in Wires /\ w.seq = s.wire[u].seq /\ w.ok = s.wire[u].ok
        /\ w.okSeq = s.wire[u].okSeq
    BY <1>1, <1>2 DEF Wires
  <1> HIDE DEF w, u
  <1>6. /\ t \in States /\ t.hook = s.hook /\ t.net = s.net
        /\ t.started = s.started /\ t.forgotten = s.forgotten
        /\ t.wire[u] = w /\ \A v \in Urls \ {u} : t.wire[v] = s.wire[v]
    BY <1>1, <1>5, SetWireFields
  <1> HIDE DEF t
  <1> DEFINE z == [t EXCEPT !.net = net1]
  <1>7. /\ z \in States /\ z.hook = s.hook /\ z.net = net1 /\ z.started = s.started
        /\ z.forgotten = s.forgotten /\ z.wire = t.wire
    BY <1>4, <1>6 DEF States
  <1> HIDE DEF z
  <1>8. WiresFit(z)
    BY <1>1, <1>5, <1>6, <1>7 DEF NumbersCount, WiresFit, WireFits
  <1>9. NumbersFit(z)
    BY <1>7 DEF NumbersCount, NumbersFit, NumberFits, net1
  <1>10. Answered(s, r) = z
    BY <1>3 DEF z
  <1> QED
    BY <1>7, <1>8, <1>9, <1>10 DEF net1, NumbersCount

LEMMA ClaimFits ==
  ASSUME NEW s \in States, NEW u \in Urls, NumbersCount(s)
  PROVE  LET t == ClaimSeq(s, u)
         IN  /\ t \in States /\ t.hook = s.hook /\ t.net = s.net /\ NumbersCount(t)
             /\ t.started[u] = s.started[u] + 1 /\ t.forgotten = s.forgotten
  <1> DEFINE n == s.started[u] + 1
             q == s.wire[u].seq + 1
             w == [s.wire[u] EXCEPT !.seq = q, !.asking = n]
             t == SetWire(s, u, w)
             tally == [s.started EXCEPT ![u] = n]
             z == [t EXCEPT !.started = tally]
  <1>1. /\ s.wire[u] \in Wires /\ n \in Nat /\ q \in Nat /\ WireFits(s, u)
        /\ s.started[u] \in Nat /\ s.forgotten[u] \in Nat
    BY DEF States, Wires, NumbersCount, WiresFit
  <1>2. q = n - s.forgotten[u]
    BY <1>1 DEF WireFits
  <1>3. tally \in [Urls -> Nat] /\ tally[u] = n /\ \A v \in Urls \ {u} : tally[v] = s.started[v]
    BY <1>1 DEF States
  <1>4. n = s.started[u] + 1 /\ ClaimSeq(s, u) = z
    BY DEF ClaimSeq
  <1> HIDE DEF n, q, tally
  <1>5. w \in Wires /\ w.seq = q /\ w.ok = s.wire[u].ok /\ w.okSeq = s.wire[u].okSeq
    BY <1>1 DEF Wires
  <1> HIDE DEF w
  <1>6. /\ t \in States /\ t.hook = s.hook /\ t.net = s.net /\ t.forgotten = s.forgotten
        /\ t.wire[u] = w /\ \A v \in Urls \ {u} : t.wire[v] = s.wire[v]
    BY <1>5, SetWireFields
  <1> HIDE DEF t
  <1>7. /\ z \in States /\ z.hook = s.hook /\ z.net = s.net /\ z.started = tally
        /\ z.forgotten = s.forgotten /\ z.wire = t.wire
    BY <1>3, <1>6 DEF States
  <1> HIDE DEF z
  <1>8. WireFits(z, u)
    BY <1>1, <1>2, <1>3, <1>5, <1>6, <1>7 DEF WireFits
  <1>9. \A v \in Urls \ {u} : WireFits(z, v)
    BY <1>3, <1>6, <1>7 DEF NumbersCount, WiresFit, WireFits
  <1>10. NumbersFit(z)
    <2> SUFFICES ASSUME NEW r \in s.net PROVE NumberFits(z, r)
      BY <1>7 DEF NumbersFit
    <2>1. NumberFits(s, r) /\ r.url \in Urls /\ r.n \in Nat
      BY DEF NumbersCount, NumbersFit, States, Requests
    <2>2. CASE r.url = u
      BY <1>1, <1>3, <1>4, <1>7, <2>1, <2>2 DEF NumberFits
    <2>3. CASE r.url # u
      BY <1>3, <1>7, <2>1, <2>3 DEF NumberFits
    <2> QED
      BY <2>2, <2>3
  <1> QED
    BY <1>3, <1>4, <1>7, <1>8, <1>9, <1>10 DEF NumbersCount, WiresFit

\* A request is numbered as its url counts, or not at all.
LEMMA RequestFields ==
  ASSUME NEW s \in States, NEW h \in Sites, NumbersCount(s), s.hook[h].url \in Urls
  PROVE  LET r == Request(s, h)
             u == s.hook[h].url
         IN  /\ r \in Requests
             /\ r.hook = h /\ r.url = u /\ r.gen = s.hook[h].gen
             /\ IF Adopting(s, u)
                THEN r.n = s.started[u] + 1 /\ r.seq = r.n - s.forgotten[u]
                ELSE r.n = 0
  <1> DEFINE k == s.hook[h]
             q == IF Adopting(s, k.url) THEN s.wire[k.url].seq + 1 ELSE 0
             n == IF Adopting(s, k.url) THEN s.started[k.url] + 1 ELSE 0
  <1>1. k \in Hooks /\ k.gen \in Nat
    BY DEF States, Hooks
  <1>2. /\ WireFits(s, k.url) /\ s.wire[k.url].seq \in Nat
        /\ s.started[k.url] \in Nat /\ s.forgotten[k.url] \in Nat
    BY DEF NumbersCount, WiresFit, States, Wires
  <1>3. /\ q \in Nat /\ n \in Nat
        /\ IF Adopting(s, k.url)
           THEN n = s.started[k.url] + 1 /\ q = n - s.forgotten[k.url]
           ELSE n = 0
    BY <1>2 DEF WireFits
  <1>4. Request(s, h) = [hook |-> h, url |-> k.url, gen |-> k.gen, seq |-> q, n |-> n]
    BY DEF Request
  <1> HIDE DEF q, n
  <1> QED
    BY <1>1, <1>3, <1>4 DEF Requests

-----------------------------------------------------------------------------
(* What load() leaves, whoever calls it.                                   *)

\* Nothing of another call site is touched, and none of its requests end.
OthersKeep(s, t, h) ==
    \A g \in Sites \ {h} :
        t.hook[g] = s.hook[g] /\ \A r \in s.net : r.hook = g => r \in t.net

LEMMA OthersRetry ==
  ASSUME NEW s \in States, NEW t \in States, NEW h \in Sites, OthersKeep(s, t, h),
         \A g \in Sites \ {h} : RetryFits(s, g)
  PROVE  \A g \in Sites \ {h} : RetryFits(t, g)
  <1> SUFFICES ASSUME NEW g \in Sites \ {h}
               PROVE  RetryFits(t, g)
    OBVIOUS
  <1>1. t.hook[g] = s.hook[g] /\ \A r \in s.net : r.hook = g => r \in t.net
    BY DEF OthersKeep
  <1> QED
    BY <1>1 DEF RetryFits

\* A handler that changes one hook and none of what others rely on.
LEMMA HookStep ==
  ASSUME page \in Pages, NEW s \in States, Fits(s),
         NEW h \in Sites, NEW k \in Hooks, HookFits(h, k),
         k.gen = s.hook[h].gen, k.held = s.hook[h].held, k.alive = s.hook[h].alive
  PROVE  LET t == SetHook(s, h, k)
         IN  /\ t \in States /\ Fits(t) /\ OthersKeep(s, t, h)
             /\ t.hook[h] = k /\ t.net = s.net
  <1> DEFINE t == SetHook(s, h, k)
  <1>1. /\ t \in States /\ t.net = s.net /\ t.wire = s.wire
        /\ t.started = s.started /\ t.forgotten = s.forgotten
        /\ t.hook[h] = k /\ \A g \in Sites \ {h} : t.hook[g] = s.hook[g]
    BY SetHookFields
  <1> HIDE DEF t
  <1>2. HooksFit(t)
    BY <1>1 DEF Fits, HooksFit
  <1>6. NetFits(t)
    <2> SUFFICES ASSUME NEW r \in s.net
                 PROVE  RequestFits(r, t.hook[r.hook])
      BY <1>1 DEF NetFits
    <2>1. r.hook \in Sites /\ RequestFits(r, s.hook[r.hook])
      BY DEF States, Requests, Fits, NetFits
    <2>2. CASE r.hook = h
      BY <1>1, <2>1, <2>2 DEF RequestFits, Live
    <2>3. CASE r.hook # h
      BY <1>1, <2>1, <2>3
    <2> QED
      BY <2>2, <2>3
  <1>7. NumbersCount(t)
    BY <1>1, SameCount DEF Fits
  <1> QED
    BY <1>1, <1>2, <1>6, <1>7 DEF Fits, OthersKeep, t

LEMMA SendFits ==
  ASSUME page \in Pages, NEW s \in States, Fits(s), NEW h \in Sites,
         s.hook[h].url = s.hook[h].held, s.hook[h].url # NoUrl
  PROVE  LET t == Send(s, h)
         IN  /\ t \in States /\ Fits(t) /\ OthersKeep(s, t, h)
             /\ t.hook = s.hook /\ Request(s, h) \in t.net
             /\ Request(s, h).hook = h /\ Request(s, h).gen = s.hook[h].gen
  <1> DEFINE k == s.hook[h]
             u == k.url
             r == Request(s, h)
             m == IF Adopting(s, u) THEN ClaimSeq(s, u) ELSE s
             net1 == s.net \union {r}
             t == [m EXCEPT !.net = net1]
  <1>1. u \in Urls /\ NumbersCount(s)
    BY DEF States, Hooks, MaybeUrl, Fits
  <1>2. /\ r \in Requests /\ r.hook = h /\ r.url = u /\ r.gen = k.gen
        /\ IF Adopting(s, u)
           THEN r.n = s.started[u] + 1 /\ r.seq = r.n - s.forgotten[u]
           ELSE r.n = 0
    BY <1>1, RequestFields
  <1>3. /\ m \in States /\ m.hook = s.hook /\ m.net = s.net /\ NumbersCount(m)
        /\ r.n <= m.started[u] /\ (r.n > m.forgotten[u] => r.seq = r.n - m.forgotten[u])
    <2>1. s.started[u] \in Nat /\ s.forgotten[u] \in Nat
      BY <1>1 DEF States
    <2>2. CASE Adopting(s, u)
      <3>1. /\ m \in States /\ m.hook = s.hook /\ m.net = s.net /\ NumbersCount(m)
            /\ m.started[u] = s.started[u] + 1 /\ m.forgotten = s.forgotten
        BY <1>1, <2>2, ClaimFits
      <3> HIDE DEF m, r
      <3> QED
        BY <1>2, <2>1, <2>2, <3>1
    <2>3. CASE ~Adopting(s, u)
      BY <1>1, <1>2, <2>1, <2>3
    <2> QED
      BY <2>2, <2>3
  <1>4. net1 \in SUBSET Requests
    BY <1>2 DEF States
  <1>5. Send(s, h) = t
    BY DEF Send
  <1> HIDE DEF r, m, net1
  <1>6. /\ t \in States /\ t.hook = s.hook /\ t.net = net1
        /\ t.wire = m.wire /\ t.started = m.started /\ t.forgotten = m.forgotten
    BY <1>3, <1>4 DEF States
  <1> HIDE DEF t
  <1>7. WiresFit(t)
    BY <1>3, <1>6 DEF NumbersCount, WiresFit, WireFits
  <1>8. k.gen \in Nat
    BY DEF States, Hooks
  <1>9. RequestFits(r, t.hook[r.hook]) /\ NumberFits(t, r)
    BY <1>2, <1>3, <1>6, <1>8 DEF RequestFits, NumberFits
  <1>10. NetFits(t) /\ NumbersFit(t)
    <2> SUFFICES ASSUME NEW q \in net1
                 PROVE  RequestFits(q, t.hook[q.hook]) /\ NumberFits(t, q)
      BY <1>6 DEF NetFits, NumbersFit
    <2>1. CASE q = r
      BY <1>9, <2>1
    <2>2. CASE q \in s.net
      BY <1>3, <1>6, <2>2 DEF Fits, NetFits, NumbersCount, NumbersFit, NumberFits
    <2> QED
      BY <2>1, <2>2 DEF net1
  <1>11. Fits(t)
    BY <1>6, <1>7, <1>10 DEF Fits, HooksFit, NumbersCount
  <1>12. OthersKeep(s, t, h)
    BY <1>6 DEF OthersKeep, net1
  <1>13. r \in t.net
    BY <1>6 DEF net1
  <1> QED
    BY <1>2, <1>5, <1>6, <1>11, <1>12, <1>13 DEF r

LEMMA AdoptFits ==
  ASSUME page \in Pages, NEW s \in States, Fits(s), NEW h \in Sites,
         s.hook[h].url = s.hook[h].held, s.hook[h].url # NoUrl
  PROVE  LET t == Adopt(s, h)
         IN t \in States /\ Fits(t) /\ OthersKeep(s, t, h) /\ ~t.hook[h].retrying
  <1> DEFINE k == s.hook[h]
             d == [url |-> k.url, n |-> s.wire[k.url].ok]
             j == Taken(k, d)
  <1>1. k \in Hooks /\ k.url \in Urls
    BY DEF States, Hooks, MaybeUrl
  <1>2. d \in Payloads /\ d.url = k.held
    BY <1>1 DEF States, Wires, Payloads, MaybeUrl
  <1>3. Adopt(s, h) = SetHook(s, h, j)
    BY DEF Adopt
  <1> HIDE DEF d
  <1>4. /\ j \in Hooks
        /\ j.alive = k.alive /\ j.url = k.url /\ j.held = k.held /\ j.gen = k.gen
        /\ j.timer = k.timer /\ j.waiting = k.waiting
        /\ j.data = d /\ ~j.error /\ ~j.retrying
    BY <1>1, <1>2, TakenFields
  <1>5. HookFits(h, j)
    BY <1>2, <1>4 DEF Fits, HooksFit, HookFits
  <1> HIDE DEF j
  <1> QED
    BY <1>3, <1>4, <1>5, HookStep

LEMMA AwaitFits ==
  ASSUME page \in Pages, NEW s \in States, Fits(s), NEW h \in Adopters, s.hook[h].alive
  PROVE  LET t == AwaitOther(s, h)
         IN  /\ t \in States /\ Fits(t) /\ OthersKeep(s, t, h)
             /\ t.hook[h].waiting = t.hook[h].gen
  <1> DEFINE k == s.hook[h]
             j == [k EXCEPT !.waiting = k.gen]
  <1>1. h \in Sites /\ k \in Hooks
    BY DEF States
  <1>2. CASE k.waiting # 0
    BY <1>1, <1>2 DEF AwaitOther, Fits, HooksFit, HookFits, OthersKeep
  <1>3. CASE k.waiting = 0
    <2>1. /\ j \in Hooks /\ j.waiting = k.gen
          /\ j.alive = k.alive /\ j.url = k.url /\ j.held = k.held /\ j.gen = k.gen
          /\ j.timer = k.timer /\ j.data = k.data /\ j.error = k.error
          /\ j.retrying = k.retrying
      BY <1>1 DEF Hooks
    <2>2. HookFits(h, j)
      BY <1>1, <2>1 DEF Fits, HooksFit, HookFits
    <2>3. AwaitOther(s, h) = SetHook(s, h, j)
      BY <1>3 DEF AwaitOther
    <2> HIDE DEF j
    <2>4. LET t == SetHook(s, h, j)
          IN t \in States /\ Fits(t) /\ OthersKeep(s, t, h) /\ t.hook[h] = j
      BY <1>1, <2>1, <2>2, HookStep
    <2> QED
      BY <2>1, <2>3, <2>4
  <1> QED
    BY <1>2, <1>3

\* After load() a call site that retries has something on its way.
LEMMA LoadFits ==
  ASSUME page \in Pages, NEW s \in States, Fits(s), NEW h \in Sites, s.hook[h].alive,
         NEW waited \in BOOLEAN
  PROVE  LET t == Load(s, h, waited)
         IN t \in States /\ Fits(t) /\ OthersKeep(s, t, h) /\ RetryFits(t, h)
  <1> DEFINE k == s.hook[h]
             t == Load(s, h, waited)
  <1>1. CASE k.url = NoUrl \/ k.url # k.held
    <2>1. t = s
      BY <1>1 DEF Load
    <2>2. k.retrying => k.held # NoUrl
      BY DEF Fits, HooksFit, HookFits
    <2>3. RetryFits(s, h)
      BY <1>1, <2>2 DEF RetryFits
    <2> QED
      BY <2>1, <2>3 DEF OthersKeep
  <1>2. CASE ~(k.url = NoUrl \/ k.url # k.held)
    <2>1. CASE t = Adopt(s, h)
      <3>1. t \in States /\ Fits(t) /\ OthersKeep(s, t, h) /\ ~t.hook[h].retrying
        BY <1>2, <2>1, AdoptFits
      <3> QED
        BY <3>1 DEF RetryFits
    <2>2. CASE h \in Adopters /\ t = AwaitOther(s, h)
      <3>1. /\ t \in States /\ Fits(t) /\ OthersKeep(s, t, h)
            /\ t.hook[h].waiting = t.hook[h].gen
        BY <2>2, AwaitFits
      <3> QED
        BY <3>1 DEF RetryFits
    <2>3. CASE t = Send(s, h)
      <3>1. /\ t \in States /\ Fits(t) /\ OthersKeep(s, t, h)
            /\ t.hook = s.hook /\ Request(s, h) \in t.net
            /\ Request(s, h).hook = h /\ Request(s, h).gen = s.hook[h].gen
        BY <1>2, <2>3, SendFits
      <3> QED
        BY <3>1 DEF RetryFits, Live
    <2> QED
      BY <1>2, <2>1, <2>2, <2>3 DEF Load
  <1> QED
    BY <1>1, <1>2

-----------------------------------------------------------------------------
(* What each step leaves.                                                  *)

LEMMA OthersKeepTwice ==
  ASSUME NEW s \in States, NEW t \in States, NEW v \in States, NEW h \in Sites,
         OthersKeep(s, t, h), OthersKeep(t, v, h)
  PROVE  OthersKeep(s, v, h)
  BY DEF OthersKeep

\* A handler of one call site is sound when that call site is.
LEMMA StepSound ==
  ASSUME NEW s, Sound(s), NEW t, t \in States, Fits(t), NEW h \in Sites,
         OthersKeep(s, t, h), RetryFits(t, h)
  PROVE  Sound(t)
  <1>1. \A g \in Sites \ {h} : RetryFits(t, g)
    BY OthersRetry DEF Sound, RetriesFit
  <1> QED
    BY <1>1 DEF Sound, RetriesFit

LEMMA SetSound ==
  ASSUME NEW s, Sound(s), Set(s), page' = page
  PROVE  Sound(st)'
  <1>1. s \in States
    BY DEF Sound
  <1>2. s = [hook |-> s.hook, net |-> s.net, wire |-> s.wire, started |-> s.started,
             forgotten |-> s.forgotten]
    BY <1>1 DEF States
  <1>3. st' = s
    BY <1>2 DEF st, Set
  <1>4. (st \in States)'
    BY <1>1, <1>3 DEF States, Hooks, Requests, Wires
  <1>5. HooksFit(st)'
    BY <1>3 DEF Sound, Fits, HooksFit, HookFits
  <1>7. NetFits(st)'
    BY <1>3 DEF Sound, Fits, NetFits, RequestFits, Live
  <1>8. NumbersCount(st)'
    BY <1>3 DEF Sound, Fits, NumbersCount, WiresFit, WireFits, NumbersFit, NumberFits
  <1>9. RetriesFit(st)'
    BY <1>3 DEF Sound, RetriesFit, RetryFits, Due, Live
  <1> QED
    BY <1>4, <1>5, <1>7, <1>8, <1>9 DEF Sound, Fits

LEMMA StepKeeps ==
  ASSUME FeedInv, NEW t, t \in States, Fits(t), NEW h \in Sites,
         OthersKeep(st, t, h), RetryFits(t, h), Set(t), page' = page
  PROVE  Sound(st)'
  <1>1. Sound(t)
    BY StepSound DEF FeedInv
  <1> QED
    BY <1>1, SetSound

LEMMA StFields ==
  ASSUME FeedInv
  PROVE  /\ st \in States /\ Fits(st) /\ RetriesFit(st)
         /\ st.hook = hook /\ st.net = net /\ st.wire = wire
         /\ st.started = started /\ st.forgotten = forgotten
         /\ hook \in [Sites -> Hooks] /\ net \in SUBSET Requests
         /\ wire \in [Urls -> Wires]
         /\ started \in [Urls -> Nat] /\ forgotten \in [Urls -> Nat]
         /\ page \in Pages /\ page \subseteq Sites
  <1>1. st \in States /\ Fits(st) /\ RetriesFit(st) /\ page \in Pages
    BY DEF FeedInv, Sound
  <1> QED
    BY <1>1 DEF st, States

\* What a run of the url effect starts from: its own hook may hold anything
\* that waits for nothing.
ReadyToRun(s, h) ==
    /\ s \in States /\ NetFits(s) /\ NumbersCount(s)
    /\ \A g \in Sites \ {h} : HookFits(g, s.hook[g])
    /\ s.hook[h].waiting = 0

LEMMA ColdFits ==
  ASSUME page \in Pages, NEW h \in page, NEW u \in SiteUrls[h], NEW s, ReadyToRun(s, h)
  PROVE  LET t == SetHook(s, h, Cold(s.hook[h], u))
         IN t \in States /\ Fits(t) /\ OthersKeep(s, t, h) /\ t.hook[h].alive
  <1> DEFINE k == s.hook[h]
             j == Cold(k, u)
             t == SetHook(s, h, j)
  <1>1. page \subseteq Sites /\ h \in Sites /\ u \in MaybeUrl /\ s \in States
    BY DEF MaybeUrl, ReadyToRun
  <1>2. k \in Hooks /\ k.gen \in Nat
    BY <1>1 DEF States, Hooks
  <1>3. /\ j \in Hooks
        /\ j.alive /\ j.url = u /\ j.held = u /\ j.gen = k.gen + 1
        /\ j.waiting = k.waiting /\ j.data = NoData /\ j.timer = NoTimer
        /\ ~j.error /\ ~j.retrying
    BY <1>1, <1>2, ColdFields
  <1>4. HookFits(h, j)
    BY <1>3 DEF HookFits, ReadyToRun
  <1> HIDE DEF j
  <1>5. /\ t \in States /\ t.net = s.net /\ t.wire = s.wire
        /\ t.started = s.started /\ t.forgotten = s.forgotten
        /\ t.hook[h] = j /\ \A g \in Sites \ {h} : t.hook[g] = s.hook[g]
    BY <1>1, <1>3, SetHookFields
  <1> HIDE DEF t
  <1>6. HooksFit(t)
    BY <1>4, <1>5 DEF HooksFit, ReadyToRun
  <1>8. NetFits(t)
    <2> SUFFICES ASSUME NEW r \in s.net
                 PROVE  RequestFits(r, t.hook[r.hook])
      BY <1>5 DEF NetFits
    <2>1. r.hook \in Sites /\ r.gen \in Nat /\ RequestFits(r, s.hook[r.hook])
      BY <1>1 DEF States, Requests, NetFits, ReadyToRun
    <2>2. CASE r.hook = h
      BY <1>2, <1>3, <1>5, <2>1, <2>2 DEF RequestFits, Live
    <2>3. CASE r.hook # h
      BY <1>5, <2>1, <2>3
    <2> QED
      BY <2>2, <2>3
  <1>10. NumbersCount(t)
    BY <1>1, <1>5, SameCount DEF ReadyToRun
  <1>11. OthersKeep(s, t, h)
    BY <1>5 DEF OthersKeep
  <1> QED
    BY <1>3, <1>5, <1>6, <1>8, <1>10, <1>11 DEF Fits, t, j

LEMMA StartRunFits ==
  ASSUME page \in Pages, NEW h \in page, NEW u \in SiteUrls[h], NEW s, ReadyToRun(s, h)
  PROVE  LET t == StartRun(s, h, u)
         IN t \in States /\ Fits(t) /\ OthersKeep(s, t, h) /\ RetryFits(t, h)
  <1> DEFINE m == SetHook(s, h, Cold(s.hook[h], u))
             t == Load(m, h, FALSE)
  <1>1. s \in States /\ h \in Sites
    BY DEF ReadyToRun
  <1>2. m \in States /\ Fits(m) /\ OthersKeep(s, m, h) /\ m.hook[h].alive
    BY ColdFits
  <1>3. StartRun(s, h, u) = t
    BY DEF StartRun
  <1> HIDE DEF m
  <1>4. t \in States /\ Fits(t) /\ OthersKeep(m, t, h) /\ RetryFits(t, h)
    BY <1>1, <1>2, LoadFits
  <1> HIDE DEF t
  <1> QED
    BY <1>1, <1>2, <1>3, <1>4, OthersKeepTwice

LEMMA MountStep ==
  ASSUME FeedInv, NEW h \in Sites, Mount(h)
  PROVE  FeedInv'
  <1>1. /\ h \in page /\ ~hook[h].alive
        /\ page' = page /\ prompts' \in Nat
    BY DEF Mount, Prompt, FeedInv
  <1>2. PICK u \in SiteUrls[h] : Set(StartRun(st, h, u))
    BY DEF Mount
  <1>3. ReadyToRun(st, h)
    <2>1. st.hook[h].waiting = 0
      BY <1>1, StFields DEF Fits, HooksFit, HookFits
    <2> QED
      BY <2>1, StFields DEF ReadyToRun, Fits, HooksFit
  <1> DEFINE t == StartRun(st, h, u)
  <1>4. t \in States /\ Fits(t) /\ OthersKeep(st, t, h) /\ RetryFits(t, h)
    BY <1>1, <1>3, StartRunFits, StFields
  <1> HIDE DEF t
  <1>5. Sound(st)'
    BY <1>1, <1>2, <1>4, StepKeeps DEF t
  <1> QED
    BY <1>1, <1>5, StFields DEF FeedInv

\* The hook an unmounted call site leaves answers nothing.
LEMMA DeadFields ==
  ASSUME NEW k \in Hooks
  PROVE  LET j == Unmounted(k)
         IN  /\ j \in Hooks
             /\ ~j.alive /\ j.gen = k.gen /\ j.data = NoData /\ j.timer = NoTimer
             /\ j.waiting = 0 /\ ~j.error /\ ~j.retrying
  <1>1. NoHook \in Hooks /\ NoHook.data = NoData /\ NoHook.timer = NoTimer
        /\ NoHook.waiting = 0 /\ ~NoHook.error /\ ~NoHook.retrying /\ ~NoHook.alive
    BY SentinelTypes DEF NoHook
  <1>2. k.gen \in Nat
    BY DEF Hooks
  <1> QED
    BY <1>1, <1>2 DEF Unmounted, Hooks

LEMMA UnmountStep ==
  ASSUME FeedInv, NEW h \in Sites, Unmount(h)
  PROVE  FeedInv'
  <1> DEFINE k == Unmounted(hook[h])
             m == SetHook(st, h, k)
             u == hook[h].held
             t == Forget(m, u)
  <1>1. page' = page /\ prompts' \in Nat /\ Set(t)
    BY DEF Unmount, Prompt, FeedInv
  <1>2. hook[h] \in Hooks /\ u \in MaybeUrl
    BY StFields DEF Hooks
  <1>3. /\ k \in Hooks /\ ~k.alive /\ k.gen = hook[h].gen /\ k.data = NoData
        /\ k.timer = NoTimer /\ k.waiting = 0 /\ ~k.error /\ ~k.retrying
    BY <1>2, DeadFields
  <1> HIDE DEF k, u
  <1>4. /\ m \in States /\ m.net = net /\ m.wire = wire
        /\ m.started = started /\ m.forgotten = forgotten
        /\ m.hook[h] = k /\ \A g \in Sites \ {h} : m.hook[g] = hook[g]
    <2>1. /\ m \in States /\ m.net = st.net /\ m.wire = st.wire
          /\ m.started = st.started /\ m.forgotten = st.forgotten
          /\ m.hook[h] = k /\ \A g \in Sites \ {h} : m.hook[g] = st.hook[g]
      BY <1>3, SetHookFields, StFields
    <2> QED
      BY <2>1, StFields
  <1> HIDE DEF m
  <1>5. HooksFit(m)
    BY <1>3, <1>4, StFields DEF Fits, HooksFit, HookFits
  <1>6. NetFits(m)
    <2> SUFFICES ASSUME NEW r \in net
                 PROVE  RequestFits(r, m.hook[r.hook])
      BY <1>4 DEF NetFits
    <2>1. r.hook \in Sites /\ RequestFits(r, hook[r.hook])
      BY StFields DEF Requests, Fits, NetFits
    <2>2. CASE r.hook = h
      BY <1>3, <1>4, <2>1, <2>2 DEF RequestFits, Live
    <2>3. CASE r.hook # h
      BY <1>4, <2>1, <2>3
    <2> QED
      BY <2>2, <2>3
  <1>7. NumbersCount(m)
    BY <1>4, StFields, SameCount DEF Fits
  <1>8. /\ t \in States /\ t.hook = m.hook /\ t.net = net /\ NumbersCount(t)
    BY <1>2, <1>4, <1>7, ForgetFits
  <1> HIDE DEF t
  <1>9. Fits(t)
    BY <1>4, <1>5, <1>6, <1>8 DEF Fits, HooksFit, NetFits
  <1>10. OthersKeep(st, t, h) /\ RetryFits(t, h)
    BY <1>3, <1>4, <1>8, StFields DEF OthersKeep, RetryFits
  <1>11. Sound(st)'
    BY <1>1, <1>8, <1>9, <1>10, StepKeeps
  <1> QED
    BY <1>1, <1>11, StFields DEF FeedInv

\* The gate takes every call site down at once, and every url is forgotten.
LEMMA CloseGateStep ==
  ASSUME FeedInv, CloseGate
  PROVE  FeedInv'
  <1> DEFINE down == [h \in Sites |-> Unmounted(hook[h])]
             wires == [u \in Urls |-> Forgotten(wire[u])]
             t == [hook |-> down, net |-> net, wire |-> wires, started |-> started,
                   forgotten |-> started]
  <1>1. Set(t) /\ page' = page /\ prompts' \in Nat
    BY DEF CloseGate, Prompt, FeedInv, Set
  <1>2. \A h \in Sites :
            /\ down[h] \in Hooks /\ ~down[h].alive /\ down[h].gen = hook[h].gen
            /\ down[h].data = NoData /\ down[h].timer = NoTimer /\ down[h].waiting = 0
            /\ ~down[h].error /\ ~down[h].retrying
    BY StFields, DeadFields
  <1>3. \A u \in Urls : wires[u] \in Wires /\ wires[u].seq = 0 /\ wires[u].ok = 0
    BY StFields, ForgottenFields
  <1>4. down \in [Sites -> Hooks] /\ wires \in [Urls -> Wires]
    BY <1>2, <1>3
  <1> HIDE DEF down, wires
  <1>5. /\ t \in States /\ t.hook = down /\ t.net = net /\ t.wire = wires
        /\ t.started = started /\ t.forgotten = started
    BY <1>4, StFields DEF States
  <1> HIDE DEF t
  <1>6. HooksFit(t) /\ RetriesFit(t)
    BY <1>2, <1>5 DEF HooksFit, HookFits, RetriesFit, RetryFits
  <1>7. NetFits(t)
    <2> SUFFICES ASSUME NEW r \in net
                 PROVE  RequestFits(r, t.hook[r.hook])
      BY <1>5 DEF NetFits
    <2>1. r.hook \in Sites /\ RequestFits(r, hook[r.hook])
      BY StFields DEF Requests, Fits, NetFits
    <2> QED
      BY <1>2, <1>5, <2>1 DEF RequestFits, Live
  <1>8. WiresFit(t)
    BY <1>3, <1>5, StFields DEF WiresFit, WireFits
  <1>9. NumbersFit(t)
    <2> SUFFICES ASSUME NEW r \in net
                 PROVE  NumberFits(t, r)
      BY <1>5 DEF NumbersFit
    <2>1. NumberFits(st, r) /\ r.n \in Nat /\ r.url \in Urls
      BY StFields DEF Fits, NumbersCount, NumbersFit, Requests
    <2>2. started[r.url] \in Nat /\ r.n <= started[r.url]
      BY <2>1, StFields DEF NumberFits
    <2> QED
      BY <1>5, <2>1, <2>2 DEF NumberFits
  <1>10. Sound(t)
    BY <1>5, <1>6, <1>7, <1>8, <1>9 DEF Sound, Fits, NumbersCount
  <1>11. Sound(st)'
    BY <1>1, <1>10, SetSound
  <1> QED
    BY <1>1, <1>11, StFields DEF FeedInv

LEMMA RenderStep ==
  ASSUME FeedInv, NEW h \in Sites, Render(h)
  PROVE  FeedInv'
  <1>1. /\ hook[h].alive /\ hook[h].url = hook[h].held
        /\ page' = page /\ prompts' \in Nat
    BY DEF Render, Prompt, FeedInv
  <1>2. PICK u \in SiteUrls[h] \ {hook[h].url} :
            Set(SetHook(st, h, [hook[h] EXCEPT !.url = u]))
    BY DEF Render
  <1> DEFINE k == [hook[h] EXCEPT !.url = u]
             t == SetHook(st, h, k)
  <1>3. hook[h] \in Hooks /\ u \in MaybeUrl
    BY StFields DEF MaybeUrl
  <1>4. /\ k \in Hooks /\ k.url = u
        /\ k.alive = hook[h].alive /\ k.held = hook[h].held /\ k.gen = hook[h].gen
        /\ k.data = hook[h].data /\ k.timer = hook[h].timer /\ k.waiting = hook[h].waiting
        /\ k.error = hook[h].error /\ k.retrying = hook[h].retrying
    BY <1>3 DEF Hooks
  <1> HIDE DEF k
  <1>5. HookFits(h, k)
    BY <1>4, StFields DEF Fits, HooksFit, HookFits
  <1>6. t \in States /\ Fits(t) /\ OthersKeep(st, t, h) /\ t.hook[h] = k
    BY <1>4, <1>5, HookStep, StFields
  <1>7. RetryFits(t, h)
    BY <1>1, <1>4, <1>6 DEF RetryFits
  <1>8. Set(t)
    BY <1>2 DEF k
  <1> HIDE DEF t
  <1>9. Sound(st)'
    BY <1>1, <1>6, <1>7, <1>8, StepKeeps
  <1> QED
    BY <1>1, <1>9, StFields DEF FeedInv

\* Only a call site that shares nothing ever changes its url.
LEMMA EffectStep ==
  ASSUME FeedInv, NEW h \in Sites, Effect(h)
  PROVE  FeedInv'
  <1> DEFINE k == [hook[h] EXCEPT !.alive = FALSE]
             m == SetHook(st, h, k)
             s == Forget(m, hook[h].held)
             t == StartRun(s, h, hook[h].url)
  <1>1. /\ hook[h].alive /\ hook[h].url # hook[h].held
        /\ page' = page /\ prompts' = prompts /\ Set(t)
    BY DEF Effect
  <1>2. /\ hook[h] \in Hooks /\ hook[h].held \in MaybeUrl /\ HookFits(h, hook[h])
        /\ hook[h].gen \in Nat
    BY StFields DEF Hooks, Fits, HooksFit
  <1>3. h \in page /\ hook[h].url \in SiteUrls[h] /\ hook[h].held \in SiteUrls[h]
    BY <1>1, <1>2 DEF HookFits
  <1>4. h \notin Adopters
    BY <1>1, <1>3, AdoptersAssumption
  <1>5. /\ k \in Hooks /\ ~k.alive /\ k.gen = hook[h].gen /\ k.waiting = hook[h].waiting
    BY <1>2 DEF Hooks
  <1>6. k.waiting = 0
    BY <1>2, <1>4, <1>5 DEF HookFits
  <1> HIDE DEF k
  <1>7. /\ m \in States /\ m.net = net /\ m.wire = wire
        /\ m.started = started /\ m.forgotten = forgotten
        /\ m.hook[h] = k /\ \A g \in Sites \ {h} : m.hook[g] = hook[g]
    <2>1. /\ m \in States /\ m.net = st.net /\ m.wire = st.wire
          /\ m.started = st.started /\ m.forgotten = st.forgotten
          /\ m.hook[h] = k /\ \A g \in Sites \ {h} : m.hook[g] = st.hook[g]
      BY <1>5, SetHookFields, StFields
    <2> QED
      BY <2>1, StFields
  <1> HIDE DEF m
  <1>8. NumbersCount(m)
    BY <1>7, StFields, SameCount DEF Fits
  <1>9. s \in States /\ s.hook = m.hook /\ s.net = net /\ NumbersCount(s)
    BY <1>2, <1>7, <1>8, ForgetFits
  <1> HIDE DEF s
  <1>10. NetFits(s)
    <2> SUFFICES ASSUME NEW r \in net
                 PROVE  RequestFits(r, s.hook[r.hook])
      BY <1>9 DEF NetFits
    <2>1. r.hook \in Sites /\ RequestFits(r, hook[r.hook])
      BY StFields DEF Requests, Fits, NetFits
    <2>2. CASE r.hook = h
      BY <1>5, <1>7, <1>9, <2>1, <2>2 DEF RequestFits, Live
    <2>3. CASE r.hook # h
      BY <1>7, <1>9, <2>1, <2>3
    <2> QED
      BY <2>2, <2>3
  <1>11. \A g \in Sites \ {h} : HookFits(g, s.hook[g])
    BY <1>7, <1>9, StFields DEF Fits, HooksFit
  <1>12. ReadyToRun(s, h)
    BY <1>6, <1>7, <1>9, <1>10, <1>11 DEF ReadyToRun
  <1>13. t \in States /\ Fits(t) /\ OthersKeep(s, t, h) /\ RetryFits(t, h)
    BY <1>3, <1>12, StartRunFits, StFields
  <1> HIDE DEF t
  <1>14. OthersKeep(st, s, h)
    BY <1>7, <1>9, StFields DEF OthersKeep
  <1>15. OthersKeep(st, t, h)
    BY <1>9, <1>13, <1>14, OthersKeepTwice, StFields
  <1>16. Sound(st)'
    BY <1>1, <1>13, <1>15, StepKeeps
  <1> QED
    BY <1>1, <1>16, StFields DEF FeedInv

LEMMA LoadStep ==
  ASSUME FeedInv, NEW h \in Sites, hook[h].alive, Set(Load(st, h, FALSE)),
         page' = page, prompts' \in Nat
  PROVE  FeedInv'
  <1> DEFINE t == Load(st, h, FALSE)
  <1>1. t \in States /\ Fits(t) /\ OthersKeep(st, t, h) /\ RetryFits(t, h)
    BY LoadFits, StFields
  <1> HIDE DEF t
  <1>2. Sound(st)'
    BY <1>1, StepKeeps DEF t
  <1> QED
    BY <1>2, StFields DEF FeedInv

\* A timer whose callback does nothing was not what the retry waited for.
LEMMA FireTimerStep ==
  ASSUME FeedInv, NEW h \in Sites, FireTimer(h)
  PROVE  FeedInv'
  <1> DEFINE k == hook[h]
  <1>1. page' = page /\ prompts' = prompts
    BY DEF FireTimer
  <1>2. /\ k \in Hooks /\ k.timer \in Timers /\ HookFits(h, k) /\ RetryFits(st, h)
        /\ k.orphans \subseteq Timers
    BY StFields DEF Hooks, Fits, HooksFit, RetriesFit
  <1>3. PICK t \in k.orphans \union Running(k) :
            Set(IF k.alive /\ Due(k, t) THEN Load(SetHook(st, h, Fired(k, t)), h, FALSE)
                ELSE SetHook(st, h, Fired(k, t)))
    BY DEF FireTimer
  <1> DEFINE j == Fired(k, t)
             s == SetHook(st, h, j)
             v == Load(s, h, FALSE)
  <1>4. t \in Timers
    BY <1>2, <1>3, RunningType
  <1>5. /\ j \in Hooks
        /\ j.alive = k.alive /\ j.url = k.url /\ j.held = k.held /\ j.gen = k.gen
        /\ j.waiting = k.waiting /\ j.data = k.data /\ j.error = k.error
        /\ j.retrying = k.retrying /\ j.timer = NoTimer
        /\ j.orphans = (k.orphans \union Running(k)) \ {t}
    BY <1>2, <1>4, FiredFields
  <1> HIDE DEF j
  <1>6. HookFits(h, j)
    BY <1>2, <1>5 DEF HookFits
  <1>7. s \in States /\ Fits(s) /\ OthersKeep(st, s, h) /\ s.hook[h] = j /\ s.net = net
    <2>1. k = st.hook[h] /\ st \in States /\ Fits(st) /\ page \in Pages /\ st.net = net
      BY StFields
    <2> QED
      BY <1>5, <1>6, <2>1, HookStep
  <1>8. CASE k.alive /\ Due(k, t)
    <2>1. Set(v)
      BY <1>3, <1>8 DEF j
    <2>2. v \in States /\ Fits(v) /\ OthersKeep(s, v, h) /\ RetryFits(v, h)
      BY <1>5, <1>7, <1>8, LoadFits, StFields
    <2>3. OthersKeep(st, v, h)
      BY <1>7, <2>2, OthersKeepTwice, StFields
    <2> HIDE DEF v
    <2>4. Sound(st)'
      BY <1>1, <2>1, <2>2, <2>3, StepKeeps
    <2> QED
      BY <1>1, <2>4, StFields DEF FeedInv
  <1>9. CASE ~(k.alive /\ Due(k, t))
    <2>1. Set(s)
      BY <1>3, <1>9 DEF j
    <2>2. RetryFits(s, h)
      <3> SUFFICES ASSUME k.alive, k.url = k.held, k.retrying
                   PROVE  \/ \E o \in j.orphans : Due(j, o)
                          \/ \E r \in s.net : r.hook = h /\ Live(j, r.gen)
                          \/ j.waiting = j.gen
        BY <1>5, <1>7 DEF RetryFits
      <3>1. \/ k.timer # NoTimer
            \/ \E o \in k.orphans : Due(k, o)
            \/ \E r \in net : r.hook = h /\ Live(k, r.gen)
            \/ k.waiting = k.gen
        BY <1>2, StFields DEF RetryFits
      <3>2. \A o \in Timers : Due(j, o) <=> Due(k, o)
        BY <1>5 DEF Due
      <3>3. CASE k.timer # NoTimer
        <4>1. k.timer \in Running(k) /\ Due(k, k.timer)
          BY <1>2, <3>3 DEF Running, HookFits, Due
        <4>2. k.timer # t
          BY <1>9, <4>1
        <4> QED
          BY <1>2, <1>5, <3>2, <4>1, <4>2
      <3>4. CASE \E o \in k.orphans : Due(k, o)
        <4>1. PICK o \in k.orphans : Due(k, o)
          BY <3>4
        <4>2. o # t /\ o \in Timers
          BY <1>2, <1>9, <4>1
        <4> QED
          BY <1>5, <3>2, <4>1, <4>2
      <3>5. CASE \E r \in net : r.hook = h /\ Live(k, r.gen)
        BY <1>5, <1>7, <3>5 DEF Live
      <3>6. CASE k.waiting = k.gen
        BY <1>5, <3>6
      <3> QED
        BY <3>1, <3>3, <3>4, <3>5, <3>6
    <2> HIDE DEF s
    <2>3. Sound(st)'
      BY <1>1, <1>7, <2>1, <2>2, StepKeeps
    <2> QED
      BY <1>1, <2>3, StFields DEF FeedInv
  <1> QED
    BY <1>8, <1>9

LEMMA EndWaitStep ==
  ASSUME FeedInv, NEW h \in Sites, EndWait(h)
  PROVE  FeedInv'
  <1> DEFINE k == hook[h]
             j == [k EXCEPT !.waiting = 0]
             s == SetHook(st, h, j)
             v == Load(s, h, TRUE)
  <1>1. k.waiting # 0 /\ page' = page /\ prompts' = prompts
    BY DEF EndWait
  <1>2. k \in Hooks /\ HookFits(h, k)
    BY StFields DEF Fits, HooksFit
  <1>3. k.alive /\ k.waiting = k.gen
    BY <1>1, <1>2 DEF HookFits
  <1>4. Set(v)
    BY <1>3 DEF EndWait, Live
  <1>5. /\ j \in Hooks /\ j.waiting = 0
        /\ j.alive = k.alive /\ j.url = k.url /\ j.held = k.held /\ j.gen = k.gen
        /\ j.data = k.data /\ j.error = k.error /\ j.retrying = k.retrying
        /\ j.timer = k.timer
    BY <1>2 DEF Hooks
  <1> HIDE DEF j
  <1>6. HookFits(h, j)
    BY <1>2, <1>5 DEF HookFits
  <1>7. s \in States /\ Fits(s) /\ OthersKeep(st, s, h) /\ s.hook[h] = j
    <2>1. k = st.hook[h] /\ st \in States /\ Fits(st) /\ page \in Pages
      BY StFields
    <2> QED
      BY <1>5, <1>6, <2>1, HookStep
  <1> HIDE DEF s
  <1>8. v \in States /\ Fits(v) /\ OthersKeep(s, v, h) /\ RetryFits(v, h)
    BY <1>3, <1>5, <1>7, LoadFits, StFields
  <1>9. OthersKeep(st, v, h)
    BY <1>7, <1>8, OthersKeepTwice, StFields
  <1> HIDE DEF v
  <1>10. Sound(st)'
    BY <1>1, <1>4, <1>8, <1>9, StepKeeps
  <1> QED
    BY <1>1, <1>10, StFields DEF FeedInv

LEMMA AgeOutStep ==
  ASSUME FeedInv, NEW u \in Urls, AgeOut(u)
  PROVE  FeedInv'
  <1> DEFINE w == [wire[u] EXCEPT !.fresh = FALSE]
             t == SetWire(st, u, w)
  <1>1. Set(t) /\ page' = page /\ prompts' = prompts
    BY DEF AgeOut
  <1>2. wire[u] \in Wires
    BY StFields
  <1>3. w \in Wires /\ w.seq = wire[u].seq /\ w.ok = wire[u].ok /\ w.okSeq = wire[u].okSeq
    BY <1>2 DEF Wires
  <1> HIDE DEF w
  <1>4. /\ t \in States /\ t.hook = st.hook /\ t.net = st.net
        /\ t.started = st.started /\ t.forgotten = st.forgotten
        /\ t.wire[u] = w /\ \A v \in Urls \ {u} : t.wire[v] = st.wire[v]
    BY <1>3, SetWireFields, StFields
  <1> HIDE DEF t
  <1>5. WiresFit(t)
    BY <1>3, <1>4, StFields DEF Fits, NumbersCount, WiresFit, WireFits
  <1>6. NumbersCount(t)
    BY <1>4, <1>5, StFields DEF Fits, NumbersCount, NumbersFit, NumberFits
  <1>7. Sound(t)
    BY <1>4, <1>6, StFields DEF Sound, Fits, HooksFit, NetFits, RetriesFit, RetryFits
  <1>8. Sound(st)'
    BY <1>1, <1>7, SetSound
  <1> QED
    BY <1>1, <1>8, StFields DEF FeedInv

\* What an answer does to the hook it still belongs to.
LEMMA HookAfterFits ==
  ASSUME NEW h \in Sites, NEW k \in Hooks, HookFits(h, k), NEW r \in Requests,
         r.hook = h, r.url = k.held, NEW how \in Outcomes
  PROVE  LET j == HookAfter(k, r, how)
         IN  /\ j \in Hooks /\ HookFits(h, j)
             /\ j.alive = k.alive /\ j.held = k.held /\ j.gen = k.gen
             /\ j.retrying => j.timer # NoTimer
  <1>1. k.held \in Urls /\ k.held # NoUrl
    BY DEF Requests
  <1>2. CASE how = "ok"
    <2> DEFINE d == [url |-> r.url, n |-> r.n]
               j == Taken(k, d)
    <2>1. d \in Payloads /\ d.url = k.held
      BY DEF Requests, Payloads, MaybeUrl
    <2>2. HookAfter(k, r, how) = j
      BY <1>2 DEF HookAfter
    <2> HIDE DEF d
    <2>3. /\ j \in Hooks
          /\ j.alive = k.alive /\ j.url = k.url /\ j.held = k.held /\ j.gen = k.gen
          /\ j.timer = k.timer /\ j.waiting = k.waiting
          /\ j.data = d /\ ~j.error /\ ~j.retrying
      BY <2>1, TakenFields
    <2> HIDE DEF j
    <2> QED
      BY <2>1, <2>2, <2>3 DEF HookFits
  <1>3. CASE how = "locked"
    <2>1. HookAfter(k, r, how) = Locked(k)
      BY <1>3 DEF HookAfter
    <2> QED
      BY <2>1, LockedFields DEF HookFits
  <1>4. CASE how \in {"transient", "final"}
    <2>1. PICK b \in BOOLEAN : HookAfter(k, r, how) = Failed(k, h, b)
      BY <1>4 DEF HookAfter
    <2> DEFINE j == Failed(k, h, b)
    <2>2. /\ j \in Hooks
          /\ j.alive = k.alive /\ j.url = k.url /\ j.held = k.held /\ j.gen = k.gen
          /\ j.waiting = k.waiting /\ j.data = k.data
          /\ j.timer = k.timer \/ (j.timer # NoTimer /\ j.timer.gen = k.gen)
          /\ j.retrying => j.timer # NoTimer
      BY <1>1, FailedFields
    <2> HIDE DEF j
    <2>3. HookFits(h, j)
      BY <1>1, <2>2 DEF HookFits
    <2> QED
      BY <2>1, <2>2, <2>3 DEF j
  <1> QED
    BY <1>2, <1>3, <1>4 DEF Outcomes

LEMMA AnswerStep ==
  ASSUME FeedInv, NEW r \in net, Answer(r)
  PROVE  FeedInv'
  <1>1. page' = page /\ prompts' = prompts
    BY DEF Answer
  <1>2. PICK how \in Outcomes : Set(Settle(st, r, how))
    BY DEF Answer
  <1> DEFINE h == r.hook
             k == hook[h]
             p == IF how = "ok" THEN PublishOk(st, r) ELSE st
             t == Answered(p, r)
             j == HookAfter(k, r, how)
             v == SetHook(t, h, j)
  <1>3. r \in Requests /\ h \in Sites /\ k \in Hooks /\ RequestFits(r, k) /\ HookFits(h, k)
    BY StFields DEF Requests, Fits, NetFits, HooksFit
  <1>4. p \in States /\ p.hook = hook /\ p.net = net /\ NumbersCount(p)
    <2>1. NumbersCount(st) /\ r \in st.net
      BY StFields DEF Fits
    <2>2. CASE how = "ok"
      <3>1. /\ PublishOk(st, r) \in States /\ PublishOk(st, r).hook = st.hook
            /\ PublishOk(st, r).net = st.net /\ NumbersCount(PublishOk(st, r))
        BY <1>3, <2>1, PublishFits, StFields
      <3> QED
        BY <2>2, <3>1, StFields
    <2>3. CASE how # "ok"
      BY <2>3, StFields DEF Fits
    <2> QED
      BY <2>2, <2>3
  <1>5. Settle(st, r, how) = IF Live(k, r.gen) THEN v ELSE t
    BY StFields DEF Settle
  <1> HIDE DEF p
  <1>6. t \in States /\ t.hook = hook /\ t.net = net \ {r} /\ NumbersCount(t)
    BY <1>3, <1>4, AnsweredFits
  <1> HIDE DEF t
  <1>7. Fits(t)
    BY <1>6, StFields DEF Fits, HooksFit, NetFits
  <1>8. OthersKeep(st, t, h)
    BY <1>6, StFields DEF OthersKeep
  <1>9. CASE ~Live(k, r.gen)
    <2>1. RetryFits(t, h)
      <3>1. RetryFits(st, h)
        BY <1>3, StFields DEF RetriesFit
      <3> QED
        BY <1>6, <1>9, <3>1, StFields DEF RetryFits
    <2>2. Set(t)
      BY <1>2, <1>5, <1>9
    <2>3. Sound(st)'
      BY <1>1, <1>3, <1>6, <1>7, <1>8, <2>1, <2>2, StepKeeps
    <2> QED
      BY <1>1, <2>3, StFields DEF FeedInv
  <1>10. CASE Live(k, r.gen)
    <2>1. r.url = k.held
      BY <1>3, <1>10 DEF RequestFits
    <2>2. /\ j \in Hooks /\ HookFits(h, j)
          /\ j.alive = k.alive /\ j.held = k.held /\ j.gen = k.gen
          /\ j.retrying => j.timer # NoTimer
      BY <1>3, <2>1, HookAfterFits
    <2> HIDE DEF j
    <2>3. v \in States /\ Fits(v) /\ OthersKeep(t, v, h) /\ v.hook[h] = j
      <3>1. k = t.hook[h]
        BY <1>6
      <3> QED
        BY <1>3, <1>6, <1>7, <2>2, <3>1, HookStep, StFields
    <2>4. RetryFits(v, h)
      BY <2>2, <2>3 DEF RetryFits
    <2>5. Set(v)
      BY <1>2, <1>5, <1>10
    <2> HIDE DEF v
    <2>6. OthersKeep(st, v, h)
      BY <1>6, <1>8, <2>3, StFields DEF OthersKeep
    <2>7. Sound(st)'
      BY <1>1, <1>3, <2>3, <2>4, <2>5, <2>6, StepKeeps
    <2> QED
      BY <1>1, <2>7, StFields DEF FeedInv
  <1> QED
    BY <1>9, <1>10

LEMMA RetryFailedFeedsStep ==
  ASSUME FeedInv, RetryFailedFeeds
  PROVE  FeedInv'
  <1> DEFINE retried == [h \in Sites |-> IF ShownError(h) THEN Retry(hook[h]) ELSE hook[h]]
             t == [st EXCEPT !.hook = retried]
  <1>1. /\ hook' = retried /\ net' = net /\ wire' = wire
        /\ started' = started /\ forgotten' = forgotten
        /\ page' = page /\ prompts' \in Nat
    BY DEF RetryFailedFeeds, Prompt, FeedInv
  <1>2. ASSUME NEW h \in Sites
        PROVE  /\ retried[h] \in Hooks /\ HookFits(h, retried[h])
               /\ retried[h].alive = hook[h].alive /\ retried[h].held = hook[h].held
               /\ retried[h].gen = hook[h].gen
               /\ retried[h] = hook[h] \/ retried[h].timer # NoTimer
    <2>1. hook[h] \in Hooks /\ HookFits(h, hook[h])
      BY StFields DEF Fits, HooksFit
    <2>2. CASE ShownError(h)
      <3> DEFINE j == Retry(hook[h])
      <3>1. /\ j \in Hooks
            /\ j.alive = hook[h].alive /\ j.url = hook[h].url /\ j.held = hook[h].held
            /\ j.gen = hook[h].gen /\ j.waiting = hook[h].waiting /\ j.data = hook[h].data
            /\ j.error = hook[h].error
            /\ j.timer # NoTimer /\ j.timer.gen = hook[h].gen
        BY <2>1, RetryFields
      <3>2. hook[h].error
        BY <2>2 DEF ShownError
      <3> HIDE DEF j
      <3>3. HookFits(h, j)
        BY <2>1, <3>1, <3>2 DEF HookFits
      <3> QED
        BY <2>2, <3>1, <3>3 DEF j
    <2>3. CASE ~ShownError(h)
      BY <2>1, <2>3
    <2> QED
      BY <2>2, <2>3
  <1>3. retried \in [Sites -> Hooks]
    BY <1>2
  <1> HIDE DEF retried
  <1>4. /\ t \in States /\ t.hook = retried /\ t.net = net /\ t.wire = wire
        /\ t.started = started /\ t.forgotten = forgotten
    BY <1>3, StFields DEF States
  <1> HIDE DEF t
  <1>5. HooksFit(t)
    BY <1>2, <1>4 DEF HooksFit
  <1>7. NetFits(t)
    <2> SUFFICES ASSUME NEW r \in net
                 PROVE  RequestFits(r, t.hook[r.hook])
      BY <1>4 DEF NetFits
    <2>1. r.hook \in Sites /\ RequestFits(r, hook[r.hook])
      BY StFields DEF Requests, Fits, NetFits
    <2> QED
      BY <1>2, <1>4, <2>1 DEF RequestFits, Live
  <1>9. NumbersCount(t)
    BY <1>4, StFields, SameCount DEF Fits
  <1>10. RetriesFit(t)
    <2> SUFFICES ASSUME NEW h \in Sites
                 PROVE  RetryFits(t, h)
      BY DEF RetriesFit
    <2>1. RetryFits(st, h)
      BY StFields DEF RetriesFit
    <2>2. CASE retried[h] = hook[h]
      BY <1>4, <2>1, <2>2, StFields DEF RetryFits
    <2>3. CASE retried[h].timer # NoTimer
      BY <1>4, <2>3 DEF RetryFits
    <2> QED
      BY <1>2, <2>2, <2>3
  <1>11. Sound(t)
    BY <1>4, <1>5, <1>7, <1>9, <1>10 DEF Sound, Fits
  <1>12. Set(t)
    BY <1>1, <1>4 DEF Set
  <1>13. Sound(st)'
    BY <1>1, <1>11, <1>12, SetSound
  <1> QED
    BY <1>1, <1>13, StFields DEF FeedInv

-----------------------------------------------------------------------------

LEMMA FeedInitially == FInit => FeedInv
  <1> SUFFICES ASSUME FInit
               PROVE  FeedInv
    OBVIOUS
  <1>1. /\ st.hook = hook /\ st.net = net /\ st.wire = wire
        /\ st.started = started /\ st.forgotten = forgotten
    BY DEF st
  <1>2. page \in Pages /\ prompts \in Nat /\ net = {}
        /\ (\A h \in Sites : hook[h] = NoHook)
        /\ (\A u \in Urls : wire[u] = NoWire /\ started[u] = 0 /\ forgotten[u] = 0)
    BY DEF FInit
  <1>3. NoWire \in Wires /\ NoWire.seq = 0 /\ NoWire.ok = 0
    BY DEF NoWire, Wires
  <1>4. /\ NoHook \in Hooks /\ ~NoHook.alive /\ NoHook.data = NoData
        /\ NoHook.timer = NoTimer /\ NoHook.waiting = 0 /\ ~NoHook.error
        /\ ~NoHook.retrying
    BY SentinelTypes DEF NoHook
  <1>5. st \in States
    <2>1. /\ hook \in [Sites -> Hooks] /\ wire \in [Urls -> Wires]
          /\ started \in [Urls -> Nat] /\ forgotten \in [Urls -> Nat]
      BY <1>3, <1>4 DEF FInit
    <2> QED
      BY <1>2, <2>1 DEF st, States
  <1>6. HooksFit(st) /\ RetriesFit(st)
    BY <1>1, <1>2, <1>4 DEF HooksFit, HookFits, RetriesFit, RetryFits
  <1>8. NetFits(st) /\ NumbersCount(st)
    BY <1>1, <1>2, <1>3 DEF NetFits, NumbersCount, WiresFit, WireFits, NumbersFit
  <1> QED
    BY <1>2, <1>5, <1>6, <1>8 DEF FeedInv, Sound, Fits

LEMMA FeedStays == FeedInv /\ [FNext]_fvars => FeedInv'
  <1> SUFFICES ASSUME FeedInv, [FNext]_fvars
               PROVE  FeedInv'
    OBVIOUS
  <1>1. ASSUME NEW r \in net, Answer(r)
        PROVE  FeedInv'
    BY <1>1, AnswerStep
  <1>2. ASSUME NEW h \in Sites, Mount(h)
        PROVE  FeedInv'
    BY <1>2, MountStep
  <1>3. ASSUME NEW h \in Sites, Unmount(h)
        PROVE  FeedInv'
    BY <1>3, UnmountStep
  <1>4. ASSUME NEW h \in Sites, Render(h)
        PROVE  FeedInv'
    BY <1>4, RenderStep
  <1>5. ASSUME NEW h \in Sites, Effect(h)
        PROVE  FeedInv'
    BY <1>5, EffectStep
  <1>6. ASSUME NEW h \in Sites, Poll(h) \/ Refetch(h)
        PROVE  FeedInv'
    <2>1. hook[h].alive /\ Set(Load(st, h, FALSE)) /\ Prompt
      BY <1>6 DEF Poll, Refetch
    <2>2. page' = page /\ prompts' \in Nat
      BY <2>1 DEF Prompt, FeedInv
    <2> QED
      BY <2>1, <2>2, LoadStep
  <1>7. ASSUME NEW h \in Sites, FireTimer(h)
        PROVE  FeedInv'
    BY <1>7, FireTimerStep
  <1>8. ASSUME NEW h \in Sites, EndWait(h)
        PROVE  FeedInv'
    BY <1>8, EndWaitStep
  <1>9. ASSUME NEW u \in Urls, AgeOut(u)
        PROVE  FeedInv'
    BY <1>9, AgeOutStep
  <1>10. CASE RetryFailedFeeds
    BY <1>10, RetryFailedFeedsStep
  <1>11. CASE CloseGate
    BY <1>11, CloseGateStep
  <1>12. CASE UNCHANGED fvars
    <2>1. Set(st) /\ page' = page /\ prompts' = prompts
      BY <1>12, StFields DEF fvars, Set
    <2>2. Sound(st)'
      BY <2>1, SetSound DEF FeedInv
    <2> QED
      BY <2>1, <2>2, StFields DEF FeedInv
  <1> QED
    BY <1>1, <1>2, <1>3, <1>4, <1>5, <1>6, <1>7, <1>8, <1>9, <1>10, <1>11, <1>12 DEF FNext

LEMMA FeedInvIsTrue == FeedInv => FeedIsTrue
  <1> SUFFICES ASSUME FeedInv
               PROVE  FeedIsTrue
    OBVIOUS
  <1>1. FTypeOK
    BY StFields DEF FTypeOK, FeedInv
  <1>2. ShownBelongsToUrl
    BY StFields DEF ShownBelongsToUrl, Shown, Fits, HooksFit, HookFits
  <1>3. AdoptedIsNewest
    <2> SUFFICES ASSUME NEW u \in Urls, Adoptable(wire[u]), ~(wire[u].ok <= forgotten[u])
                 PROVE  wire[u].ok = started[u]
      BY DEF AdoptedIsNewest
    <2>1. /\ wire[u].okSeq = wire[u].seq /\ wire[u].ok \in Nat
          /\ forgotten[u] \in Nat /\ started[u] \in Nat
      BY StFields DEF Adoptable, Wires
    <2>2. /\ wire[u].seq = started[u] - forgotten[u]
          /\ wire[u].ok > forgotten[u] => wire[u].okSeq = wire[u].ok - forgotten[u]
      BY StFields DEF Fits, NumbersCount, WiresFit, WireFits
    <2> QED
      BY <2>1, <2>2
  <1>4. RetryingIsTrue
    BY StFields DEF RetryingIsTrue, RetriesFit, RetryFits
  <1> QED
    BY <1>1, <1>2, <1>3, <1>4 DEF FeedIsTrue

\* The feeds stay as FeedInv says, whatever is mounted, answered, retried,
\* aborted or left (useApi of ui/src/lib/api.js).
THEOREM FeedsInductive == FSpec => []FeedInv
  <1>1. FInit => FeedInv
    BY FeedInitially
  <1>2. FeedInv /\ [FNext]_fvars => FeedInv'
    BY FeedStays
  <1> QED
    BY <1>1, <1>2, PTL DEF FSpec

\* A call site is handed answers for the url it wants now, takes none from another
\* but the newest since the url's numbering began, or one older than that, and
\* says "trying again" only while something is on its way (api.js 303-342,
\* 382-401, 510-532).
THEOREM FeedsAlwaysTrue == FSpec => []FeedIsTrue
  <1>1. FeedInv => FeedIsTrue
    BY FeedInvIsTrue
  <1> QED
    BY <1>1, FeedsInductive, PTL

-----------------------------------------------------------------------------
(* The vault gate, the header and Settings.                                *)

ReadKinds == {"gate", "chip", "sheetStatus", "verdict", "sheetTarget", "rows"}
ReadsOf(kind) == [kind : {kind}, newest : BOOLEAN, ans : {<<>>} \union {<<a>> : a \in Answers(kind)}]
GateReads == UNION {ReadsOf(kind) : kind \in ReadKinds}
Servers == [vault : VaultStates, has : SUBSET Tenants, active : MaybeTenant, away : BOOLEAN,
            grants : SUBSET Targets]
GateViews == [vault : VaultStates \union {"unknown"}, err : BOOLEAN, first : BOOLEAN,
              busy : BOOLEAN, setup : BOOLEAN]
Chips == [mounted : BOOLEAN, status : Statuses, locked : BOOLEAN, verdict : Verdicts,
          rows : MaybeTenant, switching : BOOLEAN]
Sheets == [open : BOOLEAN, status : Statuses, target : Verdicts,
           busy : {"no", "switch", "grant", "lock"}, err : BOOLEAN]
Posts == [op : Ops \union {"none"}, arg : MaybeTenant, served : BOOLEAN, ok : BOOLEAN]
Tolds == [verdict : BOOLEAN, rows : BOOLEAN]

\* What may be in the air: without the dashboard only the gate asks.
KindsShown == IF chip.mounted THEN {"gate"} \union ChipKinds \union SheetKinds ELSE {"gate"}
AirFits == \A r \in air : r \in GateReads /\ r.kind \in KindsShown

\* Without the dashboard the chip holds nothing.
ChipFits == ~chip.mounted => chip.verdict = NoVerdict /\ chip.rows = NoTenant

\* A change that was announced has not been passed by an answer from before it.
VerdictFits ==
    told.verdict =>
        /\ chip.verdict.state = "known" => chip.verdict = VerdictNow
        /\ \A r \in air : r.kind = "verdict" /\ r.newest /\ r.ans # <<>> => r.ans = <<VerdictNow>>
RowsFitGate ==
    told.rows =>
        /\ chip.rows # NoTenant => chip.rows = srv.active
        /\ \A r \in air : r.kind = "rows" /\ r.ans # <<>> => r.ans = <<"503">> \/ r.ans = <<srv.active>>

GateInv == GTypeOK /\ AirFits /\ ChipFits /\ VerdictFits /\ RowsFitGate

-----------------------------------------------------------------------------
LEMMA GateTypes ==
  GTypeOK <=> /\ doing \in Doings \union {{}} /\ srv \in Servers /\ gate \in GateViews /\ chip \in Chips
              /\ sheet \in Sheets /\ post \in Posts /\ told \in Tolds
              /\ \A r \in air : r.ans = <<>> \/ r.ans[1] \in Answers(r.kind)
  BY DEF GTypeOK, Servers, GateViews, Chips, Sheets, Posts, Tolds

LEMMA ReadIs ==
  ASSUME NEW r \in GateReads
  PROVE  /\ r.kind \in ReadKinds /\ r.newest \in BOOLEAN
         /\ r.ans = <<>> \/ (r.ans[1] \in Answers(r.kind) /\ r.ans = <<r.ans[1]>>)
         /\ r = [kind |-> r.kind, newest |-> r.newest, ans |-> r.ans]
  <1>1. PICK kind \in ReadKinds : r \in ReadsOf(kind)
    BY DEF GateReads
  <1>2. r.kind = kind /\ r.newest \in BOOLEAN /\ (r.ans = <<>> \/ \E a \in Answers(kind) : r.ans = <<a>>)
    BY <1>1 DEF ReadsOf
  <1>3. r = [kind |-> r.kind, newest |-> r.newest, ans |-> r.ans]
    BY <1>1 DEF ReadsOf
  <1> QED
    BY <1>2, <1>3

\* A read of a kind, unanswered or answered by what its kind is answered with.
LEMMA AReadIs ==
  ASSUME NEW kind \in ReadKinds, NEW newest \in BOOLEAN,
         NEW ans, ans = <<>> \/ \E a \in Answers(kind) : ans = <<a>>
  PROVE  LET r == [kind |-> kind, newest |-> newest, ans |-> ans]
         IN  r \in GateReads /\ r.kind = kind /\ r.newest = newest /\ r.ans = ans
  <1> DEFINE r == [kind |-> kind, newest |-> newest, ans |-> ans]
  <1>1. r \in ReadsOf(kind)
    BY DEF ReadsOf
  <1> QED
    BY <1>1 DEF GateReads

LEMMA NothingShown ==
  /\ NoVerdict \in Verdicts /\ NoVerdict.state # "known" /\ NoStatus \in Statuses /\ NoTenant \in MaybeTenant
  /\ NoChip \in Chips /\ NoChip.verdict = NoVerdict /\ NoChip.rows = NoTenant /\ NoChip.mounted = FALSE
  /\ Closed \in Sheets /\ NoPost \in Posts
  <1>1. /\ NoVerdict \in Verdicts /\ NoVerdict.state # "known" /\ NoStatus \in Statuses
        /\ NoTenant \in MaybeTenant
    <2>1. NoTenant \in MaybeTenant
      BY DEF MaybeTenant
    <2>2. [tenant |-> NoTenant, away |-> FALSE] \in Targets
      BY <2>1 DEF Targets
    <2>3. NoVerdict \in Verdicts /\ NoVerdict.state # "known"
      BY <2>2 DEF NoVerdict, Verdicts
    <2>4. NoStatus \in Statuses
      BY <2>1 DEF NoStatus, Statuses
    <2> QED
      BY <2>1, <2>3, <2>4
  <1>2. NoChip \in Chips /\ NoChip.verdict = NoVerdict /\ NoChip.rows = NoTenant /\ NoChip.mounted = FALSE
    BY <1>1 DEF NoChip, Chips
  <1>3. Closed \in Sheets
    BY <1>1 DEF Closed, Sheets
  <1>4. NoPost \in Posts
    BY <1>1 DEF NoPost, Posts
  <1> QED
    BY <1>1, <1>2, <1>3, <1>4

\* What a read is served fits its kind.
LEMMA AnswerFits ==
  ASSUME GTypeOK, NEW kind \in ReadKinds
  PROVE  AnswerOf(kind) \in Answers(kind)
  <1>1. srv \in Servers
    BY GateTypes
  <1>2. StatusNow \in Statuses
    BY <1>1 DEF StatusNow, Statuses, Servers
  <1>3. VerdictNow \in Verdicts
    <2>1. Target \in Targets /\ (Target \in srv.grants) \in BOOLEAN
      BY <1>1 DEF Target, Targets, Servers
    <2>2. [NoVerdict EXCEPT !.state = "unknown"] \in Verdicts
      BY NothingShown DEF Verdicts
    <2> QED
      BY <2>1, <2>2 DEF VerdictNow, Verdicts
  <1>4. srv.active \in MaybeTenant
    BY <1>1 DEF Servers
  <1>5. CASE kind \in {"gate", "chip", "sheetStatus"}
    BY <1>2, <1>5 DEF AnswerOf, Answers
  <1>6. CASE kind \in {"verdict", "sheetTarget"}
    BY <1>3, <1>6 DEF AnswerOf, Answers
  <1>7. CASE kind = "rows"
    BY <1>4, <1>7 DEF AnswerOf, Answers
  <1> QED
    BY <1>5, <1>6, <1>7 DEF ReadKinds

\* What is in the air once more reads are asked.
LEMMA AskedIs ==
  ASSUME NEW ns, ns \subseteq GateReads, NEW kinds, kinds \subseteq ReadKinds, NEW u \in AskedAll(ns, kinds)
  PROVE  /\ u \in GateReads
         /\ \/ u.kind \in kinds /\ u.ans = <<>>
            \/ \E r \in ns : /\ u.kind = r.kind /\ u.ans = r.ans /\ (u.newest => r.newest)
                             /\ u.kind = "verdict" /\ "verdict" \in kinds => ~u.newest
  <1>1. CASE u \in {[kind |-> k, newest |-> TRUE, ans |-> <<>>] : k \in kinds}
    <2>1. PICK k \in kinds : u = [kind |-> k, newest |-> TRUE, ans |-> <<>>]
      BY <1>1
    <2>2. k \in ReadKinds /\ TRUE \in BOOLEAN /\ <<>> = <<>>
      OBVIOUS
    <2>3. u \in GateReads /\ u.kind = k /\ u.ans = <<>>
      BY <2>1, <2>2, AReadIs
    <2> QED
      BY <2>3
  <1>2. CASE u \in {[r EXCEPT !.newest = @ /\ ~(r.kind = "verdict" /\ "verdict" \in kinds)] : r \in ns}
    <2>1. PICK r \in ns : u = [r EXCEPT !.newest = r.newest /\ ~(r.kind = "verdict" /\ "verdict" \in kinds)]
      BY <1>2
    <2> DEFINE newest == r.newest /\ ~(r.kind = "verdict" /\ "verdict" \in kinds)
    <2>2. /\ r.kind \in ReadKinds /\ r.newest \in BOOLEAN
          /\ r.ans = <<>> \/ \E a \in Answers(r.kind) : r.ans = <<a>>
          /\ r = [kind |-> r.kind, newest |-> r.newest, ans |-> r.ans]
      BY ReadIs
    <2>3. newest \in BOOLEAN /\ (newest => r.newest) /\ (r.kind = "verdict" /\ "verdict" \in kinds => ~newest)
      BY <2>2
    <2> HIDE DEF newest
    <2>4. u = [kind |-> r.kind, newest |-> newest, ans |-> r.ans]
      <3>1. u = [r EXCEPT !.newest = newest]
        BY <2>1 DEF newest
      <3> QED
        BY <2>2, <3>1
    <2>5. u \in GateReads /\ u.kind = r.kind /\ u.newest = newest /\ u.ans = r.ans
      BY <2>2, <2>3, <2>4, AReadIs
    <2> QED
      BY <2>3, <2>5
  <1> QED
    BY <1>1, <1>2 DEF AskedAll
-----------------------------------------------------------------------------
LEMMA ShownKinds ==
  ASSUME GateInv
  PROVE  /\ KindsShown \subseteq ReadKinds /\ SheetAsks \subseteq ReadKinds /\ ChipKinds \subseteq ReadKinds
         /\ SheetAsks \subseteq SheetKinds /\ SheetKinds \subseteq ReadKinds
         /\ air \subseteq GateReads
         /\ doing \in Doings \union {{}} /\ srv \in Servers /\ gate \in GateViews /\ chip \in Chips
         /\ sheet \in Sheets /\ post \in Posts /\ told \in Tolds
  <1>1. ChipKinds \subseteq ReadKinds /\ SheetKinds \subseteq ReadKinds /\ SheetAsks \subseteq SheetKinds
    BY DEF ChipKinds, SheetKinds, SheetAsks, ReadKinds
  <1>2. KindsShown \subseteq ReadKinds
    BY <1>1 DEF KindsShown, ReadKinds
  <1> QED
    BY <1>1, <1>2, GateTypes DEF GateInv, AirFits

\* The server is as it was; what is in the air was, or is not answered yet.
LEMMA GateMoves ==
  ASSUME GateInv, UNCHANGED <<doing, srv>>, gate' \in GateViews, chip' \in Chips, sheet' \in Sheets,
         post' \in Posts, told' \in Tolds,
         told'.verdict => told.verdict, told'.rows => told.rows,
         chip'.verdict = chip.verdict \/ chip'.verdict.state # "known",
         chip'.rows = chip.rows \/ chip'.rows = NoTenant,
         ~chip'.mounted => chip'.verdict = NoVerdict /\ chip'.rows = NoTenant,
         \A u \in air' :
             /\ u \in GateReads /\ u.kind \in KindsShown'
             /\ \/ u.ans = <<>>
                \/ \E r \in air : u.kind = r.kind /\ u.ans = r.ans /\ (u.newest => r.newest)
  PROVE  GateInv'
  <1>1. GTypeOK'
    <2>1. doing' \in Doings \union {{}} /\ srv' \in Servers
      BY ShownKinds
    <2>2. \A r \in air' : r.ans = <<>> \/ r.ans[1] \in Answers(r.kind)
      BY ReadIs
    <2> QED
      BY <2>1, <2>2 DEF GTypeOK, Servers, GateViews, Chips, Sheets, Posts, Tolds
  <1>2. AirFits' /\ ChipFits'
    BY DEF AirFits, ChipFits
  <1>3. VerdictNow' = VerdictNow
    BY DEF VerdictNow, Target
  <1>4. VerdictFits'
    BY <1>3 DEF GateInv, VerdictFits
  <1>5. RowsFitGate'
    BY DEF GateInv, RowsFitGate
  <1> QED
    BY <1>1, <1>2, <1>4, <1>5 DEF GateInv

\* The server changed, which nobody was told of.
LEMMA ServerMoves ==
  ASSUME GateInv, srv' \in Servers, post' \in Posts, told' = [verdict |-> FALSE, rows |-> FALSE],
         UNCHANGED <<doing, gate, chip, sheet, air>>
  PROVE  GateInv'
  <1>1. GTypeOK'
    <2>1. told' \in Tolds
      BY DEF Tolds
    <2> QED
      BY <2>1 DEF GateInv, GTypeOK, Servers, Posts, Tolds
  <1>2. AirFits' /\ ChipFits'
    BY DEF GateInv, AirFits, ChipFits, KindsShown, ChipKinds, SheetKinds
  <1> QED
    BY <1>1, <1>2 DEF GateInv, VerdictFits, RowsFitGate

\* What the server does with a change is a state of it.
LEMMA ResultsFit ==
  ASSUME NEW s \in Servers, NEW op, NEW t \in MaybeTenant, NEW after \in Results(s, op, t)
  PROVE  after \in Servers
  <1>1. \A x \in MaybeTenant : Activated(s, x) \in Servers
    BY DEF Activated, Servers
  <1>2. Without(s, t) \in Servers
    <2> DEFINE left == s.has \ {t}
               grants == {g \in s.grants : g.tenant # t}
               vault == IF left = {} THEN "empty" ELSE s.vault
               s2 == [s EXCEPT !.has = left, !.grants = grants, !.vault = vault]
               next == IF left = {} THEN NoTenant ELSE CHOOSE x \in left : TRUE
    <2>1. left \subseteq Tenants /\ grants \subseteq Targets /\ vault \in VaultStates /\ next \in MaybeTenant
      <3>1. left \subseteq Tenants /\ grants \subseteq Targets
        BY DEF Servers
      <3>2. vault \in VaultStates
        BY DEF Servers, VaultStates
      <3>3. left # {} => (CHOOSE x \in left : TRUE) \in left
        OBVIOUS
      <3>4. next \in MaybeTenant
        BY <3>1, <3>3 DEF MaybeTenant
      <3> QED
        BY <3>1, <3>2, <3>4
    <2>2. Without(s, t) = IF s.active # t THEN s2 ELSE Activated(s2, next)
      BY DEF Without
    <2> HIDE DEF left, grants, vault, next
    <2>3. s2 \in Servers
      BY <2>1 DEF Servers
    <2> HIDE DEF s2
    <2>4. Activated(s2, next) \in Servers
      BY <2>1, <2>3 DEF Activated, Servers
    <2> QED
      BY <2>2, <2>3, <2>4
  <1>3. CASE op = "init" /\ s.vault = "none"
    <2>1. after = [s EXCEPT !.vault = "empty"]
      BY <1>3 DEF Results
    <2> QED
      BY <2>1 DEF Servers, VaultStates
  <1>4. CASE op = "unlock" /\ s.vault = "locked"
    <2> DEFINE v == IF s.has = {} THEN "empty" ELSE "ready"
    <2>1. after = [s EXCEPT !.vault = v] /\ v \in VaultStates
      BY <1>4 DEF Results, VaultStates
    <2> HIDE DEF v
    <2> QED
      BY <2>1 DEF Servers
  <1>5. CASE op = "reset"
    <2> DEFINE none == {}
               off == FALSE
    <2>1. after = [s EXCEPT !.vault = "none", !.has = none, !.active = NoTenant, !.away = off, !.grants = none]
      BY <1>5 DEF Results
    <2>2. none \in SUBSET Tenants /\ none \in SUBSET Targets /\ off \in BOOLEAN
      OBVIOUS
    <2> HIDE DEF none, off
    <2> QED
      BY <2>1, <2>2, NothingShown DEF Servers, VaultStates
  <1>6. CASE op = "add" /\ s.vault = "empty"
    <2>1. PICK x \in Tenants : after = [Activated(s, x) EXCEPT !.vault = "ready", !.has = {x}]
      BY <1>6 DEF Results
    <2>2. Activated(s, x) \in Servers /\ {x} \in SUBSET Tenants
      BY <1>1 DEF MaybeTenant
    <2> QED
      BY <2>1, <2>2 DEF Servers, VaultStates
  <1>7. CASE op = "lock" /\ s.vault \in {"empty", "ready"}
    <2>1. after = [s EXCEPT !.vault = "locked", !.away = FALSE]
      BY <1>7 DEF Results
    <2> QED
      BY <2>1 DEF Servers, VaultStates
  <1>8. CASE op \in {"switch", "activate"} /\ s.vault = "ready" /\ t \in s.has
    <2>1. after = Activated(s, t)
      BY <1>8 DEF Results
    <2> QED
      BY <1>1, <2>1
  <1>9. CASE op = "account" /\ s.vault = "ready"
    <2>1. after = [s EXCEPT !.away = ~s.away]
      BY <1>9 DEF Results
    <2> QED
      BY <2>1 DEF Servers
  <1>10. CASE op \in {"grant", "revoke"} /\ s.vault = "ready"
    <2> DEFINE g == [tenant |-> s.active, away |-> s.away]
    <2>1. g \in Targets
      BY DEF Servers, Targets
    <2>2. after = [s EXCEPT !.grants = s.grants \union {g}] \/ after = [s EXCEPT !.grants = s.grants \ {g}]
      BY <1>10 DEF Results
    <2> HIDE DEF g
    <2> QED
      BY <2>1, <2>2 DEF Servers
  <1>11. CASE op = "remove" /\ s.vault = "ready" /\ t \in s.has
    <2>1. after = Without(s, t)
      BY <1>11 DEF Results
    <2> QED
      BY <1>2, <2>1
  <1> QED
    BY <1>3, <1>4, <1>5, <1>6, <1>7, <1>8, <1>9, <1>10, <1>11 DEF Results
-----------------------------------------------------------------------------
LEMMA KindsThen ==
  ASSUME doing' = doing
  PROVE  KindsShown' = IF chip'.mounted THEN {"gate"} \union ChipKinds \union SheetKinds ELSE {"gate"}
  BY DEF KindsShown, ChipKinds, SheetKinds

\* Reads are asked beside some of those in the air.
LEMMA AirGrows ==
  ASSUME GateInv, NEW ns, ns \subseteq air, NEW kinds, kinds \subseteq ReadKinds,
         NEW K, kinds \subseteq K, \A r \in ns : r.kind \in K
  PROVE  \A u \in AskedAll(ns, kinds) :
             /\ u \in GateReads /\ u.kind \in K
             /\ \/ u.ans = <<>>
                \/ \E r \in air : u.kind = r.kind /\ u.ans = r.ans /\ (u.newest => r.newest)
  <1>1. ns \subseteq GateReads
    BY ShownKinds
  <1> QED
    BY <1>1, AskedIs

LEMMA ShowScreenKeeps ==
  ASSUME GateInv, NEW g \in GateViews, NEW ns, ns \subseteq air, ShowScreen(g, ns),
         UNCHANGED <<doing, srv, told>>, post' \in Posts
  PROVE  GateInv'
  <1>1. gate' = g
    BY DEF ShowScreen
  <1>2. \A r \in ns : r \in GateReads /\ r.kind \in KindsShown
    BY DEF GateInv, AirFits
  <1>3. CASE ScreenOf(g) = "dashboard" /\ chip.mounted
    <2>1. air' = ns /\ UNCHANGED <<chip, sheet>>
      BY <1>3 DEF ShowScreen
    <2>2. KindsShown' = KindsShown
      BY <2>1, KindsThen DEF KindsShown
    <2>3. \A u \in air' : \E r \in air : u.kind = r.kind /\ u.ans = r.ans /\ (u.newest => r.newest)
      BY <2>1
    <2> QED
      BY <1>1, <1>2, <2>1, <2>2, <2>3, ShownKinds, GateMoves DEF GateInv, ChipFits
  <1>4. CASE ScreenOf(g) = "dashboard" /\ ~chip.mounted
    <2>1. /\ air' = AskedAll(ns, ChipKinds \union SheetAsks)
          /\ chip' = [NoChip EXCEPT !.mounted = TRUE] /\ UNCHANGED sheet
      BY <1>4 DEF ShowScreen
    <2>2. chip' \in Chips /\ chip'.mounted /\ chip'.verdict = NoVerdict /\ chip'.rows = NoTenant
      BY <2>1, NothingShown DEF Chips
    <2>3. KindsShown' = {"gate"} \union ChipKinds \union SheetKinds
      BY <2>2, KindsThen
    <2>4. \A r \in ns : r.kind \in KindsShown'
      BY <1>2, <1>4, <2>3 DEF KindsShown
    <2>5. ChipKinds \union SheetAsks \subseteq ReadKinds /\ ChipKinds \union SheetAsks \subseteq KindsShown'
      BY <2>3, ShownKinds
    <2> DEFINE K == {"gate"} \union ChipKinds \union SheetKinds
    <2>6. \A u \in air' :
             /\ u \in GateReads /\ u.kind \in K
             /\ \/ u.ans = <<>>
                \/ \E r \in air : u.kind = r.kind /\ u.ans = r.ans /\ (u.newest => r.newest)
      <3>1. \A r \in ns : r.kind \in K
        BY <2>3, <2>4
      <3>2. ChipKinds \union SheetAsks \subseteq K
        BY <2>3, <2>5
      <3> HIDE DEF K
      <3> QED
        BY <2>1, <2>5, <3>1, <3>2, AirGrows
    <2>7. \A u \in air' :
             /\ u \in GateReads /\ u.kind \in KindsShown'
             /\ \/ u.ans = <<>>
                \/ \E r \in air : u.kind = r.kind /\ u.ans = r.ans /\ (u.newest => r.newest)
      BY <2>3, <2>6
    <2>8. chip'.verdict.state # "known" /\ gate' \in GateViews /\ sheet' \in Sheets /\ told' \in Tolds
      BY <1>1, <2>1, <2>2, NothingShown, ShownKinds
    <2> QED
      BY <2>2, <2>7, <2>8, GateMoves
  <1>5. CASE ScreenOf(g) # "dashboard"
    <2> DEFINE open == sheet.open
    <2>1. /\ air' = {r \in ns : r.kind = "gate"} /\ chip' = NoChip
          /\ sheet' = [Closed EXCEPT !.open = open]
      BY <1>5 DEF ShowScreen
    <2>2. open \in BOOLEAN
      BY ShownKinds DEF Sheets
    <2> HIDE DEF open
    <2>3. sheet' \in Sheets
      BY <2>1, <2>2, NothingShown DEF Sheets
    <2>4. \A u \in air' : /\ u \in GateReads /\ u.kind \in KindsShown'
                          /\ \E r \in air : u.kind = r.kind /\ u.ans = r.ans /\ (u.newest => r.newest)
      <3>1. "gate" \in KindsShown'
        BY DEF KindsShown
      <3> QED
        BY <1>2, <2>1, <3>1
    <2>5. /\ chip' \in Chips /\ chip'.verdict = NoVerdict /\ chip'.verdict.state # "known" /\ chip'.rows = NoTenant
          /\ gate' \in GateViews
      BY <1>1, <2>1, NothingShown
    <2> QED
      BY <2>3, <2>4, <2>5, ShownKinds, GateMoves
  <1> QED
    BY <1>3, <1>4, <1>5

LEMMA GateReadsKeep ==
  ASSUME GateInv, NEW r \in air, GateLands(r) \/ GateFails(r)
  PROVE  GateInv'
  <1>1. UNCHANGED <<doing, srv, told>> /\ post' = post /\ post' \in Posts
    BY ShownKinds DEF GateLands, GateFails
  <1>2. air \ {r} \subseteq air /\ gate \in GateViews
    BY ShownKinds
  <1>3. CASE GateLands(r)
    <2> DEFINE v == r.ans[1].vault
               first == gate.first /\ ~(v = "ready")
               setup == gate.setup \/ (gate.first /\ v = "ready")
               g == [gate EXCEPT !.vault = v, !.err = FALSE, !.busy = FALSE, !.first = first, !.setup = setup]
    <2>1. r.kind = "gate" /\ r.ans # <<>> /\ ShowScreen(g, air \ {r})
      BY <1>3 DEF GateLands
    <2>2. v \in VaultStates \union {"unknown"}
      <3>1. r.ans[1] \in Statuses
        BY <2>1 DEF GateInv, GTypeOK, Answers
      <3> QED
        BY <3>1 DEF Statuses
    <2>3. first \in BOOLEAN /\ setup \in BOOLEAN
      BY <1>2 DEF GateViews
    <2> HIDE DEF v, first, setup
    <2>4. g \in GateViews
      BY <1>2, <2>2, <2>3 DEF GateViews
    <2> HIDE DEF g
    <2> QED
      BY <1>1, <1>2, <2>1, <2>4, ShowScreenKeeps
  <1>4. CASE GateFails(r)
    <2> DEFINE g == [gate EXCEPT !.err = TRUE, !.busy = FALSE]
    <2>1. ShowScreen(g, air \ {r})
      BY <1>4 DEF GateFails
    <2>2. g \in GateViews
      BY <1>2 DEF GateViews
    <2> HIDE DEF g
    <2> QED
      BY <1>1, <1>2, <2>1, <2>2, ShowScreenKeeps
  <1> QED
    BY <1>3, <1>4

\* Reads are asked, land or are dropped; the chip's verdict and rows stay or go.
LEMMA AirMoves ==
  ASSUME GateInv, UNCHANGED <<doing, srv>>, gate' \in GateViews, chip' \in Chips, sheet' \in Sheets,
         post' \in Posts, told' = told, chip'.mounted = chip.mounted,
         chip'.verdict = chip.verdict \/ (chip.mounted /\ chip'.verdict.state # "known"),
         chip'.rows = chip.rows \/ chip'.rows = NoTenant,
         NEW ns, ns \subseteq air, NEW kinds, kinds \subseteq KindsShown,
         air' = ns \/ air' = AskedAll(ns, kinds)
  PROVE  GateInv'
  <1>1. KindsShown' = KindsShown
    BY KindsThen DEF KindsShown
  <1>2. \A r \in ns : r \in GateReads /\ r.kind \in KindsShown
    BY DEF GateInv, AirFits
  <1>3. \A u \in air' :
             /\ u \in GateReads /\ u.kind \in KindsShown
             /\ \/ u.ans = <<>>
                \/ \E r \in air : u.kind = r.kind /\ u.ans = r.ans /\ (u.newest => r.newest)
    <2>1. CASE air' = ns
      BY <1>2, <2>1
    <2>2. CASE air' = AskedAll(ns, kinds)
      <3>1. kinds \subseteq ReadKinds
        BY ShownKinds
      <3> DEFINE K == KindsShown
      <3>2. kinds \subseteq K /\ \A r \in ns : r.kind \in K
        BY <1>2
      <3>3. \A u \in AskedAll(ns, kinds) :
             /\ u \in GateReads /\ u.kind \in K
             /\ \/ u.ans = <<>>
                \/ \E r \in air : u.kind = r.kind /\ u.ans = r.ans /\ (u.newest => r.newest)
        <4>1. ns \subseteq GateReads
          BY <1>2
        <4> QED
          BY <3>1, <3>2, <4>1, AskedIs
      <3> QED
        BY <2>2, <3>3
    <2> QED
      BY <2>1, <2>2
  <1>4. ~chip'.mounted => chip'.verdict = NoVerdict /\ chip'.rows = NoTenant
    BY DEF GateInv, ChipFits
  <1>5. /\ told' \in Tolds /\ (told'.verdict => told.verdict) /\ (told'.rows => told.rows)
        /\ chip'.verdict = chip.verdict \/ chip'.verdict.state # "known"
    BY ShownKinds
  <1>6. \A u \in air' :
             /\ u \in GateReads /\ u.kind \in KindsShown'
             /\ \/ u.ans = <<>>
                \/ \E r \in air : u.kind = r.kind /\ u.ans = r.ans /\ (u.newest => r.newest)
    BY <1>1, <1>3
  <1> QED
    BY <1>4, <1>5, <1>6, GateMoves

LEMMA GateAsksKeep ==
  ASSUME GateInv,
         \/ RetryGate \/ SubmitLands \/ OpenSheet \/ CloseSheet \/ RemoveLands
         \/ \E op \in Ops : SubmitForm(op)
         \/ \E kind \in ChipKinds : PollGate(kind)
  PROVE  GateInv'
  <1>1. "gate" \in KindsShown /\ air \subseteq air /\ {} \subseteq KindsShown
    BY DEF KindsShown
  <1>2. /\ gate \in GateViews /\ chip \in Chips /\ sheet \in Sheets /\ post \in Posts /\ NoPost \in Posts
    BY ShownKinds, NothingShown
  <1>3. CASE RetryGate
    <2>1. air' = AskedAll(air, {"gate"}) /\ UNCHANGED <<doing, srv, gate, chip, sheet, post, told>>
      BY <1>3 DEF RetryGate, Asked
    <2>2. {"gate"} \subseteq KindsShown
      BY <1>1
    <2> QED
      BY <1>1, <1>2, <2>1, <2>2, AirMoves
  <1>4. CASE SubmitLands
    <2> DEFINE first == gate.first \/ (post.ok /\ post.op = "add")
    <2>1. /\ gate' = [gate EXCEPT !.busy = FALSE, !.first = first]
          /\ air' = air \/ air' = AskedAll(air, {"gate"})
          /\ post' = NoPost /\ UNCHANGED <<doing, srv, chip, sheet, told>>
      BY <1>4 DEF SubmitLands, Asked
    <2>2. first \in BOOLEAN
      BY <1>2 DEF GateViews, Posts
    <2> HIDE DEF first
    <2>3. gate' \in GateViews
      BY <1>2, <2>1, <2>2 DEF GateViews
    <2>4. {"gate"} \subseteq KindsShown
      BY <1>1
    <2> QED
      BY <1>1, <1>2, <2>1, <2>3, <2>4, AirMoves
  <1>5. CASE OpenSheet
    <2>1. /\ chip.mounted /\ sheet' = [Closed EXCEPT !.open = TRUE] /\ air' = AskedAll(air, SheetKinds)
          /\ UNCHANGED <<doing, srv, gate, chip, post, told>>
      BY <1>5 DEF OpenSheet
    <2>2. SheetKinds \subseteq KindsShown
      BY <2>1 DEF KindsShown
    <2>3. sheet' \in Sheets
      BY <2>1, NothingShown DEF Sheets
    <2> QED
      BY <1>1, <1>2, <2>1, <2>2, <2>3, AirMoves
  <1>6. CASE CloseSheet
    <2>1. /\ sheet' = Closed /\ air' = {r \in air : r.kind \notin SheetKinds}
          /\ UNCHANGED <<doing, srv, gate, chip, post, told>>
      BY <1>6 DEF CloseSheet
    <2>2. {r \in air : r.kind \notin SheetKinds} \subseteq air
      OBVIOUS
    <2> QED
      BY <1>1, <1>2, <2>1, <2>2, NothingShown, AirMoves
  <1>7. CASE RemoveLands
    <2>1. /\ air' = IF chip.mounted THEN AskedAll(air, SheetAsks) ELSE air
          /\ post' = NoPost /\ UNCHANGED <<doing, srv, gate, chip, sheet, told>>
      BY <1>7 DEF RemoveLands
    <2>2. chip.mounted => SheetAsks \subseteq KindsShown
      BY ShownKinds DEF KindsShown
    <2>3. CASE chip.mounted
      BY <1>1, <1>2, <2>1, <2>2, <2>3, AirMoves
    <2>4. CASE ~chip.mounted
      BY <1>1, <1>2, <2>1, <2>4, AirMoves
    <2> QED
      BY <2>3, <2>4
  <1>8. ASSUME NEW op \in Ops, SubmitForm(op) PROVE GateInv'
    <2>1. /\ gate' = [gate EXCEPT !.busy = TRUE] /\ post' = [NoPost EXCEPT !.op = op]
          /\ UNCHANGED <<doing, srv, chip, sheet, air, told>>
      BY <1>8 DEF SubmitForm
    <2>2. gate' \in GateViews
      BY <1>2, <2>1 DEF GateViews
    <2>3. post' \in Posts
      BY <1>2, <2>1 DEF Posts
    <2> QED
      BY <1>1, <1>2, <2>1, <2>2, <2>3, AirMoves
  <1>9. ASSUME NEW kind \in ChipKinds, PollGate(kind) PROVE GateInv'
    <2>1. /\ chip.mounted /\ air' = AskedAll(air, {kind})
          /\ UNCHANGED <<doing, srv, gate, chip, sheet, post, told>>
      BY <1>9 DEF PollGate, Asked
    <2>2. {kind} \subseteq KindsShown
      BY <2>1 DEF KindsShown
    <2>3. /\ UNCHANGED <<doing, srv>> /\ gate' \in GateViews /\ chip' \in Chips /\ sheet' \in Sheets /\ post' \in Posts
          /\ told' = told /\ chip'.mounted = chip.mounted /\ chip'.verdict = chip.verdict /\ chip'.rows = chip.rows
      BY <1>2, <2>1
    <2> DEFINE one == {kind}
    <2>4. one \subseteq KindsShown /\ air \subseteq air /\ air' = AskedAll(air, one)
      BY <2>1, <2>2
    <2> HIDE DEF one
    <2> QED
      BY <2>3, <2>4, AirMoves
  <1> QED
    BY <1>3, <1>4, <1>5, <1>6, <1>7, <1>8, <1>9

\* Statuses and targets land; a failed verdict is discarded.
LEMMA ViewsLand ==
  ASSUME GateInv, NEW r \in air, ChipLands(r) \/ VerdictFails(r) \/ SheetLands(r)
  PROVE  GateInv'
  <1>1. air \ {r} \subseteq air /\ {} \subseteq KindsShown
    OBVIOUS
  <1>2. /\ gate \in GateViews /\ chip \in Chips /\ sheet \in Sheets /\ post \in Posts
        /\ r \in GateReads /\ (r.ans # <<>> => r.ans[1] \in Answers(r.kind))
    BY ShownKinds, ReadIs
  <1>3. CASE ChipLands(r)
    <2> DEFINE new == r.ans[1]
               locked == chip.locked /\ ~(new # chip.status /\ new.vault = "ready")
    <2>1. /\ r.kind = "chip" /\ r.ans # <<>> /\ chip' = [chip EXCEPT !.status = new, !.locked = locked]
          /\ air' = air \ {r} /\ UNCHANGED <<doing, srv, gate, sheet, post, told>>
      BY <1>3 DEF ChipLands
    <2>2. new \in Statuses /\ locked \in BOOLEAN
      BY <1>2, <2>1 DEF Answers, Chips
    <2> HIDE DEF new, locked
    <2>3. /\ chip' \in Chips /\ chip'.mounted = chip.mounted /\ chip'.verdict = chip.verdict
          /\ chip'.rows = chip.rows
      BY <1>2, <2>1, <2>2 DEF Chips
    <2> QED
      BY <1>1, <1>2, <2>1, <2>3, AirMoves
  <1>4. CASE VerdictFails(r)
    <2> DEFINE error == [NoVerdict EXCEPT !.state = "error"]
    <2>1. /\ r.kind = "verdict" /\ air' = air \ {r} /\ UNCHANGED <<doing, srv, gate, sheet, post, told>>
          /\ chip' = [chip EXCEPT !.verdict = error] \/ chip' = chip
      BY <1>4 DEF VerdictFails
    <2>2. error \in Verdicts /\ error.state # "known"
      BY NothingShown DEF Verdicts
    <2> HIDE DEF error
    <2>3. chip.mounted
      <3>1. r.kind \in KindsShown
        BY DEF GateInv, AirFits
      <3> QED
        BY <2>1, <3>1 DEF KindsShown
    <2>4. /\ chip' \in Chips /\ chip'.mounted = chip.mounted /\ chip'.rows = chip.rows
          /\ chip'.verdict = chip.verdict \/ chip'.verdict = error
      BY <1>2, <2>1, <2>2 DEF Chips
    <2> QED
      BY <1>1, <1>2, <2>1, <2>2, <2>3, <2>4, AirMoves
  <1>5. CASE SheetLands(r)
    <2> DEFINE new == r.ans[1]
    <2>1. /\ r.kind \in SheetKinds /\ r.ans # <<>> /\ air' = air \ {r}
          /\ sheet' = IF r.kind = "sheetStatus" THEN [sheet EXCEPT !.status = new]
                      ELSE [sheet EXCEPT !.target = new]
          /\ UNCHANGED <<doing, srv, gate, chip, post, told>>
      BY <1>5 DEF SheetLands
    <2>2. /\ r.kind = "sheetStatus" => new \in Statuses
          /\ r.kind # "sheetStatus" => new \in Verdicts
      BY <1>2, <2>1 DEF Answers, SheetKinds
    <2> HIDE DEF new
    <2>3. sheet' \in Sheets
      BY <1>2, <2>1, <2>2 DEF Sheets
    <2> QED
      BY <1>1, <1>2, <2>1, <2>3, AirMoves
  <1> QED
    BY <1>3, <1>4, <1>5

\* The newest verdict read is one that was answered since the last change.
LEMMA VerdictLandsKeeps ==
  ASSUME GateInv, NEW r \in air, VerdictLands(r)
  PROVE  GateInv'
  <1> DEFINE new == r.ans[1]
  <1>1. /\ r.kind = "verdict" /\ r.ans # <<>> /\ air' = air \ {r}
        /\ chip' = IF r.newest THEN [chip EXCEPT !.verdict = new] ELSE chip
        /\ UNCHANGED <<doing, srv, gate, sheet, post, told>>
    BY DEF VerdictLands
  <1>2. r.ans = <<new>> /\ new \in Verdicts /\ chip \in Chips
    BY <1>1, ShownKinds, ReadIs DEF Answers
  <1>3. chip.mounted
    <2>1. r.kind \in KindsShown
      BY DEF GateInv, AirFits
    <2> QED
      BY <1>1, <2>1 DEF KindsShown
  <1> HIDE DEF new
  <1>4. /\ chip' \in Chips /\ chip'.mounted /\ chip'.rows = chip.rows
        /\ chip'.verdict = IF r.newest THEN new ELSE chip.verdict
    BY <1>1, <1>2, <1>3 DEF Chips
  <1>5. GTypeOK'
    <2>1. \A u \in air' : u.ans = <<>> \/ u.ans[1] \in Answers(u.kind)
      BY <1>1 DEF GateInv, GTypeOK
    <2> QED
      BY <1>1, <1>4, <2>1 DEF GateInv, GTypeOK, Chips
  <1>6. AirFits' /\ ChipFits'
    <2>1. KindsShown' = KindsShown
      BY <1>1, <1>3, <1>4, KindsThen DEF KindsShown
    <2> QED
      BY <1>1, <1>4, <2>1 DEF GateInv, AirFits, ChipFits
  <1>7. VerdictNow' = VerdictNow
    BY <1>1 DEF VerdictNow, Target
  <1>8. VerdictFits'
    <2>1. told.verdict /\ r.newest => r.ans = <<VerdictNow>>
      BY <1>1 DEF GateInv, VerdictFits
    <2>2. told.verdict /\ r.newest => new = VerdictNow
      BY <1>2, <2>1
    <2> QED
      BY <1>1, <1>4, <1>7, <2>2 DEF GateInv, VerdictFits
  <1>9. RowsFitGate'
    BY <1>1, <1>4 DEF GateInv, RowsFitGate
  <1> QED
    BY <1>5, <1>6, <1>8, <1>9 DEF GateInv

LEMMA RowsLandKeeps ==
  ASSUME GateInv, NEW r \in air, RowsLand(r)
  PROVE  GateInv'
  <1> DEFINE new == r.ans[1]
  <1>1. r.kind = "rows" /\ r.ans # <<>> /\ UNCHANGED <<doing, srv, gate, sheet, post, told>>
    BY DEF RowsLand
  <1>2. r.ans = <<new>> /\ new \in MaybeTenant \union {"503"} /\ chip \in Chips
    BY <1>1, ShownKinds, ReadIs DEF Answers
  <1>3. chip.mounted
    <2>1. r.kind \in KindsShown
      BY DEF GateInv, AirFits
    <2> QED
      BY <1>1, <2>1 DEF KindsShown
  <1>4. CASE new = "503"
    <2> DEFINE bare == [chip EXCEPT !.rows = NoTenant]
    <2>1. air' = AskedAll(air \ {r}, {"gate"}) /\ chip' = [bare EXCEPT !.locked = TRUE]
      BY <1>4 DEF RowsLand, LockedEvent, Asked
    <2>2. /\ bare \in Chips /\ bare.mounted = chip.mounted /\ bare.verdict = chip.verdict
          /\ bare.rows = NoTenant
      BY <1>2, NothingShown DEF Chips
    <2> HIDE DEF bare
    <2>3. /\ chip' \in Chips /\ chip'.mounted = chip.mounted /\ chip'.verdict = chip.verdict
          /\ chip'.rows = NoTenant
      BY <2>1, <2>2 DEF Chips
    <2>4. air \ {r} \subseteq air /\ {"gate"} \subseteq KindsShown
      BY DEF KindsShown
    <2> QED
      BY <1>1, <2>1, <2>3, <2>4, ShownKinds, AirMoves
  <1>5. CASE new # "503"
    <2>1. air' = air \ {r} /\ chip' = [chip EXCEPT !.rows = new]
      BY <1>5 DEF RowsLand
    <2>2. told.rows => new = srv.active
      <3>1. told.rows => r.ans = <<"503">> \/ r.ans = <<srv.active>>
        BY <1>1 DEF GateInv, RowsFitGate
      <3> QED
        BY <1>2, <1>5, <3>1
    <2> HIDE DEF new
    <2>3. chip' \in Chips /\ chip'.mounted /\ chip'.verdict = chip.verdict /\ chip'.rows = new
      BY <1>2, <1>3, <1>5, <2>1 DEF Chips
    <2>4. GTypeOK'
      <3>1. \A u \in air' : u.ans = <<>> \/ u.ans[1] \in Answers(u.kind)
        BY <2>1 DEF GateInv, GTypeOK
      <3> QED
        BY <1>1, <2>3, <3>1 DEF GateInv, GTypeOK, Chips
    <2>5. AirFits' /\ ChipFits'
      <3>1. KindsShown' = KindsShown
        BY <1>1, <1>3, <2>3, KindsThen DEF KindsShown
      <3> QED
        BY <2>1, <2>3, <3>1 DEF GateInv, AirFits, ChipFits
    <2>6. VerdictFits'
      <3>1. VerdictNow' = VerdictNow
        BY <1>1 DEF VerdictNow, Target
      <3> QED
        BY <1>1, <2>1, <2>3, <3>1 DEF GateInv, VerdictFits
    <2>7. RowsFitGate'
      BY <1>1, <2>1, <2>2, <2>3 DEF GateInv, RowsFitGate
    <2> QED
      BY <2>4, <2>5, <2>6, <2>7 DEF GateInv
  <1> QED
    BY <1>4, <1>5

LEMMA PressesKeep ==
  ASSUME GateInv, \/ LockLands \/ SwitchLost
                  \/ \E op \in Ops, t \in MaybeTenant : PressOp(op, t)
  PROVE  GateInv'
  <1>1. /\ gate \in GateViews /\ chip \in Chips /\ sheet \in Sheets /\ post \in Posts /\ NoPost \in Posts
        /\ air \subseteq air /\ {"gate"} \subseteq KindsShown /\ {} \subseteq KindsShown
    BY ShownKinds, NothingShown DEF KindsShown
  <1>2. CASE LockLands
    <2> DEFINE ns == {r \in air : r.kind \notin SheetKinds}
    <2>1. /\ air' = AskedAll(ns, {"gate"}) /\ chip' = [chip EXCEPT !.locked = TRUE] /\ sheet' = Closed
          /\ post' = NoPost /\ UNCHANGED <<doing, srv, gate, told>>
      BY <1>2 DEF LockLands, LockedEvent, Asked
    <2>2. ns \subseteq air
      OBVIOUS
    <2>3. /\ chip' \in Chips /\ chip'.mounted = chip.mounted /\ chip'.verdict = chip.verdict
          /\ chip'.rows = chip.rows
      BY <1>1, <2>1 DEF Chips
    <2> HIDE DEF ns
    <2> QED
      BY <1>1, <2>1, <2>2, <2>3, NothingShown, AirMoves
  <1>3. CASE SwitchLost
    <2>1. post' = NoPost /\ UNCHANGED <<doing, srv, gate, chip, sheet, air, told>>
      BY <1>3 DEF SwitchLost
    <2> QED
      BY <1>1, <2>1, AirMoves
  <1>4. ASSUME NEW op \in Ops, NEW t \in MaybeTenant, PressOp(op, t) PROVE GateInv'
    <2>1. /\ post' = [NoPost EXCEPT !.op = op, !.arg = t] /\ UNCHANGED <<doing, srv, gate, air, told>>
          /\ chip' = chip \/ chip' = [chip EXCEPT !.switching = TRUE]
          /\ \/ sheet' = sheet \/ \E b \in {"switch", "lock"} : sheet' = [sheet EXCEPT !.busy = b]
             \/ sheet' = [sheet EXCEPT !.busy = "grant", !.err = FALSE]
      BY <1>4 DEF PressOp
    <2>2. post' \in Posts
      BY <1>1, <2>1 DEF Posts
    <2>3. /\ chip' \in Chips /\ chip'.mounted = chip.mounted /\ chip'.verdict = chip.verdict
          /\ chip'.rows = chip.rows
      BY <1>1, <2>1 DEF Chips
    <2>4. sheet' \in Sheets
      BY <1>1, <2>1 DEF Sheets
    <2> QED
      BY <1>1, <2>1, <2>2, <2>3, <2>4, AirMoves
  <1> QED
    BY <1>2, <1>3, <1>4

\* A switch that succeeded leaves nothing of the tenant that was left.
LEMMA SwitchLandsKeeps ==
  ASSUME GateInv, SwitchLands
  PROVE  GateInv'
  <1>1. /\ post' = NoPost /\ UNCHANGED <<doing, srv>>
        /\ gate \in GateViews /\ chip \in Chips /\ sheet \in Sheets /\ told \in Tolds
    BY ShownKinds DEF SwitchLands
  <1>2. CASE ~post.ok
    <2>1. /\ chip' = [chip EXCEPT !.switching = FALSE] /\ sheet' = [sheet EXCEPT !.busy = "no"]
          /\ UNCHANGED <<gate, air, told>>
      BY <1>2 DEF SwitchLands, NotSwitching
    <2>2. /\ chip' \in Chips /\ chip'.mounted = chip.mounted /\ chip'.verdict = chip.verdict
          /\ chip'.rows = chip.rows
      BY <1>1, <2>1 DEF Chips
    <2>3. sheet' \in Sheets
      BY <1>1, <2>1 DEF Sheets
    <2>4. air \subseteq air /\ {} \subseteq KindsShown
      OBVIOUS
    <2> QED
      BY <1>1, <2>1, <2>2, <2>3, <2>4, NothingShown, AirMoves
  <1>3. CASE post.ok
    <2> DEFINE read == [kind |-> "gate", newest |-> TRUE, ans |-> <<>>]
    <2>1. /\ gate' = [vault |-> "unknown", err |-> FALSE, first |-> FALSE, busy |-> FALSE, setup |-> FALSE]
          /\ chip' = NoChip /\ sheet' = Closed /\ air' = {read} /\ told' = [told EXCEPT !.rows = TRUE]
      BY <1>3 DEF SwitchLands, Reload
    <2>2. read \in GateReads /\ read.kind = "gate" /\ read.ans = <<>>
      <3>1. "gate" \in ReadKinds /\ TRUE \in BOOLEAN /\ <<>> = <<>>
        BY DEF ReadKinds
      <3> QED
        BY <3>1, AReadIs
    <2> HIDE DEF read
    <2>3. gate' \in GateViews
      BY <2>1 DEF GateViews
    <2>4. told' \in Tolds
      BY <1>1, <2>1 DEF Tolds
    <2>5. GTypeOK'
      <3>1. \A u \in air' : u.ans = <<>> \/ u.ans[1] \in Answers(u.kind)
        BY <2>1, <2>2
      <3>2. doing' \in Doings \union {{}} /\ srv' \in Servers /\ chip' \in Chips /\ sheet' \in Sheets /\ post' \in Posts
        BY <1>1, <2>1, NothingShown, ShownKinds
      <3> QED
        BY <2>3, <2>4, <3>1, <3>2 DEF GTypeOK, Servers, GateViews, Chips, Sheets, Posts, Tolds
    <2>6. AirFits'
      BY <2>1, <2>2 DEF AirFits, KindsShown
    <2>7. ChipFits' /\ VerdictFits' /\ RowsFitGate'
      BY <2>1, <2>2, NothingShown DEF ChipFits, VerdictFits, RowsFitGate
    <2> QED
      BY <2>5, <2>6, <2>7 DEF GateInv
  <1> QED
    BY <1>2, <1>3

\* A grant made here hides the verdict, and no read from before it counts.
LEMMA WritableLandsKeeps ==
  ASSUME GateInv, WritableLands
  PROVE  GateInv'
  <1> DEFINE err == ~post.ok
             kinds == (ChipKinds \intersect {"verdict"}) \union SheetAsks
  <1>1. /\ post' = NoPost /\ UNCHANGED <<doing, srv, gate>>
        /\ sheet' = IF sheet.open THEN [sheet EXCEPT !.busy = "no", !.err = err] ELSE sheet
        /\ gate \in GateViews /\ chip \in Chips /\ sheet \in Sheets /\ told \in Tolds
    BY ShownKinds DEF WritableLands
  <1>2. sheet' \in Sheets
    <2>1. err \in BOOLEAN
      OBVIOUS
    <2> HIDE DEF err
    <2> QED
      BY <1>1, <2>1 DEF Sheets
  <1> HIDE DEF err
  <1>3. CASE ~post.ok
    <2>1. UNCHANGED <<air, chip, told>>
      BY <1>3 DEF WritableLands
    <2>2. air \subseteq air /\ {} \subseteq KindsShown
      OBVIOUS
    <2> QED
      BY <1>1, <1>2, <2>1, <2>2, NothingShown, AirMoves
  <1>4. CASE post.ok
    <2>1. /\ air' = IF chip.mounted THEN AskedAll(air, kinds) ELSE air
          /\ chip' = IF chip.mounted THEN [chip EXCEPT !.verdict = NoVerdict] ELSE chip
          /\ told' = [told EXCEPT !.verdict = TRUE]
      BY <1>4 DEF WritableLands
    <2>2. chip' \in Chips /\ chip'.mounted = chip.mounted /\ chip'.verdict = NoVerdict /\ chip'.rows = chip.rows
      BY <1>1, <2>1, NothingShown DEF Chips, GateInv, ChipFits
    <2>3. told' \in Tolds /\ told'.rows = told.rows
      BY <1>1, <2>1 DEF Tolds
    <2>4. /\ kinds \subseteq ReadKinds /\ (kinds \subseteq KindsShown \/ ~chip.mounted)
          /\ "verdict" \in KindsShown => "verdict" \in kinds
      BY ShownKinds DEF KindsShown, SheetKinds
    <2>5. \A r \in air : r \in GateReads /\ r.kind \in KindsShown
      BY DEF GateInv, AirFits
    <2> HIDE DEF kinds
    <2>6. ASSUME NEW u \in air'
          PROVE  /\ u \in GateReads /\ u.kind \in KindsShown
                 /\ u.kind = "verdict" /\ u.newest => u.ans = <<>>
                 /\ u.ans = <<>> \/ \E r \in air : u.kind = r.kind /\ u.ans = r.ans
      <3>1. CASE ~chip.mounted
        BY <2>1, <2>5, <3>1 DEF KindsShown
      <3>2. CASE chip.mounted
        <4>1. u \in AskedAll(air, kinds) /\ kinds \subseteq ReadKinds /\ air \subseteq GateReads
          BY <2>1, <2>4, <2>5, <3>2
        <4>2. /\ u \in GateReads
              /\ \/ u.kind \in kinds /\ u.ans = <<>>
                 \/ \E r \in air : /\ u.kind = r.kind /\ u.ans = r.ans /\ (u.newest => r.newest)
                                   /\ u.kind = "verdict" /\ "verdict" \in kinds => ~u.newest
          BY <4>1, AskedIs
        <4> QED
          BY <2>4, <2>5, <3>2, <4>2
      <3> QED
        BY <3>1, <3>2
    <2>7. KindsShown' = KindsShown
      BY <1>1, <2>2, KindsThen DEF KindsShown
    <2>8. GTypeOK'
      <3>1. \A u \in air' : u.ans = <<>> \/ u.ans[1] \in Answers(u.kind)
        BY <2>6, ReadIs
      <3>2. doing' \in Doings \union {{}} /\ srv' \in Servers /\ gate' \in GateViews /\ post' \in Posts
        BY <1>1, NothingShown, ShownKinds
      <3> QED
        BY <1>2, <2>2, <2>3, <3>1, <3>2 DEF GTypeOK, Servers, GateViews, Chips, Sheets, Posts, Tolds
    <2>9. AirFits' /\ ChipFits'
      BY <2>2, <2>6, <2>7 DEF GateInv, AirFits, ChipFits
    <2>10. VerdictFits'
      BY <2>2, <2>6, NothingShown DEF VerdictFits
    <2>11. RowsFitGate'
      BY <1>1, <2>2, <2>3, <2>6 DEF GateInv, RowsFitGate
    <2> QED
      BY <2>8, <2>9, <2>10, <2>11 DEF GateInv
  <1> QED
    BY <1>3, <1>4

\* An answer is what the server holds as it is given.
LEMMA ServeKeeps ==
  ASSUME GateInv, NEW r \in air, Serve(r)
  PROVE  GateInv'
  <1> DEFINE answer == AnswerOf(r.kind)
             read == [kind |-> r.kind, newest |-> r.newest, ans |-> <<answer>>]
  <1>1. /\ air' = (air \ {r}) \union {read} /\ UNCHANGED <<doing, srv, gate, chip, sheet, post, told>>
    BY DEF Serve
  <1>2. r.kind \in ReadKinds /\ r.newest \in BOOLEAN /\ r.kind \in KindsShown
    BY ShownKinds, ReadIs DEF GateInv, AirFits
  <1>3. answer \in Answers(r.kind)
    BY <1>2, AnswerFits DEF GateInv
  <1>4. /\ r.kind = "verdict" => answer = VerdictNow
        /\ r.kind = "rows" => answer \in {"503", srv.active}
    BY DEF AnswerOf
  <1> HIDE DEF answer
  <1>5. <<answer>> = <<>> \/ \E a \in Answers(r.kind) : <<answer>> = <<a>>
    BY <1>3
  <1>6. read \in GateReads /\ read.kind = r.kind /\ read.newest = r.newest /\ read.ans = <<answer>>
    BY <1>2, <1>5, AReadIs
  <1> HIDE DEF read
  <1>7. GTypeOK'
    <2>1. read.ans[1] \in Answers(read.kind)
      BY <1>3, <1>6
    <2>2. \A u \in air' : u.ans = <<>> \/ u.ans[1] \in Answers(u.kind)
      BY <1>1, <2>1 DEF GateInv, GTypeOK
    <2> QED
      BY <1>1, <2>2 DEF GateInv, GTypeOK
  <1>8. AirFits' /\ ChipFits'
    BY <1>1, <1>2, <1>6 DEF GateInv, AirFits, ChipFits, KindsShown, ChipKinds, SheetKinds
  <1>9. VerdictFits'
    <2>1. VerdictNow' = VerdictNow
      BY <1>1 DEF VerdictNow, Target
    <2>2. r.kind = "verdict" => read.ans = <<VerdictNow>>
      BY <1>4, <1>6
    <2> QED
      BY <1>1, <1>6, <2>1, <2>2 DEF GateInv, VerdictFits
  <1>10. RowsFitGate'
    <2>1. r.kind = "rows" => read.ans = <<"503">> \/ read.ans = <<srv.active>>
      BY <1>4, <1>6
    <2> QED
      BY <1>1, <1>6, <2>1 DEF GateInv, RowsFitGate
  <1> QED
    BY <1>7, <1>8, <1>9, <1>10 DEF GateInv

\* The server takes a change, this browser's or another's, or refuses it.
LEMMA ServerKeeps ==
  ASSUME GateInv, ServePost \/ \E op \in Ops, t \in MaybeTenant : OtherActs(op, t)
  PROVE  GateInv'
  <1>1. /\ gate \in GateViews /\ chip \in Chips /\ sheet \in Sheets /\ post \in Posts /\ srv \in Servers
    BY ShownKinds
  <1>2. CASE ServePost
    <2>1. UNCHANGED <<doing, gate, chip, sheet, air>>
      BY <1>2 DEF ServePost
    <2>2. CASE /\ srv' \in Results(srv, post.op, post.arg) /\ post' = [post EXCEPT !.served = TRUE, !.ok = TRUE]
               /\ told' = [verdict |-> FALSE, rows |-> FALSE]
      <3>1. post' \in Posts /\ post.arg \in MaybeTenant
        BY <1>1, <2>2 DEF Posts
      <3>2. srv' \in Servers
        BY <1>1, <2>2, <3>1, ResultsFit
      <3> QED
        BY <2>1, <2>2, <3>1, <3>2, ServerMoves
    <2>3. CASE post' = [post EXCEPT !.served = TRUE] /\ UNCHANGED <<srv, told>>
      <3>1. post' \in Posts
        BY <1>1, <2>3 DEF Posts
      <3>2. air \subseteq air /\ {} \subseteq KindsShown
        OBVIOUS
      <3> QED
        BY <1>1, <2>1, <2>3, <3>1, <3>2, AirMoves
    <2> QED
      BY <1>2, <2>2, <2>3 DEF ServePost
  <1>3. ASSUME NEW op \in Ops, NEW t \in MaybeTenant, OtherActs(op, t) PROVE GateInv'
    <2>1. /\ srv' \in Results(srv, op, t) /\ told' = [verdict |-> FALSE, rows |-> FALSE]
          /\ UNCHANGED <<doing, gate, chip, sheet, air>> /\ post' = post
      BY <1>3 DEF OtherActs
    <2>2. srv' \in Servers
      BY <1>1, <2>1, ResultsFit
    <2> QED
      BY <1>1, <2>1, <2>2, ServerMoves
  <1> QED
    BY <1>2, <1>3

-----------------------------------------------------------------------------
LEMMA GateStarts ==
  ASSUME GInit
  PROVE  GateInv
  <1> DEFINE read == [kind |-> "gate", newest |-> TRUE, ans |-> <<>>]
  <1>1. /\ doing \in Doings /\ chip = NoChip /\ sheet = Closed /\ air = {read} /\ post = NoPost
        /\ told = [verdict |-> FALSE, rows |-> FALSE]
        /\ gate = [vault |-> "unknown", err |-> FALSE, first |-> FALSE, busy |-> FALSE, setup |-> FALSE]
    BY DEF GInit
  <1>2. read \in GateReads /\ read.kind = "gate" /\ read.ans = <<>>
    <2>1. "gate" \in ReadKinds /\ TRUE \in BOOLEAN /\ <<>> = <<>>
      BY DEF ReadKinds
    <2> QED
      BY <2>1, AReadIs
  <1>3. srv \in Servers
    <2> DEFINE Has(v) == IF v \in {"ready", "locked"} THEN Tenants ELSE {}
               First(has) == IF has = {} THEN {NoTenant} ELSE has
    <2>1. PICK v \in VaultStates : \E a \in First(Has(v)) :
              srv = [vault |-> v, has |-> Has(v), active |-> a, away |-> FALSE, grants |-> {}]
      BY DEF GInit
    <2>2. PICK a \in First(Has(v)) :
              srv = [vault |-> v, has |-> Has(v), active |-> a, away |-> FALSE, grants |-> {}]
      BY <2>1
    <2>3. Has(v) \subseteq Tenants /\ a \in MaybeTenant
      BY DEF MaybeTenant
    <2> HIDE DEF Has
    <2> QED
      BY <2>2, <2>3 DEF Servers
  <1> HIDE DEF read
  <1>4. gate \in GateViews /\ told \in Tolds
    BY <1>1 DEF GateViews, Tolds
  <1>5. GTypeOK
    <2>1. \A u \in air : u.ans = <<>> \/ u.ans[1] \in Answers(u.kind)
      BY <1>1, <1>2
    <2> QED
      BY <1>1, <1>3, <1>4, <2>1, NothingShown, GateTypes
  <1>6. AirFits
    BY <1>1, <1>2 DEF AirFits, KindsShown
  <1>7. ChipFits /\ VerdictFits /\ RowsFitGate
    BY <1>1, NothingShown DEF ChipFits, VerdictFits, RowsFitGate
  <1> QED
    BY <1>5, <1>6, <1>7 DEF GateInv

LEMMA GateStaysTheSame ==
  ASSUME GateInv, UNCHANGED gvars
  PROVE  GateInv'
  BY DEF GateInv, GTypeOK, AirFits, ChipFits, VerdictFits, RowsFitGate, KindsShown, ChipKinds, SheetKinds,
         VerdictNow, Target, gvars

LEMMA GateSteps ==
  ASSUME GateInv, [GNext]_gvars
  PROVE  GateInv'
  <1>1. CASE UNCHANGED gvars
    BY <1>1, GateStaysTheSame
  <1>2. ASSUME NEW r \in air,
               \/ Serve(r) \/ GateLands(r) \/ GateFails(r) \/ ChipLands(r) \/ VerdictLands(r)
               \/ VerdictFails(r) \/ RowsLand(r) \/ SheetLands(r)
        PROVE  GateInv'
    BY <1>2, ServeKeeps, GateReadsKeep, ViewsLand, VerdictLandsKeeps, RowsLandKeeps
  <1>3. ASSUME NEW op \in Ops, NEW t \in MaybeTenant, SubmitForm(op) \/ PressOp(op, t) \/ OtherActs(op, t)
        PROVE  GateInv'
    BY <1>3, GateAsksKeep, PressesKeep, ServerKeeps
  <1>4. CASE \/ RetryGate \/ SubmitLands \/ OpenSheet \/ CloseSheet \/ RemoveLands
             \/ \E kind \in ChipKinds : PollGate(kind)
    BY <1>4, GateAsksKeep
  <1>5. CASE ServePost \/ SwitchLands \/ SwitchLost \/ WritableLands \/ LockLands
    BY <1>5, ServerKeeps, SwitchLandsKeeps, PressesKeep, WritableLandsKeeps
  <1> QED
    BY <1>1, <1>2, <1>3, <1>4, <1>5 DEF GNext, MaybeTenant

\* What the browser holds of the vault, and what of it is in the air, fits the
\* server as far as it was told: the reads are of a kind what is shown may have
\* asked, without the dashboard the chip holds nothing, and since a change made
\* here was announced no older answer is counted (VaultGate.jsx 224-250,
\* ConnStatus.jsx 7-19, TenantManager.jsx 174-186).
THEOREM GateInductive == GSpec => []GateInv
  <1>1. GInit => GateInv
    BY GateStarts
  <1>2. GateInv /\ [GNext]_gvars => GateInv'
    BY GateSteps
  <1> QED
    BY <1>1, <1>2, PTL DEF GSpec

\* The chip never shows a verdict but the server's after a grant made here, and
\* no panel the rows of a tenant that was left, for any tenants and any number
\* of reads in the air (ConnStatus.jsx 7-19, TenantManager.jsx 174-186).
THEOREM GateAlwaysTellsTheTruth == GSpec => []GateTellsTheTruth
  <1>1. GateInv => GateTellsTheTruth
    BY DEF GateInv, GateTellsTheTruth, VerdictFits, VerdictIsTrue, RowsFitGate, RowsAreOfTheActiveTenant
  <1> QED
    BY <1>1, GateInductive, PTL

-----------------------------------------------------------------------------
(* The update button.                                                      *)

UpdatePhases == {"idle", "applying", "restarting", "error"}
UpdateStores == [n : 0 .. asked, look : 0 .. hub.looks, air : SUBSET Nat, new : BOOLEAN, phase : UpdatePhases]
UpdateChecks == [n : 1 .. asked, force : BOOLEAN, look : 0 .. hub.looks, new : BOOLEAN, air : SUBSET Nat]
UpdateLanded == [n : 1 .. asked, look : 1 .. hub.looks]
CheckButtons == [state : {"idle", "checking", "resting"}, n : 0 .. asked]
Hubs == [looks : Nat, memory : BOOLEAN, forced : BOOLEAN]
Machines == [version : {"old", "new"}, phase : {"idle", "running", "done", "error"}]
Installs == {"no", "apply", "tick", "probe"}

LEMMA UpdateTyped ==
  UTypeOK <=> /\ asked \in Nat /\ hub \in Hubs /\ updates \in UpdateStores /\ checks \subseteq UpdateChecks
              /\ landed \subseteq UpdateLanded /\ button \in CheckButtons /\ install \in Installs
              /\ machine \in Machines
  BY DEF UTypeOK, UpdatePhases, UpdateStores, UpdateChecks, UpdateLanded, CheckButtons, Hubs, Machines, Installs

LEMMA UpdateTypedNext ==
  UTypeOK' <=> /\ asked' \in Nat /\ hub' \in Hubs /\ updates' \in UpdateStores'
               /\ checks' \subseteq UpdateChecks' /\ landed' \subseteq UpdateLanded'
               /\ button' \in CheckButtons' /\ install' \in Installs /\ machine' \in Machines
  BY DEF UTypeOK, UpdatePhases, UpdateStores, UpdateChecks, UpdateLanded, CheckButtons, Hubs, Machines, Installs

\* A check in the air knows every earlier one still there, one overtaken by
\* the stored answer was there when that was sent, and a check the server has
\* answered is behind no landed answer but one that was there with it.
ChecksKnow ==
    /\ \A c, d \in checks : /\ d.n < c.n => d.n \in c.air
                            /\ d.n = c.n => d = c
    /\ \A c \in checks : c.n # updates.n /\ (c.n < updates.n => c.n \in updates.air)
    /\ \A a \in landed : a.n <= updates.n
    /\ \A c \in checks, a \in landed : c.look > 0 /\ a.n < c.n /\ a.look > c.look => a.n \in c.air

UpdateInv == UTypeOK /\ ChecksKnow /\ NewerAnswerStays

LEMMA UpdateStarts == UInit => UpdateInv
  BY DEF UInit, UpdateInv, UTypeOK, ChecksKnow, NewerAnswerStays

\* What was counted by the old bounds is counted by larger ones.
LEMMA UpdateGrows ==
  ASSUME asked \in Nat, asked' \in Nat, asked <= asked', hub \in Hubs, hub' \in Hubs, hub.looks <= hub'.looks
  PROVE  /\ UpdateStores \subseteq UpdateStores' /\ UpdateChecks \subseteq UpdateChecks'
         /\ UpdateLanded \subseteq UpdateLanded' /\ CheckButtons \subseteq CheckButtons'
  <1>1. hub.looks \in Nat /\ hub'.looks \in Nat
    BY DEF Hubs
  <1>2. /\ 0 .. asked \subseteq 0 .. asked' /\ 1 .. asked \subseteq 1 .. asked'
        /\ 0 .. hub.looks \subseteq 0 .. hub'.looks /\ 1 .. hub.looks \subseteq 1 .. hub'.looks
    BY <1>1
  <1>3. UpdateStores \subseteq UpdateStores'
    BY <1>2 DEF UpdateStores
  <1>4. UpdateChecks \subseteq UpdateChecks'
    BY <1>2 DEF UpdateChecks
  <1>5. UpdateLanded \subseteq UpdateLanded'
    BY <1>2 DEF UpdateLanded
  <1>6. CheckButtons \subseteq CheckButtons'
    BY <1>2 DEF CheckButtons
  <1> QED
    BY <1>3, <1>4, <1>5, <1>6

LEMMA PhaseFits ==
  ASSUME NEW u \in UpdateStores, NEW p \in UpdatePhases
  PROVE  /\ [u EXCEPT !.phase = p] \in UpdateStores
         /\ [u EXCEPT !.phase = p].n = u.n /\ [u EXCEPT !.phase = p].look = u.look
         /\ [u EXCEPT !.phase = p].air = u.air
  BY DEF UpdateStores

\* A step that leaves the answers alone, whatever it does to the phase.
SameAnswers ==
    /\ checks' = checks /\ landed' = landed /\ hub'.looks = hub.looks /\ asked' = asked
    /\ updates'.n = updates.n /\ updates'.look = updates.look /\ updates'.air = updates.air

LEMMA SameAnswersKeep ==
  ASSUME UpdateInv, UTypeOK', SameAnswers
  PROVE  UpdateInv'
  BY DEF UpdateInv, ChecksKnow, NewerAnswerStays, SameAnswers

LEMMA SendCheckKeeps ==
  ASSUME UpdateInv, Recheck \/ PressCheck
  PROVE  UpdateInv'
  <1>0. /\ updates \in UpdateStores /\ checks \subseteq UpdateChecks /\ button \in CheckButtons /\ hub \in Hubs
        /\ install \in Installs /\ machine \in Machines /\ asked \in Nat /\ landed \subseteq UpdateLanded
    BY UpdateTyped DEF UpdateInv
  <1>1. PICK force \in BOOLEAN : SendCheck(force)
    BY DEF Recheck, PressCheck
  <1>2. asked' = asked + 1 /\ install' = install /\ machine' = machine /\ landed' = landed /\ hub' = hub
    BY <1>1 DEF SendCheck, Recheck, PressCheck
  <1>3. /\ UpdateStores \subseteq UpdateStores' /\ UpdateChecks \subseteq UpdateChecks'
        /\ UpdateLanded \subseteq UpdateLanded' /\ CheckButtons \subseteq CheckButtons'
    <2>1. asked' \in Nat /\ asked <= asked' /\ hub' \in Hubs /\ hub.looks <= hub'.looks
      BY <1>0, <1>2 DEF Hubs
    <2> QED
      BY <1>0, <2>1, UpdateGrows
  <1>4. updates' \in UpdateStores /\ updates'.n = updates.n /\ updates'.look = updates.look
        /\ updates'.air = updates.air
    <2>1. "idle" \in UpdatePhases
      BY DEF UpdatePhases
    <2> QED
      BY <1>0, <1>1, <2>1, PhaseFits DEF SendCheck
  <1> DEFINE m == [n |-> asked + 1, force |-> force, look |-> 0, new |-> FALSE, air |-> {c.n : c \in checks}]
  <1>5. checks' = checks \union {m}
    BY <1>1 DEF SendCheck
  <1>6. m.n = asked + 1 /\ m.look = 0 /\ m.air = {c.n : c \in checks}
    OBVIOUS
  <1>7. \A c \in checks : c.n \in Nat /\ c.n <= asked
    BY <1>0 DEF UpdateChecks
  <1>8. m \in UpdateChecks'
    <2>1. m.air \in SUBSET Nat
      BY <1>6, <1>7
    <2>2. m.look \in 0 .. hub'.looks /\ m.n \in 1 .. asked'
      BY <1>0, <1>2, <1>6 DEF Hubs
    <2>3. ASSUME NEW n \in 1 .. asked', NEW k \in 0 .. hub'.looks, NEW over \in SUBSET Nat
          PROVE  [n |-> n, force |-> force, look |-> k, new |-> FALSE, air |-> over] \in UpdateChecks'
      BY DEF UpdateChecks
    <2>4. m = [n |-> m.n, force |-> force, look |-> m.look, new |-> FALSE, air |-> m.air]
      OBVIOUS
    <2> HIDE DEF m
    <2> QED
      BY <2>1, <2>2, <2>3, <2>4
  <1>9. button' \in CheckButtons'
    <2>1. CASE Recheck
      BY <1>0, <1>3, <2>1 DEF Recheck
    <2>2. CASE PressCheck
      <3>1. button' = [state |-> "checking", n |-> asked'] /\ asked' \in 0 .. asked'
        BY <1>0, <1>2, <2>2 DEF PressCheck
      <3> QED
        BY <3>1 DEF CheckButtons
    <2> QED
      BY <2>1, <2>2
  <1> HIDE DEF m
  <1>10. UTypeOK'
    <2>1. checks' \subseteq UpdateChecks' /\ updates' \in UpdateStores' /\ landed' \subseteq UpdateLanded'
      BY <1>0, <1>2, <1>3, <1>4, <1>5, <1>8
    <2>2. asked' \in Nat /\ hub' \in Hubs /\ install' \in Installs /\ machine' \in Machines
      BY <1>0, <1>2
    <2> QED
      BY <1>9, <2>1, <2>2, UpdateTypedNext
  <1>11. updates.n \in 0 .. asked /\ \A a \in landed : a.n \in Nat /\ a.n <= asked
    BY <1>0 DEF UpdateStores, UpdateLanded
  <1>12. ChecksKnow'
    <2>1. \A c, d \in checks' : (d.n < c.n => d.n \in c.air) /\ (d.n = c.n => d = c)
      <3> SUFFICES ASSUME NEW c \in checks', NEW d \in checks'
                   PROVE  (d.n < c.n => d.n \in c.air) /\ (d.n = c.n => d = c)
        OBVIOUS
      <3>1. CASE c \in checks /\ d \in checks
        BY <3>1 DEF UpdateInv, ChecksKnow
      <3>2. CASE c = m /\ d \in checks
        BY <1>0, <1>6, <1>7, <3>2
      <3>3. CASE c \in checks /\ d = m
        BY <1>0, <1>6, <1>7, <3>3
      <3>4. CASE c = m /\ d = m
        BY <1>0, <1>6, <3>4
      <3> QED
        BY <1>5, <3>1, <3>2, <3>3, <3>4
    <2>2. \A c \in checks' : c.n # updates.n /\ (c.n < updates.n => c.n \in updates.air)
      BY <1>0, <1>5, <1>6, <1>11 DEF UpdateInv, ChecksKnow
    <2>3. \A c \in checks', a \in landed : c.look > 0 /\ a.n < c.n /\ a.look > c.look => a.n \in c.air
      BY <1>5, <1>6 DEF UpdateInv, ChecksKnow
    <2>4. \A a \in landed : a.n <= updates.n
      BY DEF UpdateInv, ChecksKnow
    <2> QED
      BY <1>2, <1>4, <2>1, <2>2, <2>3, <2>4 DEF ChecksKnow
  <1>13. NewerAnswerStays'
    BY <1>2, <1>4 DEF UpdateInv, NewerAnswerStays
  <1> QED
    BY <1>10, <1>12, <1>13 DEF UpdateInv

\* An answer from the server is of its newest look, which no landed answer beats.
LEMMA ServeCheckKeeps ==
  ASSUME UpdateInv, NEW c \in checks, NEW fresh \in BOOLEAN, ServeCheck(c, fresh)
  PROVE  UpdateInv'
  <1>0. /\ updates \in UpdateStores /\ checks \subseteq UpdateChecks /\ button \in CheckButtons /\ hub \in Hubs
        /\ install \in Installs /\ machine \in Machines /\ asked \in Nat /\ landed \subseteq UpdateLanded
        /\ c \in UpdateChecks
    BY UpdateTyped DEF UpdateInv
  <1>1. /\ updates' = updates /\ landed' = landed /\ asked' = asked /\ button' = button
        /\ install' = install /\ machine' = machine
    BY DEF ServeCheck
  <1>2. hub' \in Hubs /\ hub.looks <= hub'.looks /\ hub.looks \in Nat /\ hub'.looks \in Nat
    <2>1. CASE fresh
      <3>1. hub' = [looks |-> hub.looks + 1, memory |-> TRUE, forced |-> c.force \/ hub.forced]
        BY <2>1 DEF ServeCheck
      <3>2. hub.looks + 1 \in Nat /\ (c.force \/ hub.forced) \in BOOLEAN
        BY <1>0 DEF Hubs
      <3> QED
        BY <1>0, <3>1, <3>2 DEF Hubs
    <2>2. CASE ~fresh
      BY <1>0, <2>2 DEF ServeCheck, Hubs
    <2> QED
      BY <2>1, <2>2
  <1>3. /\ UpdateStores \subseteq UpdateStores' /\ UpdateChecks \subseteq UpdateChecks'
        /\ UpdateLanded \subseteq UpdateLanded' /\ CheckButtons \subseteq CheckButtons'
    <2>1. asked' \in Nat /\ asked <= asked'
      BY <1>0, <1>1
    <2> QED
      BY <1>0, <1>2, <2>1, UpdateGrows
  <1> DEFINE new == (machine.version = "old")
             m == [c EXCEPT !.look = hub'.looks, !.new = new]
  <1>4. checks' = (checks \ {c}) \union {m}
    BY DEF ServeCheck
  <1>5. m.n = c.n /\ m.look = hub'.looks /\ m.air = c.air
    BY <1>0 DEF UpdateChecks
  <1>6. m \in UpdateChecks'
    <2>1. new \in BOOLEAN /\ hub'.looks \in 0 .. hub'.looks /\ c \in UpdateChecks'
      BY <1>0, <1>2, <1>3
    <2> HIDE DEF new
    <2> QED
      BY <2>1 DEF UpdateChecks
  <1> HIDE DEF m
  <1>7. UTypeOK'
    <2>1. checks' \subseteq UpdateChecks' /\ updates' \in UpdateStores' /\ landed' \subseteq UpdateLanded'
          /\ button' \in CheckButtons'
      BY <1>0, <1>1, <1>3, <1>4, <1>6
    <2>2. asked' \in Nat /\ install' \in Installs /\ machine' \in Machines
      BY <1>0, <1>1
    <2> QED
      BY <1>2, <2>1, <2>2, UpdateTypedNext
  <1>8. \A a \in landed : a.look \in Nat /\ a.look <= hub'.looks
    BY <1>0, <1>2 DEF UpdateLanded
  <1>9. ChecksKnow'
    <2>1. \A b, d \in checks' : (d.n < b.n => d.n \in b.air) /\ (d.n = b.n => d = b)
      <3> SUFFICES ASSUME NEW b \in checks', NEW d \in checks'
                   PROVE  (d.n < b.n => d.n \in b.air) /\ (d.n = b.n => d = b)
        OBVIOUS
      <3>0. /\ \A e, g \in checks : (g.n < e.n => g.n \in e.air) /\ (g.n = e.n => g = e)
            /\ \A e \in checks : e.n \in Nat
        BY <1>0 DEF UpdateInv, ChecksKnow, UpdateChecks
      <3>1. CASE b \in checks \ {c} /\ d \in checks \ {c}
        BY <3>0, <3>1
      <3>2. CASE b = m /\ d \in checks \ {c}
        BY <1>5, <3>0, <3>2
      <3>3. CASE b \in checks \ {c} /\ d = m
        BY <1>5, <3>0, <3>3
      <3>4. CASE b = m /\ d = m
        BY <1>5, <3>0, <3>4
      <3> QED
        BY <1>4, <3>1, <3>2, <3>3, <3>4
    <2>2. \A b \in checks' : b.n # updates.n /\ (b.n < updates.n => b.n \in updates.air)
      BY <1>4, <1>5 DEF UpdateInv, ChecksKnow
    <2>3. \A b \in checks', a \in landed : b.look > 0 /\ a.n < b.n /\ a.look > b.look => a.n \in b.air
      BY <1>2, <1>4, <1>5, <1>8 DEF UpdateInv, ChecksKnow
    <2>4. \A a \in landed : a.n <= updates.n
      BY DEF UpdateInv, ChecksKnow
    <2> QED
      BY <1>1, <2>1, <2>2, <2>3, <2>4 DEF ChecksKnow
  <1>10. NewerAnswerStays'
    BY <1>1 DEF UpdateInv, NewerAnswerStays
  <1> QED
    BY <1>7, <1>9, <1>10 DEF UpdateInv

LEMMA CheckEnds ==
  ASSUME UTypeOK, NEW c \in checks, UpdateCheckLands(c) \/ CheckFails(c)
  PROVE  button' \in CheckButtons
  <1>1. button \in CheckButtons /\ asked \in Nat
    BY UpdateTyped
  <1>2. button' = ButtonAfter(c) /\ 0 \in 0 .. asked
    BY <1>1 DEF UpdateCheckLands, CheckFails
  <1> QED
    BY <1>1, <1>2 DEF ButtonAfter, CheckButtons

LEMMA LandsKeeps ==
  ASSUME UpdateInv, NEW c \in checks, UpdateCheckLands(c)
  PROVE  UpdateInv'
  <1>0. /\ updates \in UpdateStores /\ checks \subseteq UpdateChecks /\ button \in CheckButtons /\ hub \in Hubs
        /\ install \in Installs /\ machine \in Machines /\ asked \in Nat /\ landed \subseteq UpdateLanded
        /\ c \in UpdateChecks
    BY UpdateTyped DEF UpdateInv
  <1>1. /\ hub' = hub /\ asked' = asked /\ install' = install /\ machine' = machine
        /\ checks' = checks \ {c} /\ c.look > 0
    BY DEF UpdateCheckLands
  <1> DEFINE m == [n |-> c.n, look |-> c.look]
             s == [updates EXCEPT !.n = c.n, !.look = c.look, !.air = c.air, !.new = c.new]
  <1>2. landed' = landed \union {m} /\ m.n = c.n /\ m.look = c.look
    BY DEF UpdateCheckLands
  <1>3. m \in UpdateLanded /\ c.n \in 1 .. asked /\ c.look \in 1 .. hub.looks /\ hub.looks \in Nat
    BY <1>0, <1>1 DEF UpdateLanded, UpdateChecks, Hubs
  <1>4. s \in UpdateStores
    <2>1. c.n \in 0 .. asked /\ c.look \in 0 .. hub.looks /\ c.air \in SUBSET Nat /\ c.new \in BOOLEAN
      BY <1>0, <1>3 DEF UpdateChecks
    <2> QED
      BY <1>0, <2>1 DEF UpdateStores
  <1>5. s.n = c.n /\ s.look = c.look /\ s.air = c.air
    BY <1>0 DEF UpdateStores
  <1>6. updates' = IF c.n > updates.n THEN s ELSE updates
    BY DEF UpdateCheckLands
  <1> HIDE DEF m, s
  <1>7. UTypeOK'
    <2>1. UpdateStores' = UpdateStores /\ UpdateChecks' = UpdateChecks /\ UpdateLanded' = UpdateLanded
          /\ CheckButtons' = CheckButtons
      BY <1>1 DEF UpdateStores, UpdateChecks, UpdateLanded, CheckButtons
    <2>2. updates' \in UpdateStores /\ checks' \subseteq UpdateChecks /\ landed' \subseteq UpdateLanded
      BY <1>0, <1>1, <1>2, <1>3, <1>4, <1>6
    <2>3. button' \in CheckButtons
      BY CheckEnds DEF UpdateInv
    <2> QED
      BY <1>0, <1>1, <2>1, <2>2, <2>3, UpdateTypedNext
  <1>8. /\ updates.n \in Nat /\ updates.look \in Nat
        /\ \A d \in checks : d.n \in Nat /\ d.look \in Nat
        /\ \A a \in landed : a.n \in Nat /\ a.look \in Nat
    BY <1>0 DEF UpdateStores, UpdateChecks, UpdateLanded, Hubs
  <1>9. /\ \A d, e \in checks : (e.n < d.n => e.n \in d.air) /\ (e.n = d.n => e = d)
        /\ \A d \in checks : d.n # updates.n /\ (d.n < updates.n => d.n \in updates.air)
        /\ \A a \in landed : a.n <= updates.n
        /\ \A d \in checks, a \in landed : d.look > 0 /\ a.n < d.n /\ a.look > d.look => a.n \in d.air
        /\ \A a \in landed : a.look > updates.look => a.n \in updates.air
    BY DEF UpdateInv, ChecksKnow, NewerAnswerStays
  <1>10. /\ \A d, e \in checks' : (e.n < d.n => e.n \in d.air) /\ (e.n = d.n => e = d)
         /\ \A d \in checks', a \in landed' : d.look > 0 /\ a.n < d.n /\ a.look > d.look => a.n \in d.air
    <2>1. \A d, e \in checks' : (e.n < d.n => e.n \in d.air) /\ (e.n = d.n => e = d)
      BY <1>1, <1>9
    <2>2. ASSUME NEW d \in checks', NEW a \in landed', d.look > 0, a.n < d.n, a.look > d.look
          PROVE  a.n \in d.air
      <3>1. CASE a \in landed
        BY <1>1, <1>9, <2>2, <3>1
      <3>2. CASE a = m
        BY <1>1, <1>2, <1>9, <2>2, <3>2
      <3> QED
        BY <1>2, <3>1, <3>2
    <2> QED
      BY <2>1, <2>2
  <1>11. CASE c.n > updates.n
    <2>1. updates'.n = c.n /\ updates'.look = c.look /\ updates'.air = c.air
      BY <1>5, <1>6, <1>11
    <2>2. \A d \in checks' : d.n # updates'.n /\ (d.n < updates'.n => d.n \in updates'.air)
      BY <1>1, <1>9, <2>1
    <2>3. \A a \in landed' : a.n <= updates'.n
      BY <1>2, <1>3, <1>8, <1>9, <1>11, <2>1
    <2>4. \A a \in landed' : a.look > updates'.look => a.n \in updates'.air
      <3> SUFFICES ASSUME NEW a \in landed', a.look > updates'.look
                   PROVE  a.n \in updates'.air
        OBVIOUS
      <3>1. CASE a \in landed
        <4>1. a.n < c.n
          BY <1>3, <1>8, <1>9, <1>11, <3>1
        <4> QED
          BY <1>1, <1>9, <2>1, <3>1, <4>1
      <3>2. CASE a = m
        BY <1>2, <1>3, <2>1, <3>2
      <3> QED
        BY <1>2, <3>1, <3>2
    <2> QED
      BY <1>7, <1>10, <2>2, <2>3, <2>4 DEF UpdateInv, ChecksKnow, NewerAnswerStays
  <1>12. CASE ~(c.n > updates.n)
    <2>1. updates' = updates
      BY <1>6, <1>12
    <2>2. c.n < updates.n /\ c.n \in updates.air
      BY <1>3, <1>8, <1>9, <1>12
    <2>3. \A d \in checks' : d.n # updates'.n /\ (d.n < updates'.n => d.n \in updates'.air)
      BY <1>1, <1>9, <2>1
    <2>4. \A a \in landed' : a.n <= updates'.n
      BY <1>2, <1>3, <1>8, <1>9, <2>1, <2>2
    <2>5. \A a \in landed' : a.look > updates'.look => a.n \in updates'.air
      BY <1>2, <1>9, <2>1, <2>2
    <2> QED
      BY <1>7, <1>10, <2>3, <2>4, <2>5 DEF UpdateInv, ChecksKnow, NewerAnswerStays
  <1> QED
    BY <1>11, <1>12

LEMMA CheckFailsKeeps ==
  ASSUME UpdateInv, NEW c \in checks, CheckFails(c)
  PROVE  UpdateInv'
  <1>1. /\ updates' = updates /\ landed' = landed /\ hub' = hub /\ asked' = asked /\ install' = install
        /\ machine' = machine /\ checks' = checks \ {c}
    BY DEF CheckFails
  <1>2. UTypeOK'
    <2>1. UpdateStores' = UpdateStores /\ UpdateChecks' = UpdateChecks /\ UpdateLanded' = UpdateLanded
          /\ CheckButtons' = CheckButtons
      BY <1>1 DEF UpdateStores, UpdateChecks, UpdateLanded, CheckButtons
    <2>2. button' \in CheckButtons
      BY CheckEnds DEF UpdateInv
    <2> QED
      BY <1>1, <2>1, <2>2, UpdateTyped, UpdateTypedNext DEF UpdateInv
  <1> QED
    BY <1>1, <1>2 DEF UpdateInv, ChecksKnow, NewerAnswerStays

LEMMA InstallKeeps ==
  ASSUME UpdateInv,
         \/ Rested \/ StartUpdate \/ ApplyAnswered \/ Tick \/ TickLost \/ Stall \/ ProbeGivesUp \/ MachineStep
  PROVE  UpdateInv'
  <1>0. /\ updates \in UpdateStores /\ checks \subseteq UpdateChecks /\ button \in CheckButtons /\ hub \in Hubs
        /\ install \in Installs /\ machine \in Machines /\ asked \in Nat /\ landed \subseteq UpdateLanded
    BY UpdateTyped DEF UpdateInv
  <1>1. asked' = asked /\ checks' = checks /\ landed' = landed
    BY DEF Rested, StartUpdate, ApplyAnswered, Tick, TickLost, Stall, ProbeGivesUp, MachineStep
  <1>2. hub' \in Hubs /\ hub'.looks = hub.looks
    <2>1. CASE MachineStep
      <3>1. \/ hub' = hub
            \/ hub' = [hub EXCEPT !.memory = FALSE, !.forced = FALSE]
        BY <2>1 DEF MachineStep
      <3> QED
        BY <1>0, <3>1 DEF Hubs
    <2> QED
      BY <1>0, <2>1 DEF Rested, StartUpdate, ApplyAnswered, Tick, TickLost, Stall, ProbeGivesUp
  <1>3. \/ updates' = updates
        \/ \E p \in UpdatePhases : updates' = [updates EXCEPT !.phase = p]
    <2>1. CASE Rested \/ MachineStep
      BY <2>1 DEF Rested, MachineStep
    <2>2. CASE StartUpdate
      BY <2>2 DEF StartUpdate, UpdatePhases
    <2>3. CASE ApplyAnswered
      BY <2>3 DEF ApplyAnswered, UpdatePhases, Fail
    <2>4. CASE Tick \/ TickLost
      BY <2>4 DEF Tick, TickLost, UpdatePhases, Fail, Restarting
    <2>5. CASE Stall \/ ProbeGivesUp
      BY <2>5 DEF Stall, ProbeGivesUp, UpdatePhases, Fail
    <2> QED
      BY <2>1, <2>2, <2>3, <2>4, <2>5
  <1>4. updates' \in UpdateStores /\ updates'.n = updates.n /\ updates'.look = updates.look
        /\ updates'.air = updates.air
    <2>1. ASSUME NEW p \in UpdatePhases, updates' = [updates EXCEPT !.phase = p]
          PROVE  updates' \in UpdateStores /\ updates'.n = updates.n /\ updates'.look = updates.look
                 /\ updates'.air = updates.air
      <3>1. updates \in UpdateStores
        BY <1>0
      <3> QED
        BY <2>1, <3>1, PhaseFits
    <2>2. CASE updates' = updates
      BY <1>0, <2>2
    <2> QED
      BY <1>3, <2>1, <2>2
  <1>5. button' \in CheckButtons
    <2>1. CASE Rested
      BY <1>0, <2>1 DEF Rested, CheckButtons
    <2> QED
      BY <1>0, <2>1 DEF StartUpdate, ApplyAnswered, Tick, TickLost, Stall, ProbeGivesUp, MachineStep
  <1>6. install' \in Installs
    BY <1>0 DEF Installs, Rested, StartUpdate, ApplyAnswered, Tick, TickLost, Stall, ProbeGivesUp, MachineStep,
                Fail, Restarting
  <1>7. machine' \in Machines
    <2>1. CASE ApplyAnswered
      BY <1>0, <2>1 DEF ApplyAnswered, Machines
    <2>2. CASE MachineStep
      BY <1>0, <2>2 DEF MachineStep, Machines
    <2> QED
      BY <1>0, <2>1, <2>2 DEF Rested, StartUpdate, Tick, TickLost, Stall, ProbeGivesUp
  <1>8. UTypeOK'
    <2>1. UpdateStores' = UpdateStores /\ UpdateChecks' = UpdateChecks /\ UpdateLanded' = UpdateLanded
          /\ CheckButtons' = CheckButtons
      BY <1>1, <1>2 DEF UpdateStores, UpdateChecks, UpdateLanded, CheckButtons
    <2> QED
      BY <1>0, <1>1, <1>2, <1>4, <1>5, <1>6, <1>7, <2>1, UpdateTypedNext
  <1> QED
    BY <1>1, <1>2, <1>4, <1>8, SameAnswersKeep DEF SameAnswers

\* The page reloads: no check and no answer is left.
LEMMA UpdateReloads ==
  ASSUME UpdateInv, ProbeSees
  PROVE  UpdateInv'
  <1>0. hub \in Hubs /\ install \in Installs /\ machine \in Machines /\ asked \in Nat
    BY UpdateTyped DEF UpdateInv
  <1>1. /\ updates' = [n |-> asked, look |-> 0, air |-> {}, new |-> FALSE, phase |-> "idle"]
        /\ checks' = {} /\ landed' = {} /\ button' = [state |-> "idle", n |-> 0] /\ install' = "no"
        /\ hub' = hub /\ asked' = asked /\ machine' = machine
    BY DEF ProbeSees
  <1>2. asked' \in 0 .. asked' /\ 0 \in 0 .. asked' /\ 0 \in 0 .. hub'.looks
    BY <1>0, <1>1 DEF Hubs
  <1>3. updates' \in UpdateStores' /\ button' \in CheckButtons'
    BY <1>1, <1>2 DEF UpdateStores, CheckButtons, UpdatePhases
  <1>4. UTypeOK'
    BY <1>0, <1>1, <1>3, UpdateTypedNext DEF Installs
  <1> QED
    BY <1>1, <1>4 DEF UpdateInv, ChecksKnow, NewerAnswerStays

LEMMA UpdateMoves ==
  ASSUME UpdateInv, [UNext]_uvars
  PROVE  UpdateInv'
  <1>1. CASE Recheck \/ PressCheck
    BY <1>1, SendCheckKeeps
  <1>2. ASSUME NEW c \in checks, UpdateCheckLands(c)
        PROVE  UpdateInv'
    BY <1>2, LandsKeeps
  <1>3. ASSUME NEW c \in checks, CheckFails(c)
        PROVE  UpdateInv'
    BY <1>3, CheckFailsKeeps
  <1>4. ASSUME NEW c \in checks, NEW fresh \in BOOLEAN, ServeCheck(c, fresh)
        PROVE  UpdateInv'
    BY <1>4, ServeCheckKeeps
  <1>5. CASE \/ Rested \/ StartUpdate \/ ApplyAnswered \/ Tick \/ TickLost \/ Stall
             \/ ProbeGivesUp \/ MachineStep
    BY <1>5, InstallKeeps
  <1>6. CASE ProbeSees
    BY <1>6, UpdateReloads
  <1>7. CASE UNCHANGED uvars
    BY <1>7 DEF uvars, UpdateInv, UTypeOK, ChecksKnow, NewerAnswerStays
  <1> QED
    BY <1>1, <1>2, <1>3, <1>4, <1>5, <1>6, <1>7 DEF UNext

(* However many checks are in the air, and however the server mixes its     *)
(* memory and its looks, what is on screen comes from a look no older than  *)
(* that of any landed answer, unless that one was in the air when the check *)
(* on screen was sent (updateState.js 66-71, update.go 208-232).            *)
THEOREM NewerAnswerAlwaysStays == USpec => []NewerAnswerStays
  <1>1. UInit => UpdateInv
    BY UpdateStarts
  <1>2. UpdateInv /\ [UNext]_uvars => UpdateInv'
    BY UpdateMoves
  <1>3. UpdateInv => NewerAnswerStays
    BY DEF UpdateInv
  <1> QED
    BY <1>1, <1>2, <1>3, PTL DEF USpec

-----------------------------------------------------------------------------
(* The frame of the page.                                                  *)

FrameRecs ==
    [tab : Tabs, menu : BOOLEAN, settings : BOOLEAN, help : BOOLEAN, setup : BOOLEAN, brand : BOOLEAN,
     palette : BOOLEAN, sheetWasOpen : BOOLEAN, helpWasOpen : BOOLEAN, opener : Places,
     brandOpener : {"body", "page", "setup"}, saving : BOOLEAN,
     sheetFile : {"no", "coming", "here", "failed"}, setupFile : {"no", "here"},
     tabFile : {"coming", "here", "failed"}, stamp : {"none", "recent", "old"}, gone : BOOLEAN,
     focus : Places]

\* What is focused is drawn, or is the body.
Seated(s) == s.focus = "body" \/ Drawn(s, s.focus)

\* Settings and the control help are never open together, and App's effects
\* have seen each that is.
DialogsFit(s) ==
    /\ ~(s.settings /\ s.help)
    /\ s.settings => s.sheetWasOpen
    /\ s.help => s.helpWasOpen

FrameInv == f \in FrameRecs /\ Seated(f) /\ DialogsFit(f)

\* What decides what is drawn.
Alike(s, r) ==
    /\ s.menu = r.menu /\ s.settings = r.settings /\ s.help = r.help /\ s.setup = r.setup
    /\ s.brand = r.brand /\ s.palette = r.palette /\ s.sheetFile = r.sheetFile /\ s.setupFile = r.setupFile
    /\ s.sheetWasOpen = r.sheetWasOpen /\ s.helpWasOpen = r.helpWasOpen

LEMMA AlikeDraws ==
  ASSUME NEW s, NEW r, Alike(s, r)
  PROVE  /\ \A x : Drawn(s, x) <=> Drawn(r, x)
         /\ DialogsFit(s) <=> DialogsFit(r)
  BY DEF Alike, Drawn, Inert, DialogsFit

LEMMA FocusFits ==
  ASSUME NEW s \in FrameRecs, NEW x \in Places
  PROVE  LET r == [s EXCEPT !.focus = x] IN r \in FrameRecs /\ Alike(s, r) /\ r.focus = x
  BY DEF FrameRecs, Alike

LEMMA FocusIs ==
  ASSUME NEW s \in FrameRecs, NEW x \in Places
  PROVE  LET r == Focus(s, x)
         IN  /\ r \in FrameRecs /\ Alike(s, r)
             /\ r.focus = IF x # "body" /\ Drawn(s, x) THEN x ELSE s.focus
             /\ Seated(s) => Seated(r)
             /\ x = "body" \/ ~Drawn(s, x) => r = s
  <1> DEFINE r == Focus(s, x)
  <1>1. CASE x # "body" /\ Drawn(s, x)
    <2>1. r = [s EXCEPT !.focus = x]
      BY <1>1 DEF Focus
    <2>2. r \in FrameRecs /\ Alike(s, r) /\ r.focus = x
      BY <2>1, FocusFits
    <2>3. Drawn(r, x)
      BY <1>1, <2>2, AlikeDraws
    <2> QED
      BY <1>1, <2>2, <2>3 DEF Seated
  <1>2. CASE ~(x # "body" /\ Drawn(s, x))
    <2>1. r = s
      BY <1>2 DEF Focus
    <2> QED
      BY <1>2, <2>1 DEF Alike
  <1> QED
    BY <1>1, <1>2

LEMMA CommitIs ==
  ASSUME NEW s \in FrameRecs
  PROVE  LET r == Commit(s)
         IN  r \in FrameRecs /\ Alike(s, r) /\ Seated(r) /\ (Drawn(s, s.focus) => r = s)
  <1> DEFINE r == Commit(s)
  <1>1. CASE Drawn(s, s.focus)
    <2>1. r = s
      BY <1>1 DEF Commit
    <2> QED
      BY <1>1, <2>1 DEF Alike, Seated
  <1>2. CASE ~Drawn(s, s.focus)
    <2>1. r = [s EXCEPT !.focus = "body"]
      BY <1>2 DEF Commit
    <2>2. r \in FrameRecs /\ Alike(s, r) /\ r.focus = "body"
      BY <2>1, FocusFits DEF Places
    <2> QED
      BY <1>2, <2>2 DEF Seated
  <1> QED
    BY <1>1, <1>2

\* A mounting dialog takes the focus; no other thing does.
LEMMA MountFocusIs ==
  ASSUME NEW s \in FrameRecs
  PROVE  LET r == MountFocus(s)
         IN  /\ r \in FrameRecs /\ Alike(s, r) /\ (Seated(s) => Seated(r))
             /\ \/ r.focus = s.focus
                \/ r.focus \in {"sheet", "help", "setup", "brand"} /\ Drawn(s, r.focus) /\ ~Drawn(f, r.focus)
  <1> DEFINE r == MountFocus(s)
             news == {x \in {"sheet", "help", "setup", "brand"} : Drawn(s, x) /\ ~Drawn(f, x)}
  <1>1. CASE news = {}
    <2>1. r = s
      BY <1>1 DEF MountFocus
    <2> QED
      BY <2>1 DEF Alike
  <1>2. CASE news # {}
    <2> DEFINE x == CHOOSE y \in news : TRUE
    <2>1. x \in news
      BY <1>2
    <2>2. r = Focus(s, x)
      BY <1>2 DEF MountFocus
    <2>3. x \in {"sheet", "help", "setup", "brand"} /\ Drawn(s, x) /\ ~Drawn(f, x)
      BY <2>1
    <2> HIDE DEF x, r
    <2>4. x \in Places /\ x # "body"
      BY <2>3 DEF Places
    <2>5. /\ r \in FrameRecs /\ Alike(s, r) /\ (Seated(s) => Seated(r))
          /\ r.focus = IF x # "body" /\ Drawn(s, x) THEN x ELSE s.focus
      BY <2>2, <2>4, FocusIs
    <2> QED
      BY <2>3, <2>4, <2>5 DEF r
  <1> QED
    BY <1>1, <1>2

\* What App's two effects make of the marks and the focus.
LooksAs(s, r) ==
    /\ s.menu = r.menu /\ s.settings = r.settings /\ s.help = r.help /\ s.setup = r.setup
    /\ s.brand = r.brand /\ s.palette = r.palette /\ s.sheetFile = r.sheetFile /\ s.setupFile = r.setupFile

LEMMA LooksAsDraws ==
  ASSUME NEW s, NEW r, LooksAs(s, r)
  PROVE  \A x : Drawn(s, x) <=> Drawn(r, x)
  BY DEF LooksAs, Drawn, Inert

LEMMA SheetMarkFits ==
  ASSUME NEW s \in FrameRecs, NEW b \in BOOLEAN
  PROVE  LET r == [s EXCEPT !.sheetWasOpen = b]
         IN  /\ r \in FrameRecs /\ LooksAs(s, r) /\ r.focus = s.focus /\ r.sheetWasOpen = b
             /\ r.helpWasOpen = s.helpWasOpen
  BY DEF FrameRecs, LooksAs

LEMMA HelpMarkFits ==
  ASSUME NEW s \in FrameRecs, NEW b \in BOOLEAN
  PROVE  LET r == [s EXCEPT !.helpWasOpen = b]
         IN  /\ r \in FrameRecs /\ LooksAs(s, r) /\ r.focus = s.focus /\ r.helpWasOpen = b
             /\ r.sheetWasOpen = s.sheetWasOpen
  BY DEF FrameRecs, LooksAs

LEMMA SheetEffectIs ==
  ASSUME NEW s \in FrameRecs, Seated(s)
  PROVE  LET r == SheetEffect(s)
         IN  /\ r \in FrameRecs /\ LooksAs(s, r) /\ Seated(r) /\ r.helpWasOpen = s.helpWasOpen
             /\ s.settings => r.sheetWasOpen
             /\ r.focus = IF ~s.settings /\ s.sheetWasOpen /\ ~Inert(s) THEN "settingsBtn" ELSE s.focus
  <1> DEFINE r == SheetEffect(s)
  <1>0. "settingsBtn" \in Places /\ TRUE \in BOOLEAN /\ FALSE \in BOOLEAN
    BY DEF Places, InPage
  <1>1. CASE s.settings
    <2>1. r = [s EXCEPT !.sheetWasOpen = TRUE]
      BY <1>1 DEF SheetEffect
    <2>2. /\ r \in FrameRecs /\ LooksAs(s, r) /\ r.focus = s.focus /\ r.sheetWasOpen = TRUE
          /\ r.helpWasOpen = s.helpWasOpen
      BY <1>0, <2>1, SheetMarkFits
    <2>3. Seated(r)
      BY <2>2, LooksAsDraws DEF Seated
    <2> QED
      BY <1>1, <2>2, <2>3
  <1>2. CASE ~s.settings /\ s.sheetWasOpen
    <2> DEFINE t == [s EXCEPT !.sheetWasOpen = FALSE]
    <2>1. r = Focus(t, "settingsBtn")
      BY <1>2 DEF SheetEffect
    <2>2. /\ t \in FrameRecs /\ LooksAs(s, t) /\ t.focus = s.focus /\ t.helpWasOpen = s.helpWasOpen
      BY <1>0, SheetMarkFits
    <2> HIDE DEF t, r
    <2>3. Seated(t)
      BY <2>2, LooksAsDraws DEF Seated
    <2>4. Drawn(t, "settingsBtn") <=> ~Inert(s)
      BY <2>2 DEF Drawn, Inert, InPage, LooksAs
    <2>5. /\ r \in FrameRecs /\ Alike(t, r) /\ Seated(r)
          /\ r.focus = IF "settingsBtn" # "body" /\ Drawn(t, "settingsBtn") THEN "settingsBtn" ELSE t.focus
      BY <1>0, <2>1, <2>2, <2>3, FocusIs
    <2>6. LooksAs(s, r) /\ r.helpWasOpen = s.helpWasOpen
      BY <2>2, <2>5 DEF LooksAs, Alike
    <2> QED
      BY <1>2, <2>2, <2>4, <2>5, <2>6 DEF r
  <1>3. CASE ~s.settings /\ ~s.sheetWasOpen
    <2>1. r = s
      BY <1>3 DEF SheetEffect
    <2> QED
      BY <1>3, <2>1 DEF LooksAs
  <1> QED
    BY <1>1, <1>2, <1>3

LEMMA HelpEffectIs ==
  ASSUME NEW s \in FrameRecs, Seated(s)
  PROVE  LET r == HelpEffect(s)
         IN  /\ r \in FrameRecs /\ LooksAs(s, r) /\ Seated(r) /\ r.sheetWasOpen = s.sheetWasOpen
             /\ s.help => r.helpWasOpen
             /\ r.focus = IF ~s.help /\ s.helpWasOpen /\ ~Inert(s) THEN "settingsBtn" ELSE s.focus
  <1> DEFINE r == HelpEffect(s)
  <1>0. "settingsBtn" \in Places /\ TRUE \in BOOLEAN /\ FALSE \in BOOLEAN
    BY DEF Places, InPage
  <1>1. CASE s.help
    <2>1. r = [s EXCEPT !.helpWasOpen = TRUE]
      BY <1>1 DEF HelpEffect
    <2>2. /\ r \in FrameRecs /\ LooksAs(s, r) /\ r.focus = s.focus /\ r.helpWasOpen = TRUE
          /\ r.sheetWasOpen = s.sheetWasOpen
      BY <1>0, <2>1, HelpMarkFits
    <2>3. Seated(r)
      BY <2>2, LooksAsDraws DEF Seated
    <2> QED
      BY <1>1, <2>2, <2>3
  <1>2. CASE ~s.help /\ s.helpWasOpen
    <2> DEFINE t == [s EXCEPT !.helpWasOpen = FALSE]
    <2>1. r = Focus(t, "settingsBtn")
      BY <1>2 DEF HelpEffect
    <2>2. /\ t \in FrameRecs /\ LooksAs(s, t) /\ t.focus = s.focus /\ t.sheetWasOpen = s.sheetWasOpen
      BY <1>0, HelpMarkFits
    <2> HIDE DEF t, r
    <2>3. Seated(t)
      BY <2>2, LooksAsDraws DEF Seated
    <2>4. Drawn(t, "settingsBtn") <=> ~Inert(s)
      BY <2>2 DEF Drawn, Inert, InPage, LooksAs
    <2>5. /\ r \in FrameRecs /\ Alike(t, r) /\ Seated(r)
          /\ r.focus = IF "settingsBtn" # "body" /\ Drawn(t, "settingsBtn") THEN "settingsBtn" ELSE t.focus
      BY <1>0, <2>1, <2>2, <2>3, FocusIs
    <2>6. LooksAs(s, r) /\ r.sheetWasOpen = s.sheetWasOpen
      BY <2>2, <2>5 DEF LooksAs, Alike
    <2> QED
      BY <1>2, <2>2, <2>4, <2>5, <2>6 DEF r
  <1>3. CASE ~s.help /\ ~s.helpWasOpen
    <2>1. r = s
      BY <1>3 DEF HelpEffect
    <2> QED
      BY <1>3, <2>1 DEF LooksAs
  <1> QED
    BY <1>1, <1>2, <1>3

\* A render of the frame: its dialogs keep the focus, or give it back.
LEMMA RenderedIs ==
  ASSUME FrameInv, NEW s \in FrameRecs, ~(s.settings /\ s.help), Rendered(s)
  PROVE  /\ FrameInv' /\ LooksAs(s, f')
         /\ \A d \in {"sheet", "help"} :
                Drawn(f, d) /\ Drawn(s, d) /\ s.focus \in {d, "brand", "setup"} /\ Drawn(s, s.focus)
                => f'.focus \in {d, "brand", "setup"}
         /\ ~s.settings /\ ~s.help /\ (s.sheetWasOpen \/ s.helpWasOpen) => f'.focus = "settingsBtn"
  <1> DEFINE a == Commit(s)
             b == MountFocus(a)
             c == SheetEffect(b)
             e == HelpEffect(c)
  <1>0. f' = e
    BY DEF Rendered
  <1>1. a \in FrameRecs /\ Alike(s, a) /\ Seated(a) /\ (Drawn(s, s.focus) => a = s)
    BY CommitIs
  <1> HIDE DEF a
  <1>2. /\ b \in FrameRecs /\ Alike(a, b) /\ (Seated(a) => Seated(b))
        /\ \/ b.focus = a.focus
           \/ b.focus \in {"sheet", "help", "setup", "brand"} /\ Drawn(a, b.focus) /\ ~Drawn(f, b.focus)
    BY <1>1, MountFocusIs
  <1> HIDE DEF b
  <1>3. /\ c \in FrameRecs /\ LooksAs(b, c) /\ Seated(c) /\ c.helpWasOpen = b.helpWasOpen
        /\ b.settings => c.sheetWasOpen
        /\ c.focus = IF ~b.settings /\ b.sheetWasOpen /\ ~Inert(b) THEN "settingsBtn" ELSE b.focus
    BY <1>1, <1>2, SheetEffectIs
  <1> HIDE DEF c
  <1>4. /\ e \in FrameRecs /\ LooksAs(c, e) /\ Seated(e) /\ e.sheetWasOpen = c.sheetWasOpen
        /\ c.help => e.helpWasOpen
        /\ e.focus = IF ~c.help /\ c.helpWasOpen /\ ~Inert(c) THEN "settingsBtn" ELSE c.focus
    BY <1>3, HelpEffectIs
  <1> HIDE DEF e
  <1>5. Alike(s, b) /\ LooksAs(s, c) /\ LooksAs(s, e)
    BY <1>1, <1>2, <1>3, <1>4 DEF Alike, LooksAs
  <1>6. DialogsFit(e)
    BY <1>3, <1>4, <1>5 DEF DialogsFit, LooksAs, Alike
  <1>7. FrameInv' /\ LooksAs(s, f')
    BY <1>0, <1>4, <1>5, <1>6 DEF FrameInv, Seated, DialogsFit, Drawn, Inert, LooksAs
  <1>8. ASSUME NEW d \in {"sheet", "help"}, Drawn(f, d), Drawn(s, d), s.focus \in {d, "brand", "setup"},
               Drawn(s, s.focus)
        PROVE  f'.focus \in {d, "brand", "setup"}
    <2>1. Inert(b) /\ Inert(c)
      BY <1>5, <1>8 DEF Drawn, InPage, Inert, Alike, LooksAs
    <2>2. e.focus = b.focus
      BY <1>3, <1>4, <2>1
    <2>3. a = s
      BY <1>1, <1>8
    <2>4. CASE b.focus = a.focus
      BY <1>0, <1>8, <2>2, <2>3, <2>4
    <2>5. CASE b.focus \in {"sheet", "help", "setup", "brand"} /\ Drawn(s, b.focus) /\ ~Drawn(f, b.focus)
      <3>1. b.focus # d
        BY <1>8, <2>5
      <3>2. ~(Drawn(s, "sheet") /\ Drawn(s, "help"))
        BY DEF Drawn, InPage
      <3> QED
        BY <1>0, <1>8, <2>2, <2>5, <3>1, <3>2
    <2> QED
      BY <1>2, <2>3, <2>4, <2>5
  <1>9. ASSUME ~s.settings, ~s.help, s.sheetWasOpen \/ s.helpWasOpen
        PROVE  f'.focus = "settingsBtn"
    <2>1. ~Inert(b) /\ ~Inert(c) /\ ~b.settings /\ ~c.help
      BY <1>5, <1>9 DEF Inert, Alike, LooksAs
    <2>2. b.sheetWasOpen = s.sheetWasOpen /\ c.helpWasOpen = s.helpWasOpen
      BY <1>3, <1>5 DEF Alike
    <2> QED
      BY <1>0, <1>3, <1>4, <1>9, <2>1, <2>2
  <1> QED
    BY <1>7, <1>8, <1>9

\* What FocusFollowsTheDialog asks of a step.
FocusMoves ==
    /\ \A d \in {"sheet", "help"} :
           f.focus = d /\ Drawn(f, d) /\ Drawn(f, d)' => f'.focus \in {d, "brand", "setup"}
    /\ (f.settings /\ ~f'.settings /\ ~f'.help /\ ~f'.setup) \/ (f.help /\ ~f'.help)
       => f'.focus = "settingsBtn" \/ f'.tabFile = "coming"

\* A step that opens and closes neither dialog, and takes no focus from them.
LEMMA QuietStep ==
  ASSUME FrameInv, f' \in FrameRecs, Seated(f'), f'.settings = f.settings, f'.help = f.help,
         f'.sheetWasOpen = f.sheetWasOpen, f'.helpWasOpen = f.helpWasOpen,
         Inert(f) /\ f.focus \in {"sheet", "help"}
             => f'.focus = f.focus \/ f'.focus \in {"brand", "setup"} \/ ~Drawn(f', f.focus)
  PROVE  FrameInv' /\ FocusMoves
  <1>1. FrameInv'
    BY DEF FrameInv, Seated, DialogsFit, Drawn, Inert
  <1>2. ASSUME NEW d \in {"sheet", "help"}, f.focus = d, Drawn(f, d), Drawn(f, d)'
        PROVE  f'.focus \in {d, "brand", "setup"}
    <2>1. Inert(f)
      BY <1>2 DEF Drawn, InPage, Inert
    <2>2. Drawn(f', d)
      BY <1>2 DEF Drawn, Inert
    <2> QED
      BY <1>2, <2>1, <2>2
  <1> QED
    BY <1>1, <1>2 DEF FocusMoves

\* A place of the page behind a dialog that is open is out of reach.
LEMMA BehindIsOut ==
  ASSUME NEW s, Inert(s), NEW x \in InPage
  PROVE  ~Drawn(s, x)
  BY DEF Drawn, InPage

LEMMA SeatedDraws == FrameInv => Drawn(f, f.focus)
  BY DEF FrameInv, Seated, Drawn, InPage

\* The dialogs and their marks are as they were.
Calm(s) ==
    /\ s \in FrameRecs /\ s.settings = f.settings /\ s.help = f.help
    /\ s.sheetWasOpen = f.sheetWasOpen /\ s.helpWasOpen = f.helpWasOpen

\* And, behind a dialog, nothing more and nothing less is drawn.
Still(s) == Calm(s) /\ s.focus = f.focus /\ (Inert(f) => \A x : Drawn(s, x) <=> Drawn(f, x))

LEMMA CalmIsInert == \A s : Calm(s) => (Inert(s) <=> Inert(f))
  BY DEF Calm, Inert

LEMMA CalmCommit ==
  ASSUME NEW s, Calm(s)
  PROVE  Calm(Commit(s)) /\ Seated(Commit(s)) /\ Alike(s, Commit(s)) /\ (Drawn(s, s.focus) => Commit(s) = s)
  <1>1. s \in FrameRecs
    BY DEF Calm
  <1> DEFINE r == Commit(s)
  <1>2. r \in FrameRecs /\ Alike(s, r) /\ Seated(r) /\ (Drawn(s, s.focus) => r = s)
    BY <1>1, CommitIs
  <1> HIDE DEF r
  <1>3. Calm(r)
    BY <1>2 DEF Calm, Alike
  <1> QED
    BY <1>2, <1>3 DEF r

LEMMA CalmFocus ==
  ASSUME NEW s, Calm(s), NEW x \in Places
  PROVE  /\ Calm(Focus(s, x)) /\ (Seated(s) => Seated(Focus(s, x)))
         /\ Focus(s, x).focus = IF x # "body" /\ Drawn(s, x) THEN x ELSE s.focus
         /\ x = "body" \/ ~Drawn(s, x) => Focus(s, x) = s
  <1>1. s \in FrameRecs
    BY DEF Calm
  <1> DEFINE r == Focus(s, x)
  <1>2. /\ r \in FrameRecs /\ Alike(s, r) /\ (Seated(s) => Seated(r))
        /\ r.focus = IF x # "body" /\ Drawn(s, x) THEN x ELSE s.focus
        /\ x = "body" \/ ~Drawn(s, x) => r = s
    BY <1>1, FocusIs
  <1> HIDE DEF r
  <1>3. Calm(r)
    BY <1>2 DEF Calm, Alike
  <1> QED
    BY <1>2, <1>3 DEF r

\* A step that opens and closes neither dialog, and takes no focus from them.
LEMMA CalmStep ==
  ASSUME FrameInv, Calm(f'), Seated(f'),
         Inert(f) /\ f.focus \in {"sheet", "help"}
             => f'.focus = f.focus \/ f'.focus \in {"brand", "setup"} \/ ~Drawn(f', f.focus)
  PROVE  FrameInv' /\ FocusMoves
  BY QuietStep DEF Calm

LEMMA GoToIs ==
  ASSUME NEW s \in FrameRecs, NEW t \in Tabs
  PROVE  LET r == GoTo(s, t)
         IN  /\ r \in FrameRecs /\ r.settings = s.settings /\ r.help = s.help /\ r.focus = s.focus
             /\ r.sheetWasOpen = s.sheetWasOpen /\ r.helpWasOpen = s.helpWasOpen
             /\ Inert(s) => \A x : Drawn(r, x) <=> Drawn(s, x)
  <1> DEFINE u == [s EXCEPT !.tab = t, !.menu = FALSE, !.tabFile = "coming"]
  <1>1. u \in FrameRecs
    BY DEF FrameRecs
  <1>2. /\ u.settings = s.settings /\ u.help = s.help /\ u.focus = s.focus /\ u.menu = FALSE
        /\ u.sheetWasOpen = s.sheetWasOpen /\ u.helpWasOpen = s.helpWasOpen
        /\ u.setup = s.setup /\ u.brand = s.brand /\ u.palette = s.palette
        /\ u.sheetFile = s.sheetFile /\ u.setupFile = s.setupFile
    BY DEF FrameRecs
  <1> HIDE DEF u
  <1>3. Inert(s) => \A x : Drawn(u, x) <=> Drawn(s, x)
    BY <1>2 DEF Drawn, Inert, InPage
  <1>4. GoTo(s, t) = IF t = s.tab THEN s ELSE u
    BY DEF GoTo, u
  <1> QED
    BY <1>1, <1>2, <1>3, <1>4

LEMMA CalmGoTo ==
  ASSUME NEW s, Calm(s), NEW t \in Tabs
  PROVE  /\ Calm(GoTo(s, t)) /\ GoTo(s, t).focus = s.focus
         /\ Inert(f) => \A x : Drawn(GoTo(s, t), x) <=> Drawn(s, x)
  <1>1. s \in FrameRecs /\ (Inert(s) <=> Inert(f))
    BY CalmIsInert DEF Calm
  <1> DEFINE r == GoTo(s, t)
  <1>2. /\ r \in FrameRecs /\ r.settings = s.settings /\ r.help = s.help /\ r.focus = s.focus
        /\ r.sheetWasOpen = s.sheetWasOpen /\ r.helpWasOpen = s.helpWasOpen
        /\ Inert(s) => \A x : Drawn(r, x) <=> Drawn(s, x)
    BY <1>1, GoToIs
  <1> HIDE DEF r
  <1>3. Calm(r)
    BY <1>2 DEF Calm
  <1> QED
    BY <1>1, <1>2, <1>3 DEF r

LEMMA PlacesAre ==
  /\ InPage \subseteq Places /\ "body" \in Places /\ "setup" \in Places /\ "page" \in InPage
  /\ "main" \in InPage /\ "menuBtn" \in InPage /\ "item" \in InPage /\ "palette" \in InPage
  /\ "settingsBtn" \in InPage /\ "body" \notin InPage
  BY DEF Places, InPage

LEMMA HashChangeKeeps ==
  ASSUME FrameInv, NEW t \in Tabs, HashChange(t)
  PROVE  FrameInv' /\ FocusMoves
  <1> DEFINE g == GoTo(f, t)
             c == Commit(g)
             e == Focus(c, "main")
  <1>0. f' = e /\ Calm(f)
    BY DEF HashChange, FrameInv, Calm
  <1>1. Calm(g) /\ g.focus = f.focus /\ (Inert(f) => \A x : Drawn(g, x) <=> Drawn(f, x))
    BY <1>0, CalmGoTo
  <1> HIDE DEF g
  <1>2. Calm(c) /\ Seated(c) /\ (Drawn(g, g.focus) => c = g)
    BY <1>1, CalmCommit
  <1> HIDE DEF c
  <1>3. Calm(e) /\ (Seated(c) => Seated(e)) /\ ("main" = "body" \/ ~Drawn(c, "main") => e = c)
    BY <1>2, PlacesAre, CalmFocus
  <1> HIDE DEF e
  <1>4. ASSUME Inert(f) PROVE f'.focus = f.focus
    <2>1. Inert(c)
      BY <1>2, <1>4, CalmIsInert
    <2>2. e = c
      BY <1>3, <2>1, PlacesAre, BehindIsOut
    <2>3. Drawn(g, g.focus)
      BY <1>1, <1>4, SeatedDraws
    <2> QED
      BY <1>0, <1>1, <1>2, <2>2, <2>3
  <1> QED
    BY <1>0, <1>2, <1>3, <1>4, CalmStep

\* The menu closed, or opened, with the focus at a place.
LEMMA MenuFits ==
  ASSUME FrameInv, NEW b \in BOOLEAN, NEW x \in Places
  PROVE  /\ LET u == [f EXCEPT !.menu = b, !.focus = x]
            IN  Calm(u) /\ u.focus = x /\ u.menu = b
         /\ LET u == [f EXCEPT !.menu = b] IN Still(u)
  <1>0. f \in FrameRecs
    BY DEF FrameInv
  <1> DEFINE u == [f EXCEPT !.menu = b, !.focus = x]
             w == [f EXCEPT !.menu = b]
  <1>1. u \in FrameRecs
    BY <1>0 DEF FrameRecs
  <1>2. /\ u.focus = x /\ u.menu = b /\ u.settings = f.settings /\ u.help = f.help
        /\ u.sheetWasOpen = f.sheetWasOpen /\ u.helpWasOpen = f.helpWasOpen
    BY <1>0 DEF FrameRecs
  <1>3. w \in FrameRecs
    BY <1>0 DEF FrameRecs
  <1>4. /\ w.settings = f.settings /\ w.help = f.help /\ w.focus = f.focus
        /\ w.sheetWasOpen = f.sheetWasOpen /\ w.helpWasOpen = f.helpWasOpen
        /\ w.setup = f.setup /\ w.brand = f.brand /\ w.palette = f.palette
        /\ w.sheetFile = f.sheetFile /\ w.setupFile = f.setupFile
    BY <1>0 DEF FrameRecs
  <1> HIDE DEF u, w
  <1>5. Inert(f) => \A y : Drawn(w, y) <=> Drawn(f, y)
    BY <1>4 DEF Drawn, Inert, InPage
  <1> QED
    BY <1>1, <1>2, <1>3, <1>4, <1>5 DEF Calm, Still, u, w

LEMMA MenuKeeps ==
  ASSUME FrameInv, ToggleMenu \/ (\E t \in Tabs : PickItem(t)) \/ LeaveMenu
  PROVE  FrameInv' /\ FocusMoves
  <1>1. CASE ToggleMenu
    <2>0. ~Inert(f)
      BY <1>1 DEF ToggleMenu, Uncovered
    <2>1. CASE f.menu
      <3> DEFINE u == [f EXCEPT !.menu = FALSE, !.focus = "menuBtn"]
      <3>1. Calm(u)
        BY PlacesAre, MenuFits
      <3>2. f' = Commit(u)
        BY <1>1, <2>1 DEF ToggleMenu
      <3> HIDE DEF u
      <3>3. Calm(f') /\ Seated(f')
        BY <3>1, <3>2, CalmCommit
      <3> QED
        BY <2>0, <3>3, CalmStep
    <2>2. CASE ~f.menu
      <3> DEFINE u == [f EXCEPT !.menu = TRUE, !.focus = "item"]
      <3>1. Calm(u) /\ u.focus = "item" /\ u.menu = TRUE
        BY PlacesAre, MenuFits
      <3>2. f' = u
        BY <1>1, <2>2 DEF ToggleMenu
      <3> HIDE DEF u
      <3>3. ~Inert(u)
        BY <2>0, <3>1, CalmIsInert
      <3>4. Seated(u)
        BY <3>1, <3>3 DEF Seated, Drawn, InPage
      <3> QED
        BY <2>0, <3>1, <3>2, <3>4, CalmStep
    <2> QED
      BY <2>1, <2>2
  <1>2. ASSUME NEW t \in Tabs, PickItem(t) PROVE FrameInv' /\ FocusMoves
    <2> DEFINE u == [f EXCEPT !.menu = FALSE, !.focus = "item"]
               g == GoTo(u, t)
               c == Commit(g)
    <2>0. ~Inert(f)
      BY <1>2 DEF PickItem, Uncovered
    <2>1. Calm(u)
      BY PlacesAre, MenuFits
    <2>2. f' = IF t = f.tab THEN c ELSE Focus(c, "main")
      BY <1>2 DEF PickItem
    <2> HIDE DEF u
    <2>3. Calm(g)
      BY <2>1, CalmGoTo
    <2> HIDE DEF g
    <2>4. Calm(c) /\ Seated(c)
      BY <2>3, CalmCommit
    <2> HIDE DEF c
    <2>5. Calm(Focus(c, "main")) /\ Seated(Focus(c, "main"))
      BY <2>4, PlacesAre, CalmFocus
    <2> QED
      BY <2>0, <2>2, <2>4, <2>5, CalmStep
  <1>3. CASE LeaveMenu
    <2> DEFINE u == [f EXCEPT !.menu = FALSE]
    <2>1. PICK x \in {"menuBtn", "page"} : f' = Commit(Focus(u, x))
      BY <1>3 DEF LeaveMenu
    <2>2. Still(u) /\ x \in InPage /\ x \in Places /\ x # "body"
      BY PlacesAre, MenuFits
    <2> HIDE DEF u
    <2> DEFINE w == Focus(u, x)
    <2>3. Calm(w) /\ (~Drawn(u, x) => w = u)
      BY <2>2, CalmFocus DEF Still
    <2> HIDE DEF w
    <2>4. Calm(f') /\ Seated(f') /\ (Drawn(w, w.focus) => f' = w)
      BY <2>1, <2>3, CalmCommit DEF w
    <2>5. ASSUME Inert(f) PROVE f'.focus = f.focus
      <3>1. Inert(u)
        BY <2>2, <2>5, CalmIsInert DEF Still
      <3>2. w = u
        BY <2>2, <2>3, <3>1, BehindIsOut
      <3>3. Drawn(u, u.focus) /\ u.focus = f.focus
        BY <2>2, <2>5, SeatedDraws DEF Still
      <3> QED
        BY <2>4, <3>2, <3>3
    <2> QED
      BY <2>4, <2>5, CalmStep
  <1> QED
    BY <1>1, <1>2, <1>3

LEMMA OneFieldFits ==
  ASSUME FrameInv
  PROVE  /\ \A b \in BOOLEAN :
               LET u == [f EXCEPT !.saving = b] IN u \in FrameRecs /\ Alike(f, u) /\ u.focus = f.focus
         /\ \A x \in {"coming", "here", "failed"} :
               LET u == [f EXCEPT !.tabFile = x] IN u \in FrameRecs /\ Alike(f, u) /\ u.focus = f.focus
         /\ LET u == [f EXCEPT !.gone = TRUE] IN u \in FrameRecs /\ Alike(f, u) /\ u.focus = f.focus
         /\ LET u == [f EXCEPT !.stamp = "old"] IN u \in FrameRecs /\ Alike(f, u) /\ u.focus = f.focus
  <1>0. f \in FrameRecs
    BY DEF FrameInv
  <1>1. ASSUME NEW b \in BOOLEAN
        PROVE  LET u == [f EXCEPT !.saving = b] IN u \in FrameRecs /\ Alike(f, u) /\ u.focus = f.focus
    BY <1>0 DEF FrameRecs, Alike
  <1>2. ASSUME NEW x \in {"coming", "here", "failed"}
        PROVE  LET u == [f EXCEPT !.tabFile = x] IN u \in FrameRecs /\ Alike(f, u) /\ u.focus = f.focus
    BY <1>0 DEF FrameRecs, Alike
  <1>3. LET u == [f EXCEPT !.gone = TRUE] IN u \in FrameRecs /\ Alike(f, u) /\ u.focus = f.focus
    BY <1>0 DEF FrameRecs, Alike
  <1>4. LET u == [f EXCEPT !.stamp = "old"] IN u \in FrameRecs /\ Alike(f, u) /\ u.focus = f.focus
    BY <1>0 DEF FrameRecs, Alike
  <1> QED
    BY <1>1, <1>2, <1>3, <1>4

\* A step that changes nothing of what is drawn, nor where the focus is.
LEMMA PlainStep ==
  ASSUME FrameInv, f' \in FrameRecs, Alike(f, f'), f'.focus = f.focus
  PROVE  FrameInv' /\ FocusMoves
  <1>1. Calm(f')
    BY DEF Calm, Alike
  <1>2. Seated(f')
    BY SeatedDraws, AlikeDraws DEF Seated
  <1> QED
    BY <1>1, <1>2, CalmStep

LEMMA PlainKeeps ==
  ASSUME FrameInv, \/ SaveBrand \/ TabArrives \/ FilesGo \/ StampAges
                   \/ TabGone /\ f.stamp = "recent"
  PROVE  FrameInv' /\ FocusMoves
  <1>1. CASE SaveBrand
    <2>1. f' = [f EXCEPT !.saving = TRUE]
      BY <1>1 DEF SaveBrand
    <2> QED
      BY <2>1, OneFieldFits, PlainStep
  <1>2. CASE TabArrives
    <2>1. f' = [f EXCEPT !.tabFile = "here"]
      BY <1>2 DEF TabArrives
    <2> QED
      BY <2>1, OneFieldFits, PlainStep
  <1>3. CASE FilesGo
    <2>1. f' = [f EXCEPT !.gone = TRUE]
      BY <1>3 DEF FilesGo
    <2> QED
      BY <2>1, OneFieldFits, PlainStep
  <1>4. CASE StampAges
    <2>1. f' = [f EXCEPT !.stamp = "old"]
      BY <1>4 DEF StampAges
    <2> QED
      BY <2>1, OneFieldFits, PlainStep
  <1>5. CASE TabGone /\ f.stamp = "recent"
    <2>1. f' = [f EXCEPT !.tabFile = "failed"]
      BY <1>5 DEF TabGone
    <2> QED
      BY <2>1, OneFieldFits, PlainStep
  <1> QED
    BY <1>1, <1>2, <1>3, <1>4, <1>5

\* A page that reloads itself starts over: no dialog, and no focus to keep.
LEMMA ReloadKeeps ==
  ASSUME FrameInv, TabGone, f.stamp # "recent"
  PROVE  FrameInv' /\ FocusMoves
  <1> DEFINE u == [Blank EXCEPT !.tab = f.tab, !.stamp = "recent", !.gone = TRUE]
  <1>0. f' = u /\ f.tab \in Tabs
    BY DEF TabGone, FrameInv, FrameRecs
  <1>1. u \in FrameRecs
    BY <1>0 DEF FrameRecs, Blank, Places
  <1>2. u.focus = "body" /\ ~u.settings /\ ~u.help /\ u.tabFile = "coming"
    BY DEF Blank
  <1> HIDE DEF u
  <1>3. FrameInv'
    BY <1>0, <1>1, <1>2 DEF FrameInv, Seated, DialogsFit
  <1>4. ~Drawn(f, "sheet")' /\ ~Drawn(f, "help")'
    BY <1>0, <1>2 DEF Drawn, InPage
  <1> QED
    BY <1>0, <1>2, <1>3, <1>4 DEF FocusMoves

\* The brand dialog closed on a frame that draws what f does.
LEMMA UnbrandedIs ==
  ASSUME FrameInv, NEW s, Calm(s), Alike(f, s), s.focus = f.focus
  PROVE  LET r == WithoutBrand(s)
         IN  /\ Calm(r) /\ Seated(r)
             /\ Inert(f) /\ f.focus \in {"sheet", "help"} => r.focus \in {f.focus, "setup"}
  <1> DEFINE u == [s EXCEPT !.brand = FALSE]
             c == Commit(u)
             w == Focus(c, s.brandOpener)
  <1>0. WithoutBrand(s) = w
    BY DEF WithoutBrand
  <1>1. s \in FrameRecs /\ s.brandOpener \in {"body", "page", "setup"} /\ s.brandOpener \in Places
    BY PlacesAre DEF Calm, FrameRecs
  <1>2. u \in FrameRecs
    BY <1>1 DEF FrameRecs
  <1>3. /\ u.settings = s.settings /\ u.help = s.help /\ u.focus = s.focus
        /\ u.sheetWasOpen = s.sheetWasOpen /\ u.helpWasOpen = s.helpWasOpen /\ u.sheetFile = s.sheetFile
    BY <1>1 DEF FrameRecs
  <1> HIDE DEF u
  <1>4. Calm(u)
    BY <1>2, <1>3 DEF Calm
  <1>5. ASSUME f.focus \in {"sheet", "help"} PROVE Drawn(u, u.focus)
    <2>1. Drawn(s, f.focus)
      BY SeatedDraws, AlikeDraws
    <2> QED
      BY <1>3, <1>5, <2>1 DEF Drawn, InPage
  <1>6. Calm(c) /\ Seated(c) /\ (Drawn(u, u.focus) => c = u)
    BY <1>4, CalmCommit
  <1> HIDE DEF c
  <1>7. /\ Calm(w) /\ (Seated(c) => Seated(w))
        /\ w.focus = IF s.brandOpener # "body" /\ Drawn(c, s.brandOpener) THEN s.brandOpener ELSE c.focus
    BY <1>1, <1>6, CalmFocus
  <1> HIDE DEF w
  <1>8. ASSUME Inert(f), f.focus \in {"sheet", "help"} PROVE w.focus \in {f.focus, "setup"}
    <2>1. c.focus = f.focus
      BY <1>3, <1>5, <1>6, <1>8
    <2>2. ~Drawn(c, "page")
      BY <1>6, <1>8, CalmIsInert, BehindIsOut, PlacesAre
    <2> QED
      BY <1>1, <1>7, <2>1, <2>2
  <1> QED
    BY <1>0, <1>6, <1>7, <1>8

LEMMA BrandKeeps ==
  ASSUME FrameInv, CloseBrand \/ BrandSaved
  PROVE  FrameInv' /\ FocusMoves
  <1> DEFINE s == [f EXCEPT !.saving = FALSE]
  <1>1. s \in FrameRecs /\ Alike(f, s) /\ s.focus = f.focus
    BY OneFieldFits
  <1>2. f' = s \/ f' = WithoutBrand(s) \/ f' = WithoutBrand(f)
    BY DEF CloseBrand, BrandSaved
  <1> HIDE DEF s
  <1>3. Calm(s) /\ Calm(f) /\ Alike(f, f)
    BY <1>1 DEF Calm, Alike, FrameInv
  <1>4. CASE f' = s
    BY <1>1, <1>4, PlainStep
  <1>5. CASE f' = WithoutBrand(s)
    <2>1. /\ Calm(f') /\ Seated(f')
          /\ Inert(f) /\ f.focus \in {"sheet", "help"} => f'.focus \in {f.focus, "setup"}
      BY <1>1, <1>3, <1>5, UnbrandedIs
    <2> QED
      BY <2>1, CalmStep
  <1>6. CASE f' = WithoutBrand(f)
    <2>1. /\ Calm(f') /\ Seated(f')
          /\ Inert(f) /\ f.focus \in {"sheet", "help"} => f'.focus \in {f.focus, "setup"}
      BY <1>3, <1>6, UnbrandedIs
    <2> QED
      BY <2>1, CalmStep
  <1> QED
    BY <1>2, <1>4, <1>5, <1>6

-----------------------------------------------------------------------------
(* The search palette.                                                     *)

LEMMA PaletteFits ==
  ASSUME NEW s, Calm(s), NEW b \in BOOLEAN, NEW x \in Places
  PROVE  LET u == [s EXCEPT !.palette = b, !.opener = x]
         IN  Calm(u) /\ u.focus = s.focus /\ (\A y : y # "palette" => (Drawn(u, y) <=> Drawn(s, y)))
  <1> DEFINE u == [s EXCEPT !.palette = b, !.opener = x]
  <1>0. s \in FrameRecs
    BY DEF Calm
  <1>1. u \in FrameRecs
    BY <1>0 DEF FrameRecs
  <1>2. /\ u.settings = s.settings /\ u.help = s.help /\ u.focus = s.focus /\ u.menu = s.menu
        /\ u.sheetWasOpen = s.sheetWasOpen /\ u.helpWasOpen = s.helpWasOpen
        /\ u.setup = s.setup /\ u.brand = s.brand
        /\ u.sheetFile = s.sheetFile /\ u.setupFile = s.setupFile
    BY <1>0 DEF FrameRecs
  <1> HIDE DEF u
  <1>3. ASSUME NEW y, y # "palette" PROVE Drawn(u, y) <=> Drawn(s, y)
    BY <1>2, <1>3 DEF Drawn, Inert, InPage
  <1> QED
    BY <1>1, <1>2, <1>3 DEF Calm, u

LEMMA PaletteGoes ==
  ASSUME NEW s, Calm(s)
  PROVE  LET u == [s EXCEPT !.palette = FALSE]
         IN  Calm(u) /\ u.focus = s.focus /\ (\A y : y # "palette" => (Drawn(u, y) <=> Drawn(s, y)))
  <1> DEFINE u == [s EXCEPT !.palette = FALSE]
  <1>0. s \in FrameRecs
    BY DEF Calm
  <1>1. u \in FrameRecs
    BY <1>0 DEF FrameRecs
  <1>2. /\ u.settings = s.settings /\ u.help = s.help /\ u.focus = s.focus /\ u.menu = s.menu
        /\ u.sheetWasOpen = s.sheetWasOpen /\ u.helpWasOpen = s.helpWasOpen
        /\ u.setup = s.setup /\ u.brand = s.brand
        /\ u.sheetFile = s.sheetFile /\ u.setupFile = s.setupFile
    BY <1>0 DEF FrameRecs
  <1> HIDE DEF u
  <1>3. ASSUME NEW y, y # "palette" PROVE Drawn(u, y) <=> Drawn(s, y)
    BY <1>2, <1>3 DEF Drawn, Inert, InPage
  <1> QED
    BY <1>1, <1>2, <1>3 DEF Calm, u

LEMMA OpenerFits ==
  ASSUME NEW s, Calm(s), NEW x \in Places
  PROVE  LET u == [s EXCEPT !.opener = x]
         IN  Calm(u) /\ u.focus = s.focus /\ Alike(s, u)
  BY DEF Calm, FrameRecs, Alike

\* Of the places drawn while a dialog is open, none is outside its overlay.
LEMMA DrawnOverOne ==
  ASSUME FrameInv, NEW s, Calm(s), s.sheetFile = f.sheetFile, NEW x \in Places,
         f.focus \in {"sheet", "help"}, Drawn(s, x)
  PROVE  x \in {f.focus, "body", "brand", "setup"}
  <1>1. Drawn(f, f.focus) /\ ~(f.settings /\ f.help)
    BY SeatedDraws DEF FrameInv, DialogsFit
  <1>2. s.settings = f.settings /\ s.help = f.help
    BY DEF Calm
  <1>3. Inert(f)
    BY <1>1 DEF Drawn, InPage, Inert
  <1>4. x \notin InPage
    BY <1>2, <1>3, BehindIsOut DEF Inert
  <1>5. x # "wait" /\ (x \in {"sheet", "help"} => x = f.focus)
    BY <1>1, <1>2 DEF Drawn, InPage
  <1> QED
    BY <1>4, <1>5 DEF Places

LEMMA TogglePaletteKeeps ==
  ASSUME FrameInv, TogglePalette
  PROVE  FrameInv' /\ FocusMoves
  <1>0. Calm(f) /\ f.focus \in Places /\ f.opener \in Places /\ TRUE \in BOOLEAN
    BY DEF FrameInv, Calm, FrameRecs
  <1>1. CASE f.palette
    <2> DEFINE v == [f EXCEPT !.palette = FALSE]
               s == Commit(v)
               z == [s EXCEPT !.opener = "body"]
    <2>1. f' = Focus(z, f.opener)
      BY <1>1 DEF TogglePalette
    <2>2. Calm(v) /\ v.focus = f.focus /\ (\A y : y # "palette" => (Drawn(v, y) <=> Drawn(f, y)))
      BY <1>0, PaletteGoes
    <2>3. v.sheetFile = f.sheetFile
      BY <1>0 DEF Calm, FrameRecs
    <2> HIDE DEF v
    <2>4. Calm(s) /\ Seated(s) /\ Alike(v, s) /\ (Drawn(v, v.focus) => s = v)
      BY <2>2, CalmCommit
    <2> HIDE DEF s
    <2>5. Calm(z) /\ z.focus = s.focus /\ Alike(s, z)
      BY <2>4, OpenerFits, PlacesAre
    <2> HIDE DEF z
    <2>6. Seated(z)
      BY <2>4, <2>5, AlikeDraws DEF Seated
    <2>7. /\ Calm(f') /\ Seated(f')
          /\ f'.focus = IF f.opener # "body" /\ Drawn(z, f.opener) THEN f.opener ELSE z.focus
      BY <1>0, <2>1, <2>5, <2>6, CalmFocus
    <2>8. ASSUME Inert(f), f.focus \in {"sheet", "help"}
          PROVE  f'.focus = f.focus \/ f'.focus \in {"brand", "setup"}
      <3>1. z.focus = f.focus
        BY <2>2, <2>4, <2>5, <2>8, SeatedDraws
      <3>2. z.sheetFile = f.sheetFile
        BY <2>3, <2>4, <2>5 DEF Alike
      <3>3. Drawn(z, f.opener) => f.opener \in {f.focus, "body", "brand", "setup"}
        BY <1>0, <2>5, <2>8, <3>2, DrawnOverOne
      <3> QED
        BY <2>7, <3>1, <3>3
    <2> QED
      BY <2>7, <2>8, CalmStep
  <1>2. CASE ~f.palette
    <2> DEFINE u == [f EXCEPT !.palette = TRUE, !.opener = f.focus]
    <2>1. f' = Focus(u, "palette")
      BY <1>2 DEF TogglePalette
    <2>2. Calm(u) /\ u.focus = f.focus /\ (\A y : y # "palette" => (Drawn(u, y) <=> Drawn(f, y)))
      BY <1>0, PaletteFits
    <2> HIDE DEF u
    <2>3. f.focus # "palette"
      BY <1>2, SeatedDraws DEF Drawn, InPage
    <2>4. Seated(u)
      BY <2>2, <2>3, SeatedDraws DEF Seated
    <2>5. Calm(f') /\ Seated(f') /\ ("palette" = "body" \/ ~Drawn(u, "palette") => f' = u)
      BY <2>1, <2>2, <2>4, PlacesAre, CalmFocus
    <2>6. ASSUME Inert(f) PROVE f'.focus = f.focus
      <3>1. ~Drawn(u, "palette")
        BY <2>2, <2>6, CalmIsInert, BehindIsOut, PlacesAre
      <3> QED
        BY <2>2, <2>5, <3>1
    <2> QED
      BY <2>5, <2>6, CalmStep
  <1> QED
    BY <1>1, <1>2

LEMMA PickInPaletteKeeps ==
  ASSUME FrameInv, NEW t \in Tabs, PickInPalette(t)
  PROVE  FrameInv' /\ FocusMoves
  <1> DEFINE g == GoTo(f, t)
             w == [g EXCEPT !.palette = FALSE, !.opener = "body"]
             s == Commit(w)
  <1>0. Calm(f) /\ f' = (IF t = f.tab THEN s ELSE Focus(s, "main"))
    BY DEF FrameInv, Calm, PickInPalette
  <1>1. ~Inert(f)
    BY SeatedDraws DEF PickInPalette, Drawn, InPage
  <1>2. Calm(g)
    BY <1>0, CalmGoTo
  <1> HIDE DEF g
  <1>3. Calm(w)
    BY <1>2, PaletteFits, PlacesAre
  <1> HIDE DEF w
  <1>4. Calm(s) /\ Seated(s)
    BY <1>3, CalmCommit
  <1> HIDE DEF s
  <1>5. Calm(Focus(s, "main")) /\ Seated(Focus(s, "main"))
    BY <1>4, PlacesAre, CalmFocus
  <1> QED
    BY <1>0, <1>1, <1>4, <1>5, CalmStep


-----------------------------------------------------------------------------
(* The steps that open or close a dialog.                                  *)

LEMMA RenderedMoves ==
  ASSUME FrameInv, NEW s \in FrameRecs, ~(s.settings /\ s.help), Rendered(s),
         s.focus = f.focus \/ ~Inert(f) \/ (s.focus = "setup" /\ Drawn(s, "setup")),
         (f.settings /\ ~s.settings /\ ~s.help /\ ~s.setup) \/ (f.help /\ ~s.help)
             => ~s.settings /\ ~s.help /\ (s.sheetWasOpen \/ s.helpWasOpen)
  PROVE  FrameInv' /\ FocusMoves
  <1>1. /\ FrameInv' /\ LooksAs(s, f')
        /\ \A d \in {"sheet", "help"} :
               Drawn(f, d) /\ Drawn(s, d) /\ s.focus \in {d, "brand", "setup"} /\ Drawn(s, s.focus)
               => f'.focus \in {d, "brand", "setup"}
        /\ ~s.settings /\ ~s.help /\ (s.sheetWasOpen \/ s.helpWasOpen) => f'.focus = "settingsBtn"
    BY RenderedIs
  <1>2. ASSUME NEW d \in {"sheet", "help"}, f.focus = d, Drawn(f, d), Drawn(f, d)'
        PROVE  f'.focus \in {d, "brand", "setup"}
    <2>1. Drawn(f', d)
      BY <1>2 DEF Drawn, Inert
    <2>2. Drawn(s, d)
      BY <1>1, <2>1, LooksAsDraws
    <2>3. Inert(f)
      BY <1>2 DEF Drawn, InPage, Inert
    <2>4. s.focus \in {d, "brand", "setup"} /\ Drawn(s, s.focus)
      BY <1>2, <2>2, <2>3
    <2> QED
      BY <1>1, <1>2, <2>2, <2>4
  <1>3. (f.settings /\ ~f'.settings /\ ~f'.help /\ ~f'.setup) \/ (f.help /\ ~f'.help)
        => f'.focus = "settingsBtn"
    BY <1>1 DEF LooksAs
  <1> QED
    BY <1>1, <1>2, <1>3 DEF FocusMoves

LEMMA SettingsFits ==
  ASSUME NEW s \in FrameRecs, NEW x \in {"no", "coming", "here", "failed"}
  PROVE  LET u == [s EXCEPT !.settings = TRUE, !.focus = "settingsBtn", !.sheetFile = x]
         IN  u \in FrameRecs /\ u.settings = TRUE /\ u.help = s.help
  <1> DEFINE u == [s EXCEPT !.settings = TRUE, !.focus = "settingsBtn", !.sheetFile = x]
  <1>1. u \in FrameRecs
    BY PlacesAre DEF FrameRecs
  <1>2. u.settings = TRUE /\ u.help = s.help
    BY DEF FrameRecs
  <1> QED
    BY <1>1, <1>2

LEMMA PressSettingsKeeps ==
  ASSUME FrameInv, PressSettings
  PROVE  FrameInv' /\ FocusMoves
  <1> DEFINE x == IF f.sheetFile = "no" THEN "coming" ELSE f.sheetFile
             u == [f EXCEPT !.settings = TRUE, !.focus = "settingsBtn", !.sheetFile = x]
  <1>0. f \in FrameRecs /\ x \in {"no", "coming", "here", "failed"}
    BY DEF FrameInv, FrameRecs
  <1>1. Rendered(u)
    BY DEF PressSettings
  <1>2. ~Inert(f) /\ ~f.settings /\ ~f.help
    BY DEF PressSettings, Drawn, Inert, InPage
  <1> HIDE DEF x
  <1>3. u \in FrameRecs /\ u.settings = TRUE /\ u.help = f.help
    BY <1>0, SettingsFits
  <1> HIDE DEF u
  <1>4. ~(u.settings /\ u.help)
    BY <1>2, <1>3
  <1> QED
    BY <1>1, <1>2, <1>3, <1>4, RenderedMoves

\* One field of a dialog's: its file, or that it is open.
LEMMA DialogFits ==
  ASSUME NEW s \in FrameRecs
  PROVE  /\ \A x \in {"here", "failed"} :
               LET u == [s EXCEPT !.sheetFile = x]
               IN  u \in FrameRecs /\ u.focus = s.focus /\ u.settings = s.settings /\ u.help = s.help
         /\ LET u == [s EXCEPT !.setupFile = "here"]
            IN  u \in FrameRecs /\ u.focus = s.focus /\ u.settings = s.settings /\ u.help = s.help
         /\ LET u == [s EXCEPT !.setup = FALSE]
            IN  u \in FrameRecs /\ u.focus = s.focus /\ u.settings = s.settings /\ u.help = s.help
         /\ LET u == [s EXCEPT !.settings = FALSE]
            IN  /\ u \in FrameRecs /\ u.focus = s.focus /\ u.settings = FALSE /\ u.help = s.help
                /\ u.sheetWasOpen = s.sheetWasOpen
         /\ LET u == [s EXCEPT !.help = FALSE]
            IN  /\ u \in FrameRecs /\ u.focus = s.focus /\ u.settings = s.settings /\ u.help = FALSE
                /\ u.helpWasOpen = s.helpWasOpen
  <1>1. ASSUME NEW x \in {"here", "failed"}
        PROVE  LET u == [s EXCEPT !.sheetFile = x]
               IN  u \in FrameRecs /\ u.focus = s.focus /\ u.settings = s.settings /\ u.help = s.help
    BY <1>1 DEF FrameRecs
  <1>2. LET u == [s EXCEPT !.setupFile = "here"]
        IN  u \in FrameRecs /\ u.focus = s.focus /\ u.settings = s.settings /\ u.help = s.help
    BY DEF FrameRecs
  <1>3. LET u == [s EXCEPT !.setup = FALSE]
        IN  u \in FrameRecs /\ u.focus = s.focus /\ u.settings = s.settings /\ u.help = s.help
    BY DEF FrameRecs
  <1>4. LET u == [s EXCEPT !.settings = FALSE]
        IN  /\ u \in FrameRecs /\ u.focus = s.focus /\ u.settings = FALSE /\ u.help = s.help
            /\ u.sheetWasOpen = s.sheetWasOpen
    BY DEF FrameRecs
  <1>5. LET u == [s EXCEPT !.help = FALSE]
        IN  /\ u \in FrameRecs /\ u.focus = s.focus /\ u.settings = s.settings /\ u.help = FALSE
            /\ u.helpWasOpen = s.helpWasOpen
    BY DEF FrameRecs
  <1> QED
    BY <1>1, <1>2, <1>3, <1>4, <1>5

LEMMA FilesAndSetupKeep ==
  ASSUME FrameInv, SheetFileEnds \/ SetupFileArrives \/ CloseSetup
  PROVE  FrameInv' /\ FocusMoves
  <1>0. f \in FrameRecs /\ ~(f.settings /\ f.help)
    BY DEF FrameInv, DialogsFit
  <1>1. ASSUME NEW u \in FrameRecs, u.focus = f.focus, u.settings = f.settings, u.help = f.help, Rendered(u)
        PROVE  FrameInv' /\ FocusMoves
    BY <1>0, <1>1, RenderedMoves
  <1>2. CASE SheetFileEnds
    <2>1. PICK x \in {"here", "failed"} : Rendered([f EXCEPT !.sheetFile = x])
      BY <1>2 DEF SheetFileEnds
    <2> QED
      BY <1>0, <1>1, <2>1, DialogFits
  <1>3. CASE SetupFileArrives
    <2>1. Rendered([f EXCEPT !.setupFile = "here"])
      BY <1>3 DEF SetupFileArrives
    <2> QED
      BY <1>0, <1>1, <2>1, DialogFits
  <1>4. CASE CloseSetup
    <2>1. Rendered([f EXCEPT !.setup = FALSE])
      BY <1>4 DEF CloseSetup
    <2> QED
      BY <1>0, <1>1, <2>1, DialogFits
  <1> QED
    BY <1>2, <1>3, <1>4

LEMMA CloseKeeps ==
  ASSUME FrameInv, CloseSettings \/ CloseHelp
  PROVE  FrameInv' /\ FocusMoves
  <1>0. f \in FrameRecs /\ DialogsFit(f)
    BY DEF FrameInv
  <1>1. CASE CloseSettings
    <2> DEFINE u == [f EXCEPT !.settings = FALSE]
    <2>1. Rendered(u) /\ f.settings
      BY <1>1 DEF CloseSettings
    <2>2. /\ u \in FrameRecs /\ u.focus = f.focus /\ u.settings = FALSE /\ u.help = f.help
          /\ u.sheetWasOpen = f.sheetWasOpen
      BY <1>0, DialogFits
    <2> HIDE DEF u
    <2>3. ~u.settings /\ ~u.help /\ u.sheetWasOpen
      BY <1>0, <2>1, <2>2 DEF DialogsFit
    <2> QED
      BY <2>1, <2>2, <2>3, RenderedMoves
  <1>2. CASE CloseHelp
    <2> DEFINE u == [f EXCEPT !.help = FALSE]
    <2>1. Rendered(u) /\ f.help
      BY <1>2 DEF CloseHelp
    <2>2. /\ u \in FrameRecs /\ u.focus = f.focus /\ u.settings = f.settings /\ u.help = FALSE
          /\ u.helpWasOpen = f.helpWasOpen
      BY <1>0, DialogFits
    <2> HIDE DEF u
    <2>3. ~u.settings /\ ~u.help /\ u.helpWasOpen
      BY <1>0, <2>1, <2>2 DEF DialogsFit
    <2> QED
      BY <2>1, <2>2, <2>3, RenderedMoves
  <1> QED
    BY <1>1, <1>2

LEMMA FromSettingsFits ==
  ASSUME NEW s \in FrameRecs
  PROVE  /\ LET u == [s EXCEPT !.sheetWasOpen = FALSE, !.settings = FALSE, !.help = TRUE]
            IN  u \in FrameRecs /\ u.focus = s.focus /\ u.settings = FALSE /\ u.help = TRUE
         /\ LET u == [s EXCEPT !.settings = FALSE, !.setup = TRUE]
            IN  u \in FrameRecs /\ u.focus = s.focus /\ u.settings = FALSE /\ u.help = s.help /\ u.setup = TRUE
  <1> DEFINE u == [s EXCEPT !.sheetWasOpen = FALSE, !.settings = FALSE, !.help = TRUE]
             v == [s EXCEPT !.settings = FALSE, !.setup = TRUE]
  <1>1. u \in FrameRecs
    BY DEF FrameRecs
  <1>2. u.focus = s.focus /\ u.settings = FALSE /\ u.help = TRUE
    BY DEF FrameRecs
  <1>3. v \in FrameRecs
    BY DEF FrameRecs
  <1>4. v.focus = s.focus /\ v.settings = FALSE /\ v.help = s.help /\ v.setup = TRUE
    BY DEF FrameRecs
  <1> QED
    BY <1>1, <1>2, <1>3, <1>4

LEMMA FromSettingsKeep ==
  ASSUME FrameInv, OpenHelpFromSettings \/ OpenSetupFromSettings
  PROVE  FrameInv' /\ FocusMoves
  <1>0. f \in FrameRecs /\ f.settings /\ ~f.help
    BY DEF FrameInv, DialogsFit, OpenHelpFromSettings, OpenSetupFromSettings
  <1>1. CASE OpenHelpFromSettings
    <2> DEFINE u == [f EXCEPT !.sheetWasOpen = FALSE, !.settings = FALSE, !.help = TRUE]
    <2>1. Rendered(u)
      BY <1>1 DEF OpenHelpFromSettings
    <2>2. u \in FrameRecs /\ u.focus = f.focus /\ u.settings = FALSE /\ u.help = TRUE
      BY <1>0, FromSettingsFits
    <2> HIDE DEF u
    <2>3. ~(u.settings /\ u.help)
      BY <2>2
    <2> QED
      BY <1>0, <2>1, <2>2, <2>3, RenderedMoves
  <1>2. CASE OpenSetupFromSettings
    <2> DEFINE u == [f EXCEPT !.settings = FALSE, !.setup = TRUE]
    <2>1. Rendered(u)
      BY <1>2 DEF OpenSetupFromSettings
    <2>2. u \in FrameRecs /\ u.focus = f.focus /\ u.settings = FALSE /\ u.help = f.help /\ u.setup = TRUE
      BY <1>0, FromSettingsFits
    <2> HIDE DEF u
    <2>3. ~(u.settings /\ u.help)
      BY <2>2
    <2> QED
      BY <1>0, <2>1, <2>2, <2>3, RenderedMoves
  <1> QED
    BY <1>1, <1>2

LEMMA OpenBrandKeeps ==
  ASSUME FrameInv, OpenBrand
  PROVE  FrameInv' /\ FocusMoves
  <1>0. f \in FrameRecs /\ ~(f.settings /\ f.help)
    BY DEF FrameInv, DialogsFit
  <1>1. PICK x \in {"page", "setup"} :
            /\ Drawn(f, x) /\ (x = "page" => Uncovered)
            /\ Rendered([f EXCEPT !.brand = TRUE, !.brandOpener = x, !.focus = x])
    BY DEF OpenBrand
  <1> DEFINE u == [f EXCEPT !.brand = TRUE, !.brandOpener = x, !.focus = x]
  <1>2. u \in FrameRecs
    BY <1>0, PlacesAre DEF FrameRecs
  <1>3. /\ u.focus = x /\ u.settings = f.settings /\ u.help = f.help
        /\ u.setup = f.setup /\ u.setupFile = f.setupFile
    BY <1>0 DEF FrameRecs
  <1>4. Rendered(u)
    BY <1>1
  <1> HIDE DEF u
  <1>5. ~(u.settings /\ u.help)
    BY <1>0, <1>3
  <1>6. ~Inert(f) \/ (u.focus = "setup" /\ Drawn(u, "setup"))
    <2>1. CASE x = "page"
      BY <1>1, <2>1 DEF Uncovered
    <2>2. CASE x = "setup"
      BY <1>1, <1>3, <2>2 DEF Drawn, InPage
    <2> QED
      BY <2>1, <2>2
  <1>7. (f.settings /\ ~u.settings /\ ~u.help /\ ~u.setup) \/ (f.help /\ ~u.help)
        => ~u.settings /\ ~u.help /\ (u.sheetWasOpen \/ u.helpWasOpen)
    BY <1>3
  <1> QED
    BY <1>2, <1>4, <1>5, <1>6, <1>7, RenderedMoves

LEMMA FrameNextKeeps ==
  ASSUME FrameInv, FrameNext
  PROVE  FrameInv' /\ FocusMoves
  <1>1. ASSUME NEW t \in Tabs, HashChange(t) \/ PickItem(t) \/ PickInPalette(t)
        PROVE  FrameInv' /\ FocusMoves
    BY <1>1, HashChangeKeeps, MenuKeeps, PickInPaletteKeeps
  <1>2. CASE ToggleMenu \/ LeaveMenu
    BY <1>2, MenuKeeps
  <1>3. CASE TogglePalette
    BY <1>3, TogglePaletteKeeps
  <1>4. CASE PressSettings
    BY <1>4, PressSettingsKeeps
  <1>5. CASE SheetFileEnds \/ SetupFileArrives \/ CloseSetup
    BY <1>5, FilesAndSetupKeep
  <1>6. CASE CloseSettings \/ CloseHelp
    BY <1>6, CloseKeeps
  <1>7. CASE OpenHelpFromSettings \/ OpenSetupFromSettings
    BY <1>7, FromSettingsKeep
  <1>8. CASE OpenBrand
    BY <1>8, OpenBrandKeeps
  <1>9. CASE CloseBrand \/ BrandSaved
    BY <1>9, BrandKeeps
  <1>10. CASE SaveBrand \/ TabArrives \/ FilesGo \/ StampAges \/ (TabGone /\ f.stamp = "recent")
    BY <1>10, PlainKeeps
  <1>11. CASE TabGone /\ f.stamp # "recent"
    BY <1>11, ReloadKeeps
  <1> QED
    BY <1>1, <1>2, <1>3, <1>4, <1>5, <1>6, <1>7, <1>8, <1>9, <1>10, <1>11 DEF FrameNext

LEMMA FrameStutters == FrameInv /\ UNCHANGED f => FrameInv'
  BY DEF FrameInv, Seated, DialogsFit, Drawn, Inert

LEMMA FrameStarts == FrameInit => FrameInv
  <1> SUFFICES ASSUME FrameInit PROVE FrameInv
    OBVIOUS
  <1>1. PICK t \in Tabs, b \in BOOLEAN : f = [Blank EXCEPT !.tab = t, !.setup = b]
    BY DEF FrameInit
  <1>2. f \in FrameRecs
    BY <1>1, FrameAssumption DEF FrameRecs, Blank, Places
  <1>3. f.focus = "body" /\ ~f.settings /\ ~f.help
    BY <1>1 DEF Blank
  <1> QED
    BY <1>2, <1>3 DEF FrameInv, Seated, DialogsFit

\* The frame's type, that what is focused is drawn or is the body, that
\* Settings and the control help are never open together, and that App's
\* effects have seen the one that is: App.jsx 482-545.
THEOREM FrameInductive == FrameSpec => []FrameInv
  <1>1. FrameInv /\ [FrameNext]_f => FrameInv'
    BY FrameNextKeeps, FrameStutters
  <1> QED
    BY <1>1, FrameStarts, PTL DEF FrameSpec

\* The fields of the frame's record, and what is focused is drawn or is the
\* body (App.jsx 201-545).
THEOREM FrameIsTyped == FrameSpec => []FrameTypeOK
  <1>1. FrameInv => FrameTypeOK
    BY DEF FrameInv, FrameRecs, FrameTypeOK, Seated
  <1> QED
    BY <1>1, FrameInductive, PTL

\* Focus inside Settings or the control help stays there while it is open,
\* whatever the page behind it does, and closing either one puts it on the
\* Settings button: App.jsx 482-545.
THEOREM FocusAlwaysFollows == FrameSpec => FocusFollowsTheDialog
  <1>1. FrameInv /\ [FrameNext]_f => [FocusMoves]_f
    BY FrameNextKeeps
  <1> QED
    BY <1>1, FrameInductive, PTL DEF FrameSpec, FocusFollowsTheDialog, FocusMoves
=============================================================================
