----------------------------- MODULE PagesProofs -----------------------------
(***************************************************************************)
(* What the pages show, for any length of the log, size of a page, charts  *)
(* and panels.                                                             *)
(*                                                                         *)
(* AuditPages: everybody who holds a page holds a run of one chain; two    *)
(* held entries with one hash have one predecessor, so that pages which    *)
(* agree where they overlap, or are linked where they touch, join into a   *)
(* run of one chain.                                                       *)
(*                                                                         *)
(* Charts: an id stands for one panel wherever its chart is held, so that  *)
(* saving a chart again takes no panel's chart away; while one chain at a  *)
(* time writes the layout, a replace that hides has saved and a restore    *)
(* that deletes has shown.                                                 *)
(*                                                                         *)
(* Changes: an answer that was not cut holds everything of the window that *)
(* is older than it, so that what is not in it did not happen.             *)
(***************************************************************************)
EXTENDS AuditPages, Charts, Changes, SequenceTheorems, WellFoundedInduction, TLAPS

-----------------------------------------------------------------------------
(* The Audit tab.                                                          *)

EntriesOf(x) == {x.entries[i] : i \in 1 .. Len(x.entries)}
Written == {Entry(p) : p \in 1 .. Len(log)}

\* The entry after another, unless lines between them are missing.
Follows(e, d) == d.at = e.at + 1 => d.prev = e.era

\* A run of one chain, but for missing lines: entries lag behind their places
\* in the chain, and ever more.
Segment(x) ==
    \A i \in 1 .. Len(x.entries) :
        /\ x.entries[i].at >= x.first + i
        /\ i > 1 => Follows(x.entries[i - 1], x.entries[i])
        /\ \A j \in i .. Len(x.entries) :
               /\ x.entries[i].era <= x.entries[j].era
               /\ x.entries[i].at + j <= x.entries[j].at + i

\* What a poll was answered.
Polled(d) ==
    /\ End(d) = d.total
    /\ d.entries = <<>> => d.total = 0
    /\ ~d.skips /\ d.entries # <<>> => d.entries[Len(d.entries)].at = End(d)
    /\ d.verdict = "intact" => ~d.skips /\ \A e \in EntriesOf(d) : e.era = 1

\* A hash stands for what it was made of.
Alike(H) == \A e, d \in H : SameHash(e, d) => e.prev = d.prev

\* Eras only grow, and what the present era wrote is still there.
Fresh(H) ==
    \A e \in H :
        /\ e.prev <= e.era /\ e.era <= era
        /\ e.era = era => e.at <= Len(log)

\* Every page somebody holds, and every entry of the log or of one.
Pages == polls \union {data, older.view, req.base, req.page}
Held == Written \union UNION {EntriesOf(x) : x \in Pages}

PagesFit ==
    /\ \A x \in Pages : Segment(x)
    /\ \A d \in polls \union {data} : d = NothingPolled \/ Polled(d)

ViewFits == older.shown /\ ~due => Joins(older.view, Page(data))

LogFits == \A p \in 1 .. Len(log) : \A q \in p .. Len(log) : log[p] <= log[q]

AuditInv == AuditTypeOK /\ PagesFit /\ ViewFits /\ LogFits /\ Alike(Held) /\ Fresh(Held)

-----------------------------------------------------------------------------
LEMMA LogEntry ==
  ASSUME AuditTypeOK, NEW p \in 1 .. Len(log)
  PROVE  /\ Entry(p) \in Entries /\ Entry(p).at = p /\ Entry(p).era = log[p]
         /\ p > 1 => Entry(p).prev = log[p - 1]
         /\ log[p] \in 1 .. era
  <1>1. log[p] \in 1 .. era /\ (p > 1 => log[p - 1] \in 1 .. era) /\ era \in Nat
    BY DEF AuditTypeOK
  <1> QED
    BY <1>1 DEF Entry, Entries

\* The lines that decode are lines of the log, in its order.
LEMMA LineIs ==
  ASSUME AuditTypeOK
  PROVE  /\ Decoded \in Nat /\ Decoded <= Len(log)
         /\ \A p \in 1 .. Decoded : Line(p) \in 1 .. Len(log) /\ Line(p) >= p
         /\ \A p, q \in 1 .. Decoded : p <= q => Line(p) + q <= Line(q) + p
         /\ \A p \in 1 .. Decoded : garbled = 0 \/ p < garbled => Line(p) = p
         /\ garbled = 0 => Decoded = Len(log)
  <1> DEFINE n == Len(log)
  <1>1. n \in Nat /\ garbled \in 0 .. n
    BY DEF AuditTypeOK
  <1>2. Decoded = IF garbled = 0 THEN n ELSE n - 1
    BY DEF Decoded
  <1> HIDE DEF n
  <1> QED
    BY <1>1, <1>2 DEF Line, n

\* What one read of the log answers with.
LEMMA AnswerIs ==
  ASSUME AuditTypeOK, LogFits, NEW first \in Nat, NEW end \in 0 .. Decoded, first <= end,
         NEW cut \in BOOLEAN, NEW verdict \in AuditVerdicts
  PROVE  LET d == Answer(first, end, cut, verdict)
         IN  /\ d \in AuditAnswers /\ Segment(d) /\ EntriesOf(d) \subseteq Written
             /\ (/\ cut \/ end = Decoded
                 /\ first = end => end = 0
                 /\ verdict = "intact" => garbled = 0 /\ era = 1) => Polled(d)
  <1> DEFINE total == IF cut THEN end ELSE Decoded
             skips == garbled # 0 /\ (cut => end >= garbled)
             d == Answer(first, end, cut, verdict)
  <1>1. end \in Nat /\ Len(log) \in Nat /\ Decoded \in Nat /\ garbled \in Nat /\ total \in Nat
    BY LineIs DEF AuditTypeOK
  <1>2. d = [first |-> first, entries |-> [i \in 1 .. end - first |-> Entry(Line(first + i))],
             total |-> total, cut |-> cut, skips |-> skips, verdict |-> verdict]
    BY DEF Answer
  <1>0. skips \in BOOLEAN
    OBVIOUS
  <1> HIDE DEF total, skips, d
  <1>3. \A i \in 1 .. end - first :
            /\ first + i \in 1 .. Decoded /\ Line(first + i) \in 1 .. Len(log)
            /\ Line(first + i) >= first + i /\ Entry(Line(first + i)) \in Entries
            /\ Entry(Line(first + i)).at = Line(first + i)
            /\ Entry(Line(first + i)).era = log[Line(first + i)]
    BY <1>1, LineIs, LogEntry
  <1>4. /\ d.first = first /\ d.entries = [i \in 1 .. end - first |-> Entry(Line(first + i))]
        /\ d.total = total /\ d.skips = skips /\ d.verdict = verdict
    BY <1>2
  <1>5. /\ d.entries \in Seq(Entries) /\ Len(d.entries) = end - first
        /\ \A i \in 1 .. end - first : d.entries[i] = Entry(Line(first + i))
    <2> DEFINE n == end - first
               s == [i \in 1 .. n |-> Entry(Line(first + i))]
    <2>1. n \in Nat
      BY <1>1
    <2>2. s \in [1 .. n -> Entries] /\ \A i \in 1 .. n : s[i] = Entry(Line(first + i))
      BY <1>3
    <2>3. d.entries = s
      BY <1>4
    <2> HIDE DEF n, s
    <2>4. s \in Seq(Entries) /\ Len(s) = n
      BY <2>1, <2>2
    <2> QED
      BY <2>2, <2>3, <2>4 DEF n
  <1>6. d \in AuditAnswers
    BY <1>0, <1>1, <1>2, <1>4, <1>5 DEF AuditAnswers
  <1>7. Segment(d)
    <2> SUFFICES ASSUME NEW i \in 1 .. end - first
                 PROVE  /\ d.entries[i].at >= first + i
                        /\ i > 1 => Follows(d.entries[i - 1], d.entries[i])
                        /\ \A j \in i .. end - first :
                               /\ d.entries[i].era <= d.entries[j].era
                               /\ d.entries[i].at + j <= d.entries[j].at + i
      BY <1>4, <1>5 DEF Segment
    <2>1. d.entries[i].at >= first + i
      BY <1>3, <1>5
    <2>2. ASSUME i > 1, d.entries[i].at = d.entries[i - 1].at + 1
          PROVE  d.entries[i].prev = d.entries[i - 1].era
      <3>1. i - 1 \in 1 .. end - first
        BY <1>1, <2>2
      <3>2. Line(first + i) = Line(first + (i - 1)) + 1
        BY <1>3, <1>5, <2>2, <3>1
      <3> DEFINE p == Line(first + i)
                 q == Line(first + (i - 1))
      <3>3. p \in 1 .. Len(log) /\ q \in 1 .. Len(log) /\ p = q + 1
        BY <1>3, <3>1, <3>2
      <3>4. d.entries[i] = Entry(p) /\ d.entries[i - 1].era = log[q]
        BY <1>3, <1>5, <3>1
      <3> HIDE DEF p, q
      <3>5. p > 1 /\ p - 1 = q
        BY <1>1, <3>3
      <3> QED
        BY <3>3, <3>4, <3>5, LogEntry
    <2>3. ASSUME NEW j \in i .. end - first
          PROVE  /\ d.entries[i].era <= d.entries[j].era
                 /\ d.entries[i].at + j <= d.entries[j].at + i
      <3> DEFINE p == Line(first + i)
                 q == Line(first + j)
      <3>0. /\ j \in 1 .. end - first /\ first + i \in 1 .. Decoded /\ first + j \in 1 .. Decoded
            /\ first + i <= first + j /\ i \in Nat /\ j \in Nat /\ i <= j
        BY <1>1, LineIs
      <3>1. p \in 1 .. Len(log) /\ q \in 1 .. Len(log) /\ p + (first + j) <= q + (first + i)
        BY <3>0, LineIs
      <3>2. /\ d.entries[i].era = log[p] /\ d.entries[j].era = log[q]
            /\ d.entries[i].at = p /\ d.entries[j].at = q
        BY <1>3, <1>5, <3>0
      <3> HIDE DEF p, q
      <3>3. q \in p .. Len(log) /\ p + j <= q + i
        BY <1>1, <3>0, <3>1
      <3> QED
        BY <3>1, <3>2, <3>3 DEF LogFits
    <2> QED
      BY <2>1, <2>2, <2>3 DEF Follows
  <1>8. EntriesOf(d) \subseteq Written
    BY <1>3, <1>5 DEF EntriesOf, Written
  <1>9. ASSUME cut \/ end = Decoded, first = end => end = 0,
               verdict = "intact" => garbled = 0 /\ era = 1
        PROVE  Polled(d)
    <2>0. d.first = first /\ Len(d.entries) = end - first /\ d.total = end
      BY <1>4, <1>5, <1>9 DEF total
    <2>1. End(d) = d.total
      BY <1>1, <2>0 DEF End
    <2>2. d.entries = <<>> => d.total = 0
      BY <1>1, <1>9, <2>0
    <2>3. ASSUME era = 1, NEW e \in EntriesOf(d)
          PROVE  e.era = 1
      <3>1. PICK p \in 1 .. Len(log) : e = Entry(p)
        BY <1>8 DEF Written
      <3> QED
        BY <2>3, <3>1, LogEntry
    <2>4. ASSUME ~skips, d.entries # <<>>
          PROVE  d.entries[Len(d.entries)].at = End(d)
      <3>1. Len(d.entries) # 0
        BY <1>5, <2>4
      <3>2. end - first \in 1 .. end - first /\ first + (end - first) = end /\ end \in 1 .. Decoded
        BY <1>1, <2>0, <3>1
      <3>3. garbled = 0 \/ end < garbled
        BY <1>1, <2>4 DEF skips
      <3>4. Line(end) = end
        BY <3>2, <3>3, LineIs
      <3>5. d.entries[end - first].at = Line(end)
        BY <1>3, <1>5, <3>2
      <3> QED
        BY <2>0, <2>1, <3>4, <3>5
    <2>5. verdict = "intact" => ~skips
      BY <1>9 DEF skips
    <2> QED
      BY <1>4, <1>9, <2>1, <2>2, <2>3, <2>4, <2>5 DEF Polled
  <1> QED
    BY <1>6, <1>7, <1>8, <1>9 DEF d

LEMMA PageIs ==
  ASSUME AuditTypeOK, LogFits, NEW end \in 0 .. Decoded, NEW verdict \in AuditVerdicts
  PROVE  LET d == PageTo(end, verdict)
         IN  /\ d \in AuditAnswers /\ Segment(d) /\ EntriesOf(d) \subseteq Written
             /\ end = Decoded /\ (verdict = "intact" => garbled = 0 /\ era = 1) => Polled(d)
  <1> DEFINE start == IF end > Cap THEN end - Cap ELSE 0
  <1>1. start \in Nat /\ start <= end /\ (start = end => end = 0)
    BY AuditAssumption, LineIs
  <1>2. PageTo(end, verdict) = Answer(start, end, FALSE, verdict)
    BY DEF PageTo
  <1> HIDE DEF start
  <1> QED
    BY <1>1, <1>2, AnswerIs

\* Joining is putting the newer entries where they say they belong.
LEMMA JoinedIs ==
  ASSUME NEW old \in AuditViews, NEW new \in AuditViews, Joins(old, new)
  PROVE  LET j == Joined(old, new)
             k == new.first - old.first
         IN  /\ j \in AuditViews /\ j.first = old.first /\ End(j) = End(new)
             /\ k \in Nat /\ k <= Len(old.entries) /\ Len(j.entries) = k + Len(new.entries)
             /\ \A i \in 1 .. k : j.entries[i] = old.entries[i]
             /\ \A i \in 1 .. Len(new.entries) : j.entries[k + i] = new.entries[i]
  <1> DEFINE k == new.first - old.first
             kept == SubSeq(old.entries, 1, k)
             joined == kept \o new.entries
             j == Joined(old, new)
  <1>1. /\ old.first \in Nat /\ old.entries \in Seq(Entries) /\ Len(old.entries) \in Nat
        /\ new.first \in Nat /\ new.entries \in Seq(Entries) /\ Len(new.entries) \in Nat
    BY DEF AuditViews
  <1>2. k \in Nat /\ k <= Len(old.entries)
    BY <1>1 DEF Joins, End
  <1>3. j.first = old.first /\ j.entries = joined /\ j = [first |-> old.first, entries |-> joined]
    BY DEF Joined
  <1> HIDE DEF k, j
  <1>4. /\ kept \in Seq(Entries) /\ Len(kept) = k
        /\ \A i \in 1 .. k : kept[i] = old.entries[i]
    BY <1>1, <1>2
  <1> HIDE DEF kept
  <1>5. /\ joined \in Seq(Entries) /\ Len(joined) = k + Len(new.entries)
        /\ \A i \in 1 .. k : joined[i] = old.entries[i]
        /\ \A i \in 1 .. Len(new.entries) : joined[k + i] = new.entries[i]
    <2> DEFINE n == Len(new.entries)
    <2>1. /\ joined \in Seq(Entries) /\ Len(joined) = Len(kept) + Len(new.entries)
          /\ \A i \in 1 .. Len(kept) + Len(new.entries) :
                 joined[i] = IF i <= Len(kept) THEN kept[i] ELSE new.entries[i - Len(kept)]
      BY <1>1, <1>4, ConcatProperties
    <2>2. n \in Nat /\ Len(kept) = k /\ k \in Nat
      BY <1>1, <1>2, <1>4
    <2> HIDE DEF joined
    <2>3. Len(joined) = k + n
      BY <2>1, <2>2
    <2>4. ASSUME NEW i \in 1 .. k
          PROVE  joined[i] = old.entries[i]
      <3>1. i \in 1 .. k + n /\ i <= k
        BY <2>2
      <3> QED
        BY <1>4, <2>1, <2>2, <3>1
    <2>5. ASSUME NEW i \in 1 .. n
          PROVE  joined[k + i] = new.entries[i]
      <3>1. k + i \in 1 .. k + n /\ ~(k + i <= k) /\ (k + i) - k = i
        BY <2>2
      <3> QED
        BY <2>1, <2>2, <3>1
    <2> QED
      BY <2>1, <2>3, <2>4, <2>5
  <1> HIDE DEF joined
  <1>6. j \in AuditViews
    BY <1>1, <1>3, <1>5 DEF AuditViews
  <1>7. End(j) = End(new)
    <2>1. Len(joined) = k + Len(new.entries) /\ Len(new.entries) \in Nat
      BY <1>1, <1>5
    <2>2. old.first \in Nat /\ new.first \in Nat /\ old.first + k = new.first
      BY <1>1, <1>2 DEF k
    <2>3. j.first = old.first /\ j.entries = joined
      BY <1>3
    <2> QED
      BY <1>2, <2>1, <2>2, <2>3 DEF End
  <1> QED
    BY <1>2, <1>3, <1>5, <1>6, <1>7 DEF k, j

\* One chain joined to another that agrees and is linked is one chain.
LEMMA JoinedFits ==
  ASSUME NEW old \in AuditViews, NEW new \in AuditViews, Joins(old, new),
         Segment(old), Segment(new), Alike(EntriesOf(old) \union EntriesOf(new)),
         \A e \in EntriesOf(new) : e.prev <= e.era
  PROVE  LET j == Joined(old, new)
         IN  /\ Segment(j) /\ EntriesOf(j) \subseteq EntriesOf(old) \union EntriesOf(new)
             /\ Joins(j, new)
  <1> DEFINE j == Joined(old, new)
             k == new.first - old.first
             n == Len(new.entries)
  <1>1. /\ old.first \in Nat /\ old.entries \in Seq(Entries) /\ Len(old.entries) \in Nat
        /\ new.first \in Nat /\ new.entries \in Seq(Entries) /\ n \in Nat
        /\ new.first = old.first + k
    BY DEF AuditViews
  <1>2. /\ j \in AuditViews /\ j.first = old.first /\ End(j) = End(new)
        /\ k \in Nat /\ k <= Len(old.entries) /\ Len(j.entries) = k + n
        /\ \A i \in 1 .. k : j.entries[i] = old.entries[i]
        /\ \A i \in 1 .. n : j.entries[k + i] = new.entries[i]
    BY JoinedIs
  <1> HIDE DEF j, k, n
  <1>0. /\ k \in Nat /\ n \in Nat /\ Len(j.entries) = k + n /\ k <= Len(old.entries)
        /\ Len(old.entries) \in Nat /\ old.first \in Nat /\ new.first = old.first + k
        /\ j.first = old.first /\ End(j) = End(new)
    BY <1>1, <1>2
  <1>3. \A i \in 1 .. Len(j.entries) :
            \/ i \in 1 .. k
            \/ i - k \in 1 .. n /\ j.entries[i] = new.entries[i - k]
    <2> SUFFICES ASSUME NEW i \in 1 .. Len(j.entries), i \notin 1 .. k
                 PROVE  i - k \in 1 .. n /\ j.entries[i] = new.entries[i - k]
      OBVIOUS
    <2>1. i - k \in 1 .. n /\ k + (i - k) = i
      BY <1>0
    <2>2. j.entries[k + (i - k)] = new.entries[i - k]
      BY <1>2, <2>1
    <2> QED
      BY <2>1, <2>2
  <1>4. EntriesOf(j) \subseteq EntriesOf(old) \union EntriesOf(new)
    <2> SUFFICES ASSUME NEW i \in 1 .. Len(j.entries)
                 PROVE  j.entries[i] \in EntriesOf(old) \union EntriesOf(new)
      BY DEF EntriesOf
    <2>1. CASE i \in 1 .. k
      <3>1. i \in 1 .. Len(old.entries) /\ j.entries[i] = old.entries[i]
        BY <1>0, <1>2, <2>1
      <3> QED
        BY <3>1 DEF EntriesOf
    <2>2. CASE i - k \in 1 .. n /\ j.entries[i] = new.entries[i - k]
      BY <2>2 DEF EntriesOf, n
    <2> QED
      BY <1>3, <2>1, <2>2
  <1>5. ASSUME k > 0, n > 0
        PROVE  /\ Follows(old.entries[k], new.entries[1])
               /\ old.entries[k].era <= new.entries[1].era
               /\ old.entries[k].at + (k + 1) <= new.entries[1].at + k
    <2>1. /\ k \in 1 .. Len(old.entries) /\ 1 \in 1 .. n
          /\ old.entries[k] \in Entries /\ new.entries[1] \in Entries
      BY <1>0, <1>1, <1>5 DEF n
    <2>2. CASE new.first = End(old)
      <3>1. k = Len(old.entries) /\ old.entries # <<>> /\ new.entries # <<>>
        BY <1>0, <1>5, <2>1, <2>2 DEF End, n
      <3>2. Head(new.entries) = new.entries[1]
        BY <1>1, <3>1
      <3>3. /\ new.entries[1].at = old.entries[k].at + 1
            /\ new.entries[1].prev = old.entries[k].era
        BY <2>2, <3>1, <3>2 DEF Joins, Linked, NamesAsPrevious
      <3>4. new.entries[1].prev <= new.entries[1].era
        BY <2>1 DEF EntriesOf, n
      <3>5. /\ new.entries[1].at \in Nat /\ old.entries[k].at \in Nat
        BY <2>1 DEF Entries
      <3>6. old.entries[k].at + (k + 1) <= new.entries[1].at + k
        BY <1>0, <3>3, <3>5
      <3>7. old.entries[k].era <= new.entries[1].era
        BY <3>3, <3>4
      <3> QED
        BY <3>3, <3>6, <3>7 DEF Follows
    <2>3. CASE new.first # End(old)
      <3>0. End(old) = old.first + Len(old.entries) /\ new.first <= End(old)
        BY DEF Joins, End
      <3>1. new.first \in new.first .. End(old) - 1 /\ k + 1 \in 1 .. Len(old.entries)
        BY <1>0, <2>3, <3>0
      <3>2. SameHash(old.entries[k + 1], new.entries[1])
        <4>1. SameHash(old.entries[(new.first - old.first) + 1],
                       new.entries[(new.first - new.first) + 1])
          BY <3>1 DEF Joins, Agree
        <4>2. (new.first - old.first) + 1 = k + 1 /\ (new.first - new.first) + 1 = 1
          BY <1>0
        <4> QED
          BY <4>1, <4>2
      <3>3. old.entries[k + 1] \in EntriesOf(old) /\ new.entries[1] \in EntriesOf(new)
        BY <1>0, <1>5, <3>1 DEF EntriesOf, n
      <3>4. /\ old.entries[k + 1].prev = new.entries[1].prev
            /\ old.entries[k + 1].at = new.entries[1].at
            /\ old.entries[k + 1].era = new.entries[1].era
        BY <3>2, <3>3 DEF Alike, SameHash
      <3>5. Follows(old.entries[(k + 1) - 1], old.entries[k + 1])
        BY <1>0, <1>5, <3>1 DEF Segment
      <3>6. (k + 1) - 1 = k /\ k + 1 \in k .. Len(old.entries)
        BY <1>0, <3>1
      <3>7. /\ old.entries[k].era <= old.entries[k + 1].era
            /\ old.entries[k].at + (k + 1) <= old.entries[k + 1].at + k
        BY <2>1, <3>6 DEF Segment
      <3> QED
        BY <3>4, <3>5, <3>6, <3>7 DEF Follows
    <2> QED
      BY <2>2, <2>3
  <1>6. ASSUME NEW i \in 1 .. Len(j.entries)
        PROVE  /\ j.entries[i].at >= j.first + i
               /\ i > 1 => Follows(j.entries[i - 1], j.entries[i])
    <2>1. CASE i \in 1 .. k
      <3>1. i \in 1 .. Len(old.entries) /\ (i > 1 => i - 1 \in 1 .. k)
        BY <1>0, <2>1
      <3>2. j.entries[i] = old.entries[i] /\ (i > 1 => j.entries[i - 1] = old.entries[i - 1])
        BY <1>2, <2>1, <3>1
      <3> QED
        BY <1>0, <3>1, <3>2 DEF Segment
    <2>0. i \in Nat /\ k \in Nat /\ n \in Nat
      BY <1>0
    <2>2. CASE i - k \in 1 .. n /\ j.entries[i] = new.entries[i - k] /\ i - k > 1
      <3>0. i - k \in 1 .. n /\ i - k > 1
        BY <2>2
      <3>1. i - 1 = k + ((i - k) - 1) /\ (i - k) - 1 \in 1 .. n
        BY <2>0, <3>0
      <3>2. j.entries[i - 1] = new.entries[(i - k) - 1]
        BY <1>2, <3>1
      <3>3. /\ new.entries[i - k].at >= new.first + (i - k)
            /\ Follows(new.entries[(i - k) - 1], new.entries[i - k])
        BY <2>2 DEF Segment, n
      <3>4. new.first + (i - k) = j.first + i
        BY <1>0, <2>0
      <3> QED
        BY <2>2, <3>2, <3>3, <3>4
    <2>3. CASE i = k + 1 /\ 1 \in 1 .. n /\ j.entries[i] = new.entries[1]
      <3>1. new.entries[1].at >= new.first + 1
        BY <2>3 DEF Segment, n
      <3>0. i = k + 1
        BY <2>3
      <3>3. new.first + 1 = j.first + i /\ i - 1 = k
        BY <1>0, <2>0, <3>0
      <3>4. ASSUME k > 0
            PROVE  j.entries[i - 1] = old.entries[k]
        <4>1. k \in 1 .. k
          BY <1>0, <3>4
        <4> QED
          BY <1>2, <3>3, <4>1
      <3>5. (i > 1 => k > 0) /\ n > 0
        BY <1>0, <2>3
      <3> QED
        BY <1>5, <2>3, <3>1, <3>3, <3>4, <3>5
    <2>4. i - k \in 1 .. n => i - k > 1 \/ (i = k + 1 /\ 1 \in 1 .. n)
      BY <1>0
    <2>5. i = k + 1 => i - k = 1
      BY <1>0
    <2> QED
      BY <1>3, <2>1, <2>2, <2>3, <2>4, <2>5
  <1>7. ASSUME NEW i \in 1 .. Len(j.entries), NEW h \in i .. Len(j.entries)
        PROVE  /\ j.entries[i].era <= j.entries[h].era
               /\ j.entries[i].at + h <= j.entries[h].at + i
    <2>0. i \in Nat /\ h \in Nat /\ i <= h /\ h <= k + n /\ h \in 1 .. Len(j.entries)
      BY <1>0
    <2>1. CASE h \in 1 .. k
      <3>1. i \in 1 .. k /\ i \in 1 .. Len(old.entries) /\ h \in i .. Len(old.entries)
        BY <1>0, <2>0, <2>1
      <3>2. j.entries[i] = old.entries[i] /\ j.entries[h] = old.entries[h]
        BY <1>2, <2>1, <3>1
      <3> QED
        BY <3>1, <3>2 DEF Segment
    <2>2. CASE i - k \in 1 .. n
      <3>1. h - k \in i - k .. n /\ h - k \in 1 .. n /\ ~(h \in 1 .. k) /\ ~(i \in 1 .. k)
        BY <1>0, <2>0, <2>2
      <3>2. j.entries[i] = new.entries[i - k] /\ j.entries[h] = new.entries[h - k]
        BY <1>3, <2>0, <3>1
      <3>3. /\ new.entries[i - k].era <= new.entries[h - k].era
            /\ new.entries[i - k].at + (h - k) <= new.entries[h - k].at + (i - k)
        BY <2>2, <3>1 DEF Segment, n
      <3>4. new.entries[i - k].at \in Nat /\ new.entries[h - k].at \in Nat
        <4>1. new.entries[i - k] \in Entries /\ new.entries[h - k] \in Entries
          BY <1>1, <2>2, <3>1 DEF n
        <4> QED
          BY <4>1 DEF Entries
      <3>5. new.entries[i - k].at + h <= new.entries[h - k].at + i
        <4> DEFINE a == new.entries[i - k].at
                   b == new.entries[h - k].at
        <4>1. i \in Nat /\ k \in Nat /\ h \in Nat
          BY <1>0, <2>0
        <4>2. a + (h - k) <= b + (i - k) /\ a \in Nat /\ b \in Nat
          BY <3>3, <3>4
        <4> HIDE DEF a, b
        <4>3. a + h <= b + i
          BY <4>1, <4>2
        <4> QED
          BY <4>3 DEF a, b
      <3> QED
        BY <3>2, <3>3, <3>5
    <2>3. CASE i \in 1 .. k /\ h - k \in 1 .. n
      <3>1. /\ k > 0 /\ n > 0 /\ k \in i .. Len(old.entries) /\ i \in 1 .. Len(old.entries)
            /\ 1 \in 1 .. n /\ h - k \in 1 .. n /\ ~(h \in 1 .. k) /\ k \in 1 .. Len(old.entries)
            /\ h - k \in 1 .. Len(new.entries) /\ 1 \in 1 .. Len(new.entries)
            /\ h - k \in 1 .. Len(new.entries)
        BY <1>0, <2>0, <2>3 DEF n
      <3>2. j.entries[i] = old.entries[i] /\ j.entries[h] = new.entries[h - k]
        BY <1>2, <1>3, <2>0, <2>3, <3>1
      <3>3. /\ old.entries[i].era <= old.entries[k].era
            /\ old.entries[i].at + k <= old.entries[k].at + i
        BY <3>1 DEF Segment
      <3>4. /\ old.entries[k].era <= new.entries[1].era
            /\ old.entries[k].at + (k + 1) <= new.entries[1].at + k
        BY <1>5, <3>1
      <3>5. /\ new.entries[1].era <= new.entries[h - k].era
            /\ new.entries[1].at + (h - k) <= new.entries[h - k].at + 1
        BY <3>1 DEF Segment
      <3>6. /\ old.entries[i].era \in Nat /\ old.entries[k].era \in Nat
            /\ new.entries[1].era \in Nat /\ new.entries[h - k].era \in Nat
            /\ old.entries[i].at \in Nat /\ old.entries[k].at \in Nat
            /\ new.entries[1].at \in Nat /\ new.entries[h - k].at \in Nat
        <4>1. old.entries[i] \in Entries /\ old.entries[k] \in Entries
          BY <1>1, <3>1
        <4>2. new.entries[1] \in Entries /\ new.entries[h - k] \in Entries
          BY <1>1, <3>1
        <4> QED
          BY <4>1, <4>2 DEF Entries
      <3>9. i \in Nat /\ k \in Nat /\ h \in Nat
        BY <1>0, <2>0
      <3>7. old.entries[i].era <= new.entries[h - k].era
        <4> DEFINE a == old.entries[i].era
                   b == old.entries[k].era
                   c == new.entries[1].era
                   d == new.entries[h - k].era
        <4>1. a \in Nat /\ b \in Nat /\ c \in Nat /\ d \in Nat /\ a <= b /\ b <= c /\ c <= d
          BY <3>3, <3>4, <3>5, <3>6
        <4> HIDE DEF a, b, c, d
        <4>2. a <= d
          BY <4>1
        <4> QED
          BY <4>2 DEF a, d
      <3>8. old.entries[i].at + h <= new.entries[h - k].at + i
        <4> DEFINE a == old.entries[i].at
                   b == old.entries[k].at
                   c == new.entries[1].at
                   d == new.entries[h - k].at
        <4>1. /\ a \in Nat /\ b \in Nat /\ c \in Nat /\ d \in Nat
              /\ a + k <= b + i /\ b + (k + 1) <= c + k /\ c + (h - k) <= d + 1
          BY <3>3, <3>4, <3>5, <3>6
        <4> HIDE DEF a, b, c, d
        <4>2. a + h <= d + i
          BY <3>9, <4>1
        <4> QED
          BY <4>2 DEF a, d
      <3> QED
        BY <3>2, <3>7, <3>8
    <2> QED
      BY <1>3, <2>0, <2>1, <2>2, <2>3
  <1>8. Joins(j, new)
    <2>1. new.first >= j.first /\ new.first <= End(j) /\ End(new) >= End(j)
      BY <1>0 DEF End, n
    <2>2. Agree(j, new)
      <3> SUFFICES ASSUME NEW p \in new.first .. End(j) - 1
                   PROVE  SameHash(j.entries[p - j.first + 1], new.entries[p - new.first + 1])
        BY DEF Agree
      <3>0. End(j) = new.first + n
        BY <1>0 DEF End, n
      <3>2. /\ p \in Int /\ p >= new.first /\ p <= new.first + n - 1 /\ n \in Nat /\ k \in Nat
            /\ old.first \in Nat /\ new.first = old.first + k /\ j.first = old.first
        BY <1>0, <3>0
      <3>1. p - new.first + 1 \in 1 .. n /\ p - j.first + 1 = k + (p - new.first + 1)
        BY <3>2
      <3> QED
        BY <1>2, <3>1 DEF SameHash
    <2>3. Linked(j, new)
      <3>1. new.first = End(j) => n = 0
        BY <1>0 DEF End, n
      <3>2. n = 0 => new.entries = <<>>
        BY <1>1 DEF n
      <3> QED
        BY <3>1, <3>2 DEF Linked
    <2> QED
      BY <2>1, <2>2, <2>3 DEF Joins
  <1>9. Segment(j)
    BY <1>6, <1>7 DEF Segment
  <1> QED
    BY <1>4, <1>8, <1>9 DEF j

-----------------------------------------------------------------------------
LEMMA PageOf ==
  ASSUME NEW d \in AuditAnswers
  PROVE  /\ Page(d) \in AuditViews /\ EntriesOf(Page(d)) = EntriesOf(d) /\ End(Page(d)) = End(d)
         /\ Page(d).first = d.first /\ Page(d).entries = d.entries
         /\ Segment(d) => Segment(Page(d))
  BY DEF Page, AuditAnswers, AuditViews, EntriesOf, End, Segment

LEMMA NoneHeld ==
  /\ NoAuditPage \in AuditAnswers /\ Segment(NoAuditPage) /\ EntriesOf(NoAuditPage) = {}
  /\ NothingPolled \in AuditAnswers /\ Segment(NothingPolled) /\ EntriesOf(NothingPolled) = {}
  /\ NoView \in AuditViews /\ Segment(NoView) /\ EntriesOf(NoView) = {}
  <1> DEFINE none == <<>>
  <1>1. none \in Seq(Entries) /\ Len(none) = 0 /\ MaxLog + 1 \in Nat
    BY AuditAssumption
  <1> DEFINE more == MaxLog + 1
  <1>2. /\ NoAuditPage = [first |-> 0, entries |-> none, total |-> 0, cut |-> FALSE, skips |-> FALSE,
                          verdict |-> "unverified"]
        /\ NoView = [first |-> 0, entries |-> none]
    BY DEF NoAuditPage, NoView
  <1>3. NothingPolled = [NoAuditPage EXCEPT !.total = more]
    BY DEF NothingPolled
  <1> HIDE DEF none, more
  <1>4. /\ NoAuditPage \in AuditAnswers /\ NoAuditPage.entries = none
        /\ NoView \in AuditViews /\ NoView.entries = none
    BY <1>1, <1>2 DEF AuditAnswers, AuditViews, AuditVerdicts
  <1>5. NothingPolled \in AuditAnswers /\ NothingPolled.entries = none
    BY <1>1, <1>3, <1>4 DEF AuditAnswers, more
  <1> QED
    BY <1>1, <1>4, <1>5 DEF Segment, EntriesOf

LEMMA Parts ==
  ASSUME AuditInv
  PROVE  /\ era \in Nat \ {0} /\ log \in Seq(1 .. era)
         /\ garbled \in 0 .. Len(log) /\ troubles \in Nat /\ polls \subseteq AuditAnswers
         /\ data \in AuditAnswers /\ older \in AuditJoins /\ older.view \in AuditViews
         /\ older.gen \in Nat /\ req \in AuditRequests /\ req.base \in AuditAnswers
         /\ req.page \in AuditAnswers /\ portal \in AuditSearches
         /\ (data = NothingPolled \/ Polled(data))
         /\ \A x \in Pages : Segment(x) /\ EntriesOf(x) \subseteq Held
         /\ data \in Pages /\ older.view \in Pages /\ req.base \in Pages /\ req.page \in Pages
         /\ polls \subseteq Pages /\ Written \subseteq Held
  <1>1. older.view \in AuditViews /\ older.gen \in Nat /\ req.base \in AuditAnswers
        /\ req.page \in AuditAnswers
    BY DEF AuditInv, AuditTypeOK, AuditJoins, AuditRequests
  <1>2. Written \subseteq Held /\ \A x \in Pages : EntriesOf(x) \subseteq Held
    BY DEF Held
  <1>3. data \in Pages /\ older.view \in Pages /\ req.base \in Pages /\ req.page \in Pages
        /\ polls \subseteq Pages
    BY DEF Pages
  <1>4. \A x \in Pages : Segment(x)
    BY DEF AuditInv, PagesFit
  <1>5. data = NothingPolled \/ Polled(data)
    BY DEF AuditInv, PagesFit
  <1> QED
    BY <1>1, <1>2, <1>3, <1>4, <1>5 DEF AuditInv, AuditTypeOK

\* Two pages that are held join into one.
LEMMA HeldJoin ==
  ASSUME AuditInv, NEW old \in AuditViews, NEW new \in AuditViews, Joins(old, new),
         Segment(old), Segment(new), EntriesOf(old) \subseteq Held, EntriesOf(new) \subseteq Held
  PROVE  LET j == Joined(old, new)
         IN  /\ j \in AuditViews /\ Segment(j) /\ EntriesOf(j) \subseteq Held /\ Joins(j, new)
             /\ j.first = old.first /\ End(j) = End(new)
  <1>1. Alike(EntriesOf(old) \union EntriesOf(new)) /\ \A e \in EntriesOf(new) : e.prev <= e.era
    BY DEF AuditInv, Alike, Fresh
  <1>2. LET j == Joined(old, new)
        IN  /\ Segment(j) /\ EntriesOf(j) \subseteq EntriesOf(old) \union EntriesOf(new)
            /\ Joins(j, new)
    BY <1>1, JoinedFits
  <1>3. LET j == Joined(old, new)
        IN  j \in AuditViews /\ j.first = old.first /\ End(j) = End(new)
    BY JoinedIs
  <1> QED
    BY <1>2, <1>3

\* While the log stands, a step that holds no entry anew keeps what is held.
LEMMA PagesMove ==
  ASSUME AuditInv, UNCHANGED <<log, era>>, AuditTypeOK', ViewFits',
         \A x \in Pages' : Segment(x) /\ EntriesOf(x) \subseteq Held,
         \A d \in (polls \union {data})' : d = NothingPolled \/ Polled(d)
  PROVE  AuditInv'
  <1>1. Written' = Written
    BY DEF Written, Entry
  <1>2. Held' \subseteq Held
    <2>1. UNION {EntriesOf(x) : x \in Pages'} \subseteq Held
      OBVIOUS
    <2>2. Held' = Written' \union UNION {EntriesOf(x) : x \in Pages'}
      BY DEF Held, EntriesOf
    <2>3. Written \subseteq Held
      BY DEF Held
    <2> QED
      BY <1>1, <2>1, <2>2, <2>3
  <1>3. Alike(Held)' /\ Fresh(Held)'
    BY <1>2 DEF AuditInv, Alike, Fresh, SameHash
  <1>4. LogFits'
    BY DEF AuditInv, LogFits
  <1>5. PagesFit'
    BY DEF PagesFit, Segment, Polled, EntriesOf, End
  <1> QED
    BY <1>3, <1>4, <1>5 DEF AuditInv

LEMMA HeldAreEntries ==
  ASSUME AuditInv
  PROVE  Held \subseteq Entries
  <1>1. \A x : x.entries \in Seq(Entries) => EntriesOf(x) \subseteq Entries
    BY DEF EntriesOf
  <1>2. Written \subseteq Entries
    BY LogEntry DEF Written, AuditInv
  <1>3. \A x \in Pages : x.entries \in Seq(Entries)
    <2>1. \A d \in AuditAnswers : d.entries \in Seq(Entries)
      BY DEF AuditAnswers
    <2>2. \A d \in AuditViews : d.entries \in Seq(Entries)
      BY DEF AuditViews
    <2> QED
      BY <2>1, <2>2, Parts DEF Pages
  <1> QED
    BY <1>1, <1>2, <1>3 DEF Held

LEMMA Append1Keeps == ASSUME AuditInv, Append1 PROVE AuditInv'
  <1>0. PICK n : n = Len(log) + 1
    OBVIOUS
  <1> DEFINE new == Entry(n)'
  <1>1. /\ log' = Append(log, era) /\ garbled = 0
        /\ UNCHANGED <<followed, era, garbled, troubles, polls, data, failed, due, older, req, portal>>
    BY DEF Append1
  <1>2. era \in Nat \ {0} /\ log \in Seq(1 .. era) /\ Len(log) \in Nat /\ era \in 1 .. era
    BY Parts
  <1>3. /\ log' \in Seq(1 .. era) /\ Len(log') = Len(log) + 1 /\ log'[Len(log) + 1] = era
        /\ \A p \in 1 .. Len(log) : log'[p] = log[p]
    BY <1>1, <1>2
  <1>4. AuditTypeOK'
    <2>1. garbled' \in 0 .. Len(log')
      BY <1>1, <1>2, <1>3
    <2> QED
      BY <1>1, <1>3, <2>1 DEF AuditInv, AuditTypeOK
  <1>5. LogFits'
    <2> SUFFICES ASSUME NEW p \in 1 .. Len(log) + 1, NEW q \in p .. Len(log) + 1
                 PROVE  log'[p] <= log'[q]
      BY <1>3 DEF LogFits
    <2>1. p \in Nat /\ q \in Nat /\ p <= q
      BY <1>2
    <2>2. CASE q = Len(log) + 1
      <3>1. log'[p] \in 1 .. era
        BY <1>2, <1>3
      <3> QED
        BY <1>2, <1>3, <2>2, <3>1
    <2>3. CASE q # Len(log) + 1
      <3>1. p \in 1 .. Len(log) /\ q \in p .. Len(log) /\ q \in 1 .. Len(log)
        BY <1>2, <2>1, <2>3
      <3> QED
        BY <1>3, <3>1 DEF AuditInv, LogFits
    <2> QED
      BY <2>2, <2>3
  <1>6. \A p \in 1 .. Len(log) : Entry(p)' = Entry(p)
    <2> SUFFICES ASSUME NEW p \in 1 .. Len(log) PROVE Entry(p)' = Entry(p)
      OBVIOUS
    <2>1. p # 1 => p - 1 \in 1 .. Len(log)
      BY <1>2
    <2> QED
      BY <1>3, <2>1 DEF Entry
  <1>7. new.at = n /\ new.era = era /\ new.prev <= era
    <2>1. n # 1 => n - 1 \in 1 .. Len(log)
      BY <1>0, <1>2
    <2>2. n # 1 => log'[n - 1] \in 1 .. era
      BY <1>2, <1>3, <2>1
    <2>3. log'[n] = era
      BY <1>0, <1>3
    <2>4. new = [at |-> n, era |-> log'[n], prev |-> IF n = 1 THEN 0 ELSE log'[n - 1]]
      BY DEF Entry
    <2> QED
      BY <1>2, <2>2, <2>3, <2>4
  <1> HIDE DEF new
  <1>8. Held' \subseteq Held \union {new}
    <2>1. Written' \subseteq Written \union {new}
      <3> SUFFICES ASSUME NEW p \in 1 .. n PROVE Entry(p)' \in Written \union {new}
        BY <1>0, <1>3 DEF Written
      <3>1. CASE p = n
        BY <3>1 DEF new
      <3>2. CASE p # n
        <4>1. p \in 1 .. Len(log)
          BY <1>0, <1>2, <3>2
        <4> QED
          BY <1>6, <4>1 DEF Written
      <3> QED
        BY <3>1, <3>2
    <2> QED
      BY <1>1, <2>1 DEF Held, Pages, EntriesOf
  <1>9. Fresh(Held)'
    <2> SUFFICES ASSUME NEW e \in Held \union {new}
                 PROVE  e.prev <= e.era /\ e.era <= era /\ (e.era = era => e.at <= Len(log) + 1)
      BY <1>1, <1>3, <1>8 DEF Fresh
    <2>1. CASE e = new
      BY <1>0, <1>2, <1>7, <2>1
    <2>2. CASE e \in Held
      <3>1. e.prev <= e.era /\ e.era <= era /\ (e.era = era => e.at <= Len(log))
        BY <2>2 DEF AuditInv, Fresh
      <3>2. e.era = era => e.at <= Len(log) + 1
        <4> SUFFICES ASSUME e.era = era PROVE e.at <= Len(log) + 1
          OBVIOUS
        <4>1. e \in Entries
          BY <2>2, HeldAreEntries
        <4> QED
          BY <1>2, <3>1, <4>1 DEF Entries
      <3> QED
        BY <3>1, <3>2
    <2> QED
      BY <2>1, <2>2
  <1>10. Alike(Held)'
    <2> SUFFICES ASSUME NEW e \in Held \union {new}, NEW d \in Held \union {new}, SameHash(e, d)
                 PROVE  e.prev = d.prev
      BY <1>8 DEF Alike, SameHash
    <2>1. \A x \in Held : x.era = era => x.at # Len(log) + 1
      <3> SUFFICES ASSUME NEW x \in Held, x.era = era PROVE x.at # Len(log) + 1
        OBVIOUS
      <3>1. x.at <= Len(log)
        BY DEF AuditInv, Fresh
      <3>2. x.at \in Nat
        BY HeldAreEntries DEF Entries
      <3> QED
        BY <1>2, <3>1, <3>2
    <2>2. e = new => d \notin Held
      BY <1>0, <1>7, <2>1 DEF SameHash
    <2>3. d = new => e \notin Held
      BY <1>0, <1>7, <2>1 DEF SameHash
    <2> QED
      BY <2>2, <2>3 DEF AuditInv, Alike
  <1>11. PagesFit' /\ ViewFits'
    BY <1>1 DEF AuditInv, PagesFit, Pages, ViewFits, Segment, Polled, EntriesOf, End, Joins, Agree, Linked,
       SameHash, NamesAsPrevious, Page
  <1> QED
    BY <1>4, <1>5, <1>9, <1>10, <1>11 DEF AuditInv

LEMMA ReplacedKeeps == ASSUME AuditInv, NEW k \in 0 .. MaxLog, k < Len(log), Replaced(k) PROVE AuditInv'
  <1>1. /\ log' = SubSeq(log, 1, k) /\ era' = era + 1 /\ garbled' = 0 /\ troubles' = troubles + 1
        /\ UNCHANGED <<followed, polls, data, failed, due, older, req, portal>>
    BY DEF Replaced, Troubled
  <1>2. /\ era \in Nat \ {0} /\ log \in Seq(1 .. era) /\ Len(log) \in Nat /\ k \in Nat /\ k < Len(log)
    BY Parts, AuditAssumption
  <1>3. /\ log' \in Seq(1 .. era) /\ Len(log') = k /\ \A p \in 1 .. k : log'[p] = log[p]
    BY <1>1, <1>2
  <1>4. log' \in Seq(1 .. era')
    <2>1. 1 .. era \subseteq 1 .. era'
      BY <1>1, <1>2
    <2> QED
      BY <1>3, <2>1, SeqMonotonic
  <1>5. AuditTypeOK'
    <2>1. garbled' \in 0 .. Len(log') /\ troubles' \in Nat
      BY <1>1, <1>2, <1>3, Parts
    <2> QED
      BY <1>1, <1>2, <1>4, <2>1 DEF AuditInv, AuditTypeOK
  <1>6. LogFits'
    <2> SUFFICES ASSUME NEW p \in 1 .. k, NEW q \in p .. k PROVE log'[p] <= log'[q]
      BY <1>3 DEF LogFits
    <2>1. p \in 1 .. Len(log) /\ q \in p .. Len(log) /\ q \in 1 .. k
      BY <1>2
    <2> QED
      BY <1>3, <2>1 DEF AuditInv, LogFits
  <1>7. Held' \subseteq Held
    <2>1. Written' \subseteq Written
      <3> SUFFICES ASSUME NEW p \in 1 .. k PROVE Entry(p)' \in Written
        BY <1>3 DEF Written
      <3>1. p \in 1 .. Len(log) /\ (p # 1 => p - 1 \in 1 .. k)
        BY <1>2
      <3>2. Entry(p)' = Entry(p)
        BY <1>3, <3>1 DEF Entry
      <3> QED
        BY <3>1, <3>2 DEF Written
    <2> QED
      BY <1>1, <2>1 DEF Held, Pages, EntriesOf
  <1>8. Fresh(Held)'
    <2> SUFFICES ASSUME NEW e \in Held
                 PROVE  e.prev <= e.era /\ e.era <= era + 1 /\ e.era # era + 1
      BY <1>1, <1>7 DEF Fresh
    <2>1. e.prev <= e.era /\ e.era <= era
      BY DEF AuditInv, Fresh
    <2>2. e.era \in Nat
      BY HeldAreEntries DEF Entries
    <2> QED
      BY <1>2, <2>1, <2>2
  <1>9. Alike(Held)'
    BY <1>7 DEF AuditInv, Alike, SameHash
  <1>10. PagesFit' /\ ViewFits'
    BY <1>1 DEF AuditInv, PagesFit, Pages, ViewFits, Segment, Polled, EntriesOf, End, Joins, Agree, Linked,
       SameHash, NamesAsPrevious, Page
  <1> QED
    BY <1>5, <1>6, <1>8, <1>9, <1>10 DEF AuditInv

\* A step that polls nothing new leaves what polls were answered.
LEMMA PollsStay ==
  ASSUME AuditInv
  PROVE  \A d \in polls \union {data} : d = NothingPolled \/ Polled(d)
  BY DEF AuditInv, PagesFit

\* A line that stops decoding, and one put right, touch no page.
LEMMA GarbledMoves ==
  ASSUME AuditInv, UNCHANGED <<followed, log, era, polls, data, failed, due, older, req, portal>>,
         garbled' \in 0 .. Len(log), troubles' \in Nat
  PROVE  AuditInv'
  <1>1. AuditTypeOK' /\ ViewFits' /\ Pages' = Pages
    BY DEF AuditInv, AuditTypeOK, ViewFits, Pages
  <1> QED
    BY <1>1, Parts, PollsStay, PagesMove

LEMMA GarblesKeeps == ASSUME AuditInv, NEW p \in 1 .. MaxLog, p <= Len(log), Garbles(p) PROVE AuditInv'
  <1>1. garbled' \in 0 .. Len(log) /\ troubles' \in Nat
    BY Parts, AuditAssumption DEF Garbles, Troubled
  <1> QED
    BY <1>1, GarbledMoves DEF Garbles

LEMMA MendedKeeps == ASSUME AuditInv, Mended PROVE AuditInv'
  <1>1. garbled' \in 0 .. Len(log) /\ troubles' \in Nat
    BY Parts DEF Mended
  <1> QED
    BY <1>1, GarbledMoves DEF Mended

LEMMA ServedIs ==
  ASSUME AuditInv, NEW pg \in {PageTo(Decoded, Judged)} \union TroubledAnswers
  PROVE  pg \in AuditAnswers /\ Segment(pg) /\ EntriesOf(pg) \subseteq Written /\ Polled(pg)
  <1>1. /\ Decoded \in 0 .. Decoded /\ Judged \in AuditVerdicts /\ "unverified" \in AuditVerdicts
        /\ Judged = "intact" => garbled = 0 /\ era = 1
    BY LineIs DEF AuditInv, Judged, AuditVerdicts
  <1>2. CASE pg = PageTo(Decoded, Judged)
    BY <1>1, <1>2, PageIs DEF AuditInv
  <1>3. CASE pg = PageTo(Decoded, "unverified")
    BY <1>1, <1>3, PageIs DEF AuditInv
  <1>4. ASSUME NEW m \in 0 .. Decoded, NEW verdict \in {Judged, "unverified"},
               pg = Answer(0, m, TRUE, verdict)
        PROVE  pg \in AuditAnswers /\ Segment(pg) /\ EntriesOf(pg) \subseteq Written /\ Polled(pg)
    <2>1. 0 \in Nat /\ 0 <= m /\ TRUE \in BOOLEAN /\ (0 = m => m = 0) /\ verdict \in AuditVerdicts
      BY <1>1
    <2>2. verdict = "intact" => garbled = 0 /\ era = 1
      BY <1>1
    <2> QED
      BY <1>4, <2>1, <2>2, AnswerIs DEF AuditInv
  <1>5. ASSUME NEW m \in 0 .. Decoded,
               pg \in {Answer(0, m, TRUE, Judged), Answer(0, m, TRUE, "unverified")}
        PROVE  pg \in AuditAnswers /\ Segment(pg) /\ EntriesOf(pg) \subseteq Written /\ Polled(pg)
    BY <1>4, <1>5
  <1> QED
    BY <1>2, <1>3, <1>5 DEF TroubledAnswers

LEMMA PollServedKeeps == ASSUME AuditInv, PollServed PROVE AuditInv'
  <1>1. PICK pg \in {PageTo(Decoded, Judged)} \union TroubledAnswers : polls' = polls \union {pg}
    BY DEF PollServed
  <1>0. /\ UNCHANGED <<followed, log, era, garbled, data, failed, due, older, req, portal>>
        /\ troubles' \in Nat
    BY Parts DEF PollServed, Troubled
  <1>2. pg \in AuditAnswers /\ Segment(pg) /\ EntriesOf(pg) \subseteq Written /\ Polled(pg)
    BY ServedIs
  <1>3. AuditTypeOK'
    BY <1>0, <1>1, <1>2 DEF AuditInv, AuditTypeOK
  <1>4. ViewFits'
    BY <1>0 DEF AuditInv, ViewFits
  <1>5. Pages' = Pages \union {pg}
    BY <1>0, <1>1 DEF Pages
  <1> QED
    BY <1>0, <1>1, <1>2, <1>3, <1>4, <1>5, Parts, PollsStay, PagesMove

LEMMA PollLandsKeeps == ASSUME AuditInv, NEW d \in polls, PollLands(d) PROVE AuditInv'
  <1>1. /\ ~due /\ polls' = polls \ {d} /\ data' = d /\ failed' = FALSE /\ due' = (data # d)
        /\ UNCHANGED <<followed, log, era, garbled, troubles, older, req, portal>>
    BY DEF PollLands
  <1>2. AuditTypeOK'
    BY <1>1 DEF AuditInv, AuditTypeOK
  <1>3. ViewFits'
    BY <1>1 DEF AuditInv, ViewFits
  <1>4. Pages' \subseteq Pages
    BY <1>1 DEF Pages
  <1> QED
    BY <1>1, <1>2, <1>3, <1>4, Parts, PollsStay, PagesMove

LEMMA PollFailsKeeps == ASSUME AuditInv, PollFails PROVE AuditInv'
  <1>1. failed' = TRUE /\ UNCHANGED <<followed, log, era, garbled, troubles, polls, data, due, older, req, portal>>
    BY DEF PollFails
  <1>2. AuditTypeOK' /\ ViewFits' /\ Pages' = Pages
    BY <1>1 DEF AuditInv, AuditTypeOK, ViewFits, Pages
  <1> QED
    BY <1>1, <1>2, Parts, PollsStay, PagesMove

LEMMA EffectRunsKeeps == ASSUME AuditInv, EffectRuns PROVE AuditInv'
  <1> DEFINE pg == Page(data)
             joined == Joined(older.view, pg)
  <1>1. /\ due' = FALSE /\ older' = AfterPoll(older, data)
        /\ UNCHANGED <<followed, log, era, garbled, troubles, polls, data, failed, req, portal>>
    BY DEF EffectRuns
  <1>2. pg \in AuditViews /\ Segment(pg) /\ EntriesOf(pg) \subseteq Held
    BY Parts, PageOf
  <1>3. Joins(older.view, pg) =>
            joined \in AuditViews /\ Segment(joined) /\ EntriesOf(joined) \subseteq Held /\ Joins(joined, pg)
    BY <1>2, Parts, HeldJoin
  <1> HIDE DEF joined
  <1>4. /\ older' \in AuditJoins /\ older'.gen >= older.gen
        /\ Segment(older'.view) /\ EntriesOf(older'.view) \subseteq Held
        /\ older'.shown => Joins(older'.view, pg)
    <2>0. older \in AuditJoins /\ older.gen \in Nat
      BY Parts
    <2>1. CASE ~older.shown
      BY <1>1, <2>0, <2>1, Parts DEF AfterPoll
    <2>2. CASE older.shown /\ Joins(older.view, pg)
      <3>1. older' = [older EXCEPT !.view = joined]
        BY <1>1, <2>2 DEF AfterPoll, joined
      <3> QED
        BY <1>3, <2>0, <2>2, <3>1 DEF AuditJoins
    <2>3. CASE older.shown /\ ~Joins(older.view, pg)
      <3>1. older' = [gen |-> older.gen + 1, shown |-> FALSE, view |-> NoView]
        BY <1>1, <2>3 DEF AfterPoll
      <3> QED
        BY <2>0, <3>1, NoneHeld DEF AuditJoins
    <2> QED
      BY <2>1, <2>2, <2>3
  <1>5. AuditTypeOK'
    <2>1. req.gen \in Nat /\ older.gen \in Nat /\ older'.gen \in Nat /\ req.gen <= older.gen
      BY <1>4, Parts DEF AuditInv, AuditTypeOK, AuditRequests, AuditJoins
    <2>2. req'.gen <= older'.gen
      BY <1>1, <1>4, <2>1
    <2> QED
      BY <1>1, <1>4, <2>2 DEF AuditInv, AuditTypeOK
  <1>6. ViewFits'
    BY <1>1, <1>4 DEF ViewFits
  <1>7. Pages' \subseteq Pages \union {older'.view}
    BY <1>1 DEF Pages
  <1> QED
    BY <1>1, <1>4, <1>5, <1>6, <1>7, Parts, PollsStay, PagesMove

\* A change of the request alone.
LEMMA RequestMoves ==
  ASSUME AuditInv, UNCHANGED <<followed, log, era, garbled, polls, data, failed, due, older, portal>>,
         troubles' \in Nat,
         req' \in AuditRequests, req'.gen <= older.gen,
         Segment(req'.base), EntriesOf(req'.base) \subseteq Held,
         Segment(req'.page), EntriesOf(req'.page) \subseteq Held
  PROVE  AuditInv'
  <1>1. AuditTypeOK' /\ ViewFits'
    BY DEF AuditInv, AuditTypeOK, ViewFits
  <1>2. Pages' \subseteq Pages \union {req'.base, req'.page}
    BY DEF Pages
  <1> QED
    BY <1>1, <1>2, Parts, PollsStay, PagesMove

LEMMA RequestGone ==
  /\ NoRequest \in AuditRequests /\ NoRequest.gen = 0
  /\ NoRequest.base = NoAuditPage /\ NoRequest.page = NoAuditPage
  <1> DEFINE none == NoAuditPage
  <1>1. none \in AuditAnswers
    BY NoneHeld
  <1>2. NoRequest = [state |-> "none", before |-> 0, gen |-> 0, base |-> none, page |-> none]
    BY DEF NoRequest
  <1> HIDE DEF none
  <1>3. NoRequest \in AuditRequests /\ NoRequest.gen = 0 /\ NoRequest.base = none /\ NoRequest.page = none
    BY <1>1, <1>2 DEF AuditRequests
  <1> QED
    BY <1>3 DEF none

LEMMA LoadOlderKeeps == ASSUME AuditInv, LoadOlder PROVE AuditInv'
  <1> DEFINE none == NoAuditPage
             cursor == Cursor
  <1>1. /\ req' = [state |-> "sent", before |-> cursor, gen |-> older.gen, base |-> data, page |-> none]
        /\ UNCHANGED <<followed, log, era, garbled, troubles, polls, data, failed, due, older, portal>>
    BY DEF LoadOlder
  <1>2. none \in AuditAnswers /\ Segment(none) /\ EntriesOf(none) \subseteq Held
    BY NoneHeld
  <1>3. cursor \in Nat
    BY Parts DEF Cursor, AuditViews, AuditAnswers
  <1> HIDE DEF none, cursor
  <1>4. /\ req' \in AuditRequests /\ req'.gen = older.gen /\ req'.base = data /\ req'.page = none
    BY <1>1, <1>2, <1>3, Parts DEF AuditRequests
  <1> QED
    BY <1>1, <1>2, <1>4, Parts, RequestMoves

LEMMA ServeOlderKeeps == ASSUME AuditInv, ServeOlder PROVE AuditInv'
  <1> DEFINE Full == PageTo(req.before, "unverified")
             Cut(m) == Answer(0, m, TRUE, "unverified")
             Fits(pg) == pg \in AuditAnswers /\ Segment(pg) /\ EntriesOf(pg) \subseteq Held
  <1>0. troubles \in Nat
    BY Parts
  <1>1. /\ UNCHANGED <<followed, log, era, garbled, polls, data, failed, due, older, portal>>
        /\ troubles' \in Nat
    <2>1. troubles' = troubles \/ troubles' = troubles + 1
      BY DEF ServeOlder, Troubled
    <2>2. UNCHANGED <<followed, log, era, garbled, polls, data, failed, due, older, portal>>
      BY DEF ServeOlder
    <2>3. troubles' \in Nat
      BY <1>0, <2>1
    <2> QED
      BY <2>2, <2>3
  <1>2. /\ req \in AuditRequests /\ req.before \in Nat /\ Decoded \in Nat /\ req.gen <= older.gen
        /\ "unverified" \in AuditVerdicts
    BY Parts, LineIs DEF AuditRequests, AuditInv, AuditTypeOK, AuditVerdicts
  <1>3. ~(req.before > Decoded) => Fits(Full)
    <2>1. ~(req.before > Decoded) => req.before \in 0 .. Decoded
      BY <1>2
    <2> QED
      BY <1>2, <2>1, PageIs, Parts DEF AuditInv
  <1>4. \A m \in 0 .. Decoded : Fits(Cut(m))
    <2> SUFFICES ASSUME NEW m \in 0 .. Decoded PROVE Fits(Cut(m))
      OBVIOUS
    <2>1. 0 \in Nat /\ 0 <= m /\ TRUE \in BOOLEAN
      OBVIOUS
    <2> QED
      BY <1>2, <2>1, AnswerIs, Parts DEF AuditInv
  <1>5. \/ req' = [req EXCEPT !.state = "failed"]
        \/ ~(req.before > Decoded) /\ req' = [req EXCEPT !.state = "ok", !.page = Full]
        \/ \E m \in 0 .. Decoded : req' = [req EXCEPT !.state = "ok", !.page = Cut(m)]
    BY DEF ServeOlder
  <1> HIDE DEF Full, Cut
  <1>6. req' = [req EXCEPT !.state = "failed"] \/ \E pg : Fits(pg) /\ req' = [req EXCEPT !.state = "ok", !.page = pg]
    BY <1>3, <1>4, <1>5
  <1>7. CASE req' = [req EXCEPT !.state = "failed"]
    <2>1. /\ req' \in AuditRequests /\ req'.gen = req.gen /\ req'.base = req.base /\ req'.page = req.page
      BY <1>2, <1>7 DEF AuditRequests
    <2> QED
      BY <1>1, <1>2, <2>1, Parts, RequestMoves
  <1>8. ASSUME NEW pg, Fits(pg), req' = [req EXCEPT !.state = "ok", !.page = pg]
        PROVE  AuditInv'
    <2>1. /\ req' \in AuditRequests /\ req'.gen = req.gen /\ req'.base = req.base /\ req'.page = pg
      BY <1>2, <1>8 DEF AuditRequests
    <2> QED
      BY <1>1, <1>2, <1>8, <2>1, Parts, RequestMoves
  <1> QED
    BY <1>6, <1>7, <1>8

LEMMA OlderFailsKeeps == ASSUME AuditInv, OlderFails PROVE AuditInv'
  <1>1. req' = NoRequest /\ UNCHANGED <<followed, log, era, garbled, troubles, polls, data, failed, due, older, portal>>
    BY DEF OlderFails
  <1>2. 0 <= older.gen /\ troubles' \in Nat
    BY <1>1, Parts
  <1> QED
    BY <1>1, <1>2, RequestGone, NoneHeld, RequestMoves

\* What Load older leaves shows held entries of one chain, joined to the newest page.
LEMMA AfterOlderFits ==
  ASSUME AuditInv
  PROVE  LET o == AfterOlder(older, req, data)
         IN  /\ o \in AuditJoins /\ o.gen = older.gen
             /\ Segment(o.view) /\ EntriesOf(o.view) \subseteq Held
             /\ o = older \/ Joins(o.view, Page(data))
  <1> DEFINE base == IF older.shown THEN older.view ELSE Page(req.base)
             got == Page(req.page)
             both == Joined(got, base)
             latest == Page(data)
             view == Joined(both, latest)
             o == AfterOlder(older, req, data)
             taken == /\ req.gen = older.gen /\ End(got) = base.first
                      /\ Joins(got, base) /\ Joins(both, latest)
  <1>1. o = IF taken THEN [older EXCEPT !.shown = TRUE, !.view = view] ELSE older
    BY DEF AfterOlder
  <1>2. /\ base \in AuditViews /\ Segment(base) /\ EntriesOf(base) \subseteq Held
        /\ got \in AuditViews /\ Segment(got) /\ EntriesOf(got) \subseteq Held
        /\ latest \in AuditViews /\ Segment(latest) /\ EntriesOf(latest) \subseteq Held
    BY Parts, PageOf
  <1> HIDE DEF base, got, latest
  <1>3. Joins(got, base) => both \in AuditViews /\ Segment(both) /\ EntriesOf(both) \subseteq Held
    BY <1>2, HeldJoin
  <1> HIDE DEF both
  <1>4. taken => /\ view \in AuditViews /\ Segment(view) /\ EntriesOf(view) \subseteq Held
                 /\ Joins(view, latest)
    BY <1>2, <1>3, HeldJoin
  <1> HIDE DEF view, taken
  <1>5. CASE taken
    <2>1. o = [older EXCEPT !.shown = TRUE, !.view = view]
      BY <1>1, <1>5
    <2> HIDE DEF o
    <2>2. o \in AuditJoins /\ o.gen = older.gen /\ o.view = view
      BY <1>4, <1>5, <2>1, Parts DEF AuditJoins
    <2> QED
      BY <1>4, <1>5, <2>2 DEF o, latest
  <1>6. CASE ~taken
    BY <1>1, <1>6, Parts
  <1> QED
    BY <1>5, <1>6

LEMMA OlderLandsKeeps == ASSUME AuditInv, OlderLands PROVE AuditInv'
  <1>1. /\ older' = AfterOlder(older, req, data) /\ req' = NoRequest
        /\ UNCHANGED <<followed, log, era, garbled, troubles, polls, data, failed, due, portal>>
    BY DEF OlderLands
  <1>2. /\ older' \in AuditJoins /\ older'.gen = older.gen
        /\ Segment(older'.view) /\ EntriesOf(older'.view) \subseteq Held
        /\ older' = older \/ Joins(older'.view, Page(data))
    BY <1>1, AfterOlderFits
  <1>3. AuditTypeOK'
    <2>1. req'.gen <= older'.gen
      BY <1>1, <1>2, RequestGone, Parts
    <2> QED
      BY <1>1, <1>2, <2>1, RequestGone DEF AuditInv, AuditTypeOK
  <1>4. ViewFits'
    BY <1>1, <1>2 DEF AuditInv, ViewFits
  <1>5. Pages' \subseteq Pages \union {older'.view, NoAuditPage}
    BY <1>1, RequestGone DEF Pages
  <1> QED
    BY <1>1, <1>2, <1>3, <1>4, <1>5, NoneHeld, Parts, PollsStay, PagesMove

\* The search panel shares nothing with the log's.
LEMMA PortalMoves ==
  ASSUME AuditInv, UNCHANGED <<followed, log, era, garbled, troubles, polls, data, failed, due, older, req>>,
         portal' \in AuditSearches
  PROVE  AuditInv'
  <1>1. AuditTypeOK' /\ ViewFits' /\ Pages' = Pages
    BY DEF AuditInv, AuditTypeOK, ViewFits, Pages
  <1> QED
    BY <1>1, Parts, PollsStay, PagesMove

LEMMA SearchesKeep ==
  ASSUME AuditInv, NEW q \in Queries \union {NoQuery},
         RunSearch(q) \/ SearchLands(q) \/ SearchFails(q)
  PROVE  AuditInv'
  <1> DEFINE more == portal.air \union {q}
             less == portal.air \ {q}
             made == portal.made + 1
  <1>1. portal \in AuditSearches /\ q \in AnyQuery
    BY Parts DEF AnyQuery
  <1>2. more \in SUBSET AnyQuery /\ less \in SUBSET AnyQuery /\ made \in Nat
    BY <1>1 DEF AuditSearches
  <1>3. /\ UNCHANGED <<followed, log, era, garbled, troubles, polls, data, failed, due, older, req>>
        /\ \/ portal' = [portal EXCEPT !.last = q, !.air = more, !.loading = TRUE,
                             !.failed = FALSE, !.made = made]
           \/ portal' = [portal EXCEPT !.air = less, !.rows = q, !.loaded = TRUE, !.loading = FALSE]
           \/ portal' = [portal EXCEPT !.air = less, !.failed = TRUE, !.loading = FALSE]
    BY DEF RunSearch, SearchLands, SearchFails
  <1> HIDE DEF more, less, made
  <1>4. portal' \in AuditSearches
    BY <1>1, <1>2, <1>3 DEF AuditSearches
  <1> QED
    BY <1>3, <1>4, PortalMoves
-----------------------------------------------------------------------------
LEMMA AuditInitFits == ASSUME AuditInit PROVE AuditInv
  <1>0. PICK n \in 0 .. MaxLog : log = [p \in 1 .. n |-> 1]
    BY AuditAssumption DEF AuditInit
  <1>1. n \in Nat /\ Len(log) = n /\ log \in Seq(1 .. 1) /\ era = 1 /\ \A p \in 1 .. n : log[p] = 1
    BY <1>0, AuditAssumption DEF AuditInit
  <1>2. /\ polls = {} /\ garbled = 0 /\ troubles = 0 /\ data = NothingPolled /\ failed = FALSE /\ due = FALSE /\ req = NoRequest
        /\ followed \in {"log", "portal"}
    BY DEF AuditInit
  <1>3. older = [gen |-> 0, shown |-> FALSE, view |-> NoView] /\ older \in AuditJoins
    BY NoneHeld DEF AuditInit, AuditJoins
  <1>4. portal \in AuditSearches
    <2> DEFINE air == {NoQuery}
    <2>1. portal = [last |-> NoQuery, air |-> air, rows |-> NoQuery, loaded |-> FALSE,
                    loading |-> TRUE, failed |-> FALSE, made |-> 0]
      BY DEF AuditInit
    <2>2. air \in SUBSET AnyQuery /\ NoQuery \in AnyQuery
      BY DEF AnyQuery
    <2> HIDE DEF air
    <2> QED
      BY <2>1, <2>2 DEF AuditSearches
  <1>5. AuditTypeOK
    <2>1. req.gen <= older.gen
      BY <1>2, <1>3, RequestGone
    <2>2. era \in Nat \ {0} /\ log \in Seq(1 .. era) /\ garbled \in 0 .. Len(log) /\ troubles \in Nat
      BY <1>1, <1>2
    <2>3. polls \subseteq AuditAnswers /\ data \in AuditAnswers /\ req \in AuditRequests
      BY <1>2, NoneHeld, RequestGone
    <2> QED
      BY <1>2, <1>3, <1>4, <2>1, <2>2, <2>3 DEF AuditTypeOK
  <1>6. \A x \in Pages : Segment(x) /\ EntriesOf(x) = {}
    BY <1>2, <1>3, NoneHeld, RequestGone DEF Pages
  <1>7. Held = Written
    BY <1>6 DEF Held
  <1>8. \A p \in 1 .. n : Entry(p).at = p /\ Entry(p).era = 1 /\ Entry(p).prev = IF p = 1 THEN 0 ELSE 1
    <2> SUFFICES ASSUME NEW p \in 1 .. n
                 PROVE  Entry(p).at = p /\ Entry(p).era = 1 /\ Entry(p).prev = IF p = 1 THEN 0 ELSE 1
      OBVIOUS
    <2>1. p # 1 => p - 1 \in 1 .. n
      BY <1>1
    <2> QED
      BY <1>1, <2>1 DEF Entry
  <1>9. \A e \in Held : e.at \in 1 .. n /\ e.era = 1 /\ e.prev = IF e.at = 1 THEN 0 ELSE 1
    BY <1>1, <1>7, <1>8 DEF Written
  <1>10. Alike(Held)
    BY <1>9 DEF Alike, SameHash
  <1>11. Fresh(Held)
    BY <1>1, <1>9 DEF Fresh
  <1>12. LogFits
    BY <1>1 DEF LogFits
  <1> QED
    BY <1>2, <1>3, <1>5, <1>6, <1>10, <1>11, <1>12 DEF AuditInv, PagesFit, ViewFits

LEMMA AuditStays == ASSUME AuditInv, UNCHANGED auditVars PROVE AuditInv'
  <1>1. UNCHANGED <<followed, log, era, garbled, troubles, polls, data, failed, due, older, req, portal>>
    BY DEF auditVars
  <1> QED
    BY <1>1, Parts, PortalMoves

\* The log's panel and the search panel keep the invariant.
THEOREM AuditPagesInductive == AuditSpec => []AuditInv
  <1>1. AuditInit => AuditInv
    BY AuditInitFits
  <1>2. AuditInv /\ [AuditNext]_auditVars => AuditInv'
    <2> SUFFICES ASSUME AuditInv, [AuditNext]_auditVars PROVE AuditInv'
      OBVIOUS
    <2>1. ASSUME Append1 \/ \E k \in 0 .. MaxLog : k < Len(log) /\ Replaced(k)
          PROVE  AuditInv'
      BY <2>1, Append1Keeps, ReplacedKeeps
    <2>0. ASSUME Mended \/ \E p \in 1 .. MaxLog : p <= Len(log) /\ Garbles(p)
          PROVE  AuditInv'
      BY <2>0, GarblesKeeps, MendedKeeps
    <2>2. ASSUME PollServed \/ PollFails \/ \E d \in polls : PollLands(d)
          PROVE  AuditInv'
      BY <2>2, PollServedKeeps, PollFailsKeeps, PollLandsKeeps
    <2>3. ASSUME EffectRuns \/ LoadOlder \/ ServeOlder \/ OlderLands \/ OlderFails
          PROVE  AuditInv'
      BY <2>3, EffectRunsKeeps, LoadOlderKeeps, ServeOlderKeeps, OlderLandsKeeps, OlderFailsKeeps
    <2>4. ASSUME NEW q \in Queries \union {NoQuery},
                 RunSearch(q) \/ SearchLands(q) \/ SearchFails(q)
          PROVE  AuditInv'
      BY <2>4, SearchesKeep
    <2>5. CASE UNCHANGED auditVars
      BY <2>5, AuditStays
    <2> QED
      BY <2>0, <2>1, <2>2, <2>3, <2>4, <2>5 DEF AuditNext
  <1> QED
    BY <1>1, <1>2, PTL DEF AuditSpec

\* What is drawn is a run of one chain that ends where the newest page does.
LEMMA RawFits ==
  ASSUME AuditInv
  PROVE  /\ Raw \in AuditViews /\ Segment(Raw) /\ End(Raw) = End(data)
         /\ Len(Raw.entries) >= Len(data.entries)
         /\ Raw.first = data.first \/ (older.shown /\ Raw.first = older.view.first)
         /\ ~due => Raw.first = Cursor
         /\ data.entries # <<>> =>
                Raw.entries[Len(Raw.entries)] = data.entries[Len(data.entries)]
  <1> DEFINE pg == Page(data)
             m == Len(data.entries)
             joined == Joined(older.view, pg)
  <1>1. /\ pg \in AuditViews /\ Segment(pg) /\ EntriesOf(pg) \subseteq Held
        /\ End(pg) = End(data) /\ pg.first = data.first /\ pg.entries = data.entries
    BY Parts, PageOf
  <1>2. m \in Nat /\ data.entries \in Seq(Entries) /\ (data.entries # <<>> => m \in 1 .. m)
    BY Parts DEF AuditAnswers
  <1>3. CASE older.shown /\ Joins(older.view, pg)
    <2>1. Raw = joined
      BY <1>3 DEF Raw
    <2>2. /\ joined \in AuditViews /\ Segment(joined)
          /\ joined.first = older.view.first /\ End(joined) = End(pg)
      BY <1>1, <1>3, Parts, HeldJoin
    <2>3. PICK k \in Nat : /\ Len(joined.entries) = k + m
                           /\ \A i \in 1 .. m : joined.entries[k + i] = data.entries[i]
      <3> DEFINE k == pg.first - older.view.first
      <3>1. /\ k \in Nat /\ Len(joined.entries) = k + Len(pg.entries)
            /\ \A i \in 1 .. Len(pg.entries) : joined.entries[k + i] = pg.entries[i]
        BY <1>1, <1>3, Parts, JoinedIs
      <3> HIDE DEF k, joined
      <3> QED
        BY <1>1, <3>1
    <2> HIDE DEF joined, m
    <2>4. Len(joined.entries) >= m
      BY <1>2, <2>3
    <2>5. data.entries # <<>> => joined.entries[Len(joined.entries)] = data.entries[m]
      BY <1>2, <2>3
    <2>6. Cursor = older.view.first
      BY <1>3 DEF Cursor
    <2> QED
      BY <1>1, <1>3, <2>1, <2>2, <2>4, <2>5, <2>6 DEF m
  <1>4. CASE ~(older.shown /\ Joins(older.view, pg))
    <2>1. Raw = pg
      BY <1>4 DEF Raw
    <2>2. ~due => Cursor = data.first
      BY <1>4 DEF Cursor, AuditInv, ViewFits
    <2> QED
      BY <1>1, <1>2, <2>1, <2>2
  <1> QED
    BY <1>3, <1>4

LEMMA RawCounts ==
  ASSUME AuditInv, Loaded
  PROVE  /\ Raw.first \in Nat /\ Recorded \in Nat /\ data.total \in Nat
         /\ Raw.first + Recorded = data.total
         /\ HeldAll => Recorded >= data.total
         /\ data.entries = <<>> => Recorded = 0 /\ data.total = 0
  <1> DEFINE m == Len(data.entries)
             total == data.total
             first == Raw.first
  <1>1. Polled(data) /\ m \in Nat /\ total \in Nat /\ data.first \in Nat
    BY Parts DEF Loaded, AuditAnswers
  <1>2. first \in Nat /\ Recorded \in Nat
    BY RawFits DEF AuditViews, Recorded
  <1>3. first + Recorded = total
    BY <1>1, RawFits DEF Polled, End, Recorded
  <1>4. Recorded >= m
    BY RawFits DEF Recorded
  <1>5. HeldAll => m >= total \/ Recorded >= total
    BY <1>1 DEF HeldAll, Truncated
  <1>6. data.entries = <<>> => total = 0
    BY <1>1 DEF Polled
  <1> HIDE DEF m, total, first
  <1>7. HeldAll => Recorded >= total
    BY <1>1, <1>2, <1>4, <1>5
  <1>8. data.entries = <<>> => Recorded = 0
    BY <1>2, <1>3, <1>6
  <1> QED
    BY <1>1, <1>2, <1>3, <1>6, <1>7, <1>8 DEF total, first

\* The Audit tab shows one run of one chain, and claims no more of it than is
\* true (auditChain.js 252-261).
THEOREM OneLogAlwaysWhole == AuditSpec => []OneLogNoHole
  <1>1. AuditInv => OneLogNoHole
    <2> SUFFICES ASSUME AuditInv PROVE OneLogNoHole
      OBVIOUS
    <2> DEFINE entries == Raw.entries
    <2>0. /\ entries \in Seq(Entries) /\ Recorded = Len(entries)
          /\ Segment(Raw)
      BY RawFits DEF AuditViews, Recorded
    <2>1. ASSUME Showing = "empty"
          PROVE  data.total = 0
      <3>1. Loaded /\ entries = <<>>
        BY <2>1 DEF Showing
      <3>2. Len(data.entries) = 0
        <4>1. 0 >= Len(data.entries) /\ Len(data.entries) \in Nat
          BY <3>1, RawFits, Parts DEF AuditAnswers
        <4> QED
          BY <4>1
      <3>3. data.entries = <<>>
        BY <3>2, Parts DEF AuditAnswers
      <3> QED
        BY <3>1, <3>3, RawCounts
    <2>2. ASSUME Showing = "rows"
          PROVE  /\ data.skips \/ \A i \in 2 .. Recorded : NamesAsPrevious(Raw.entries[i], Raw.entries[i - 1])
                 /\ HeldAll => Recorded = data.total
                 /\ ~HeldAll /\ ~due => CanLoadOlder
                 /\ ChainVerdict = "intact" =>
                        ~data.skips /\ \A i \in 1 .. Recorded : Raw.entries[i].era = 1
      <3>0. Loaded
        BY <2>2 DEF Showing
      <3>1. /\ Raw.first \in Nat /\ Recorded \in Nat /\ data.total \in Nat
            /\ Raw.first + Recorded = data.total
            /\ HeldAll => Recorded >= data.total
            /\ data.entries = <<>> => Recorded = 0 /\ data.total = 0
        BY <3>0, RawCounts
      <3>6. data.entries # <<>>
        BY <2>2, <3>1 DEF Showing, Recorded
      <3>7. Recorded \in 1 .. Len(entries) /\ entries \in Seq(Entries)
        BY <2>0, <2>2, <3>1 DEF Showing
      <3>2. ASSUME ~data.skips, NEW i \in 2 .. Recorded
            PROVE  NamesAsPrevious(Raw.entries[i], Raw.entries[i - 1])
        <4>1. Raw.entries[Recorded].at = Raw.first + Recorded
          <5>1. data.entries[Len(data.entries)].at = End(data)
            BY <3>0, <3>2, <3>6, Parts DEF Loaded, Polled
          <5>2. Raw.entries[Recorded] = data.entries[Len(data.entries)]
            BY <3>6, RawFits DEF Recorded
          <5> QED
            BY <5>1, <5>2, RawFits DEF End, Recorded
        <4>2. ASSUME NEW h \in 1 .. Recorded
              PROVE  Raw.entries[h].at = Raw.first + h
          <5>1. h \in 1 .. Len(Raw.entries) /\ Recorded \in h .. Len(Raw.entries)
            BY <2>0, <3>1
          <5>2. /\ Raw.entries[h].at >= Raw.first + h
                /\ Raw.entries[h].at + Recorded <= Raw.entries[Recorded].at + h
            BY <2>0, <5>1 DEF Segment
          <5>3. Raw.entries[h].at \in Nat
            <6>1. Raw.entries[h] \in Entries
              BY <2>0, <5>1
            <6> QED
              BY <6>1 DEF Entries
          <5>4. /\ Raw.entries[Recorded].at \in Nat /\ Raw.first \in Nat /\ h \in Nat /\ Recorded \in Nat
            <6>1. Raw.entries[Recorded] \in Entries
              BY <2>0, <3>7
            <6> QED
              BY <3>1, <6>1 DEF Entries
          <5> DEFINE a == Raw.entries[h].at
                     b == Raw.first
                     c == Raw.entries[Recorded].at
                     m == Recorded
          <5>5. /\ a \in Nat /\ b \in Nat /\ c \in Nat /\ m \in Nat /\ h \in Nat
                /\ a >= b + h /\ a + m <= c + h /\ c = b + m
            BY <4>1, <5>2, <5>3, <5>4
          <5> HIDE DEF a, b, c, m
          <5>6. a = b + h
            BY <5>5
          <5> QED
            BY <5>6 DEF a, b
        <4>3. i \in 1 .. Recorded /\ i - 1 \in 1 .. Recorded /\ i > 1 /\ i \in 1 .. Len(Raw.entries)
          BY <2>0, <3>1
        <4>4. Raw.entries[i].at = Raw.first + i /\ Raw.entries[i - 1].at = Raw.first + (i - 1)
          BY <4>2, <4>3
        <4>5. Raw.entries[i].at = Raw.entries[i - 1].at + 1
          BY <3>1, <4>4
        <4>6. Follows(Raw.entries[i - 1], Raw.entries[i])
          BY <2>0, <4>3 DEF Segment
        <4> QED
          BY <4>5, <4>6 DEF Follows, NamesAsPrevious
      <3>3. HeldAll => Recorded = data.total
        BY <3>1
      <3>4. ASSUME ~HeldAll, ~due
            PROVE  CanLoadOlder
        <4>1. Truncated(data) /\ Recorded < data.total
          BY <3>1, <3>4 DEF HeldAll
        <4>2. Raw.first = Cursor
          BY <3>4, RawFits
        <4>3. Cursor > 0
          BY <3>1, <4>1, <4>2
        <4> QED
          BY <3>0, <4>1, <4>3 DEF CanLoadOlder
      <3>5. ASSUME ChainVerdict = "intact", NEW i \in 1 .. Recorded
            PROVE  Raw.entries[i].era = 1
        <4>1. Polled(data) /\ data.verdict = "intact"
          BY <3>0, <3>5, Parts DEF ChainVerdict, Loaded
        <4>2. data.entries # <<>>
          BY <3>1
        <4>3. Len(data.entries) \in 1 .. Len(data.entries)
          BY <4>2, Parts DEF AuditAnswers
        <4>4. data.entries[Len(data.entries)].era = 1
          BY <4>1, <4>3 DEF Polled, EntriesOf
        <4>5. Raw.entries[Recorded].era = 1
          BY <4>2, <4>4, RawFits DEF Recorded
        <4>6. Recorded \in i .. Recorded /\ i \in 1 .. Len(Raw.entries)
          BY <2>0, <3>1
        <4>7. Raw.entries[i].era <= Raw.entries[Recorded].era
          BY <2>0, <4>6 DEF Segment
        <4>8. Raw.entries[i].era \in Nat \ {0}
          <5>1. Raw.entries[i] \in Entries
            BY <2>0, <4>6
          <5> QED
            BY <5>1 DEF Entries
        <4> QED
          BY <4>5, <4>7, <4>8
      <3>8. ChainVerdict = "intact" => ~data.skips
        BY <3>0, Parts DEF ChainVerdict, Loaded, Polled
      <3> QED
        BY <3>2, <3>3, <3>4, <3>5, <3>8
    <2> QED
      BY <2>1, <2>2 DEF OneLogNoHole, AuditInv
  <1> QED
    BY <1>1, AuditPagesInductive, PTL

-----------------------------------------------------------------------------
(* Saved charts.                                                           *)

\* What a menu can stand on, and picks the server offers.
Levels == UNION {{Combos[i][n] : n \in 1 .. 5} : i \in DOMAIN Combos}
Fields == {Combos[i][Split] : i \in DOMAIN Combos}
PickChoices == {p \in [at : Seq(Levels), only : Fields \union {NoField}] : Len(p.at) = 5 /\ Offered(p)}

\* The first n levels of some combination.
Begun(n) == {s \in Seq(Levels) : Len(s) = n /\ Fitting(s) # {}}

\* A set of naturals that is not empty has a least one.
LEMMA LeastOf ==
    ASSUME NEW T, T \subseteq Nat, T # {}
    PROVE  \E x \in T : \A y \in T : x <= y
  <1> DEFINE Less == {ss \in Nat \X Nat : ss[1] < ss[2]}
  <1>1. IsWellFoundedOn(Less, Nat)
    BY NatLessThanWellFounded DEF OpToRel
  <1>2. PICK x \in T : \A y \in T : ~ (<<y, x>> \in Less)
    <2> HIDE DEF Less
    <2> QED
      BY <1>1, WFMin
  <1>3. ASSUME NEW y \in T, y < x PROVE FALSE
    <2>1. x \in Nat /\ y \in Nat
      OBVIOUS
    <2>2. <<y, x>> \in Less
      BY <1>3, <2>1
    <2> QED
      BY <1>2, <2>2
  <1> QED
    BY <1>2, <1>3

LEMMA CombosAre ==
  /\ DOMAIN Combos = 1 .. Len(Combos) /\ Len(Combos) \in Nat \ {0} /\ 1 \in DOMAIN Combos
  /\ \A i \in DOMAIN Combos : Combos[i] \in Seq(Levels) /\ Len(Combos[i]) = 5
  /\ \A i \in DOMAIN Combos : \A n \in 1 .. 5 : Combos[i][n] \in Levels
  <1>1. Len(Combos) \in Nat \ {0} /\ Combos = [i \in 1 .. Len(Combos) |-> Combos[i]]
    BY ChartsAssumption
  <1>2. DOMAIN Combos = 1 .. Len(Combos) /\ 1 \in DOMAIN Combos
    BY <1>1
  <1>3. \A i \in DOMAIN Combos : \A n \in 1 .. 5 : Combos[i][n] \in Levels
    BY DEF Levels
  <1>4. \A i \in DOMAIN Combos : Combos[i] = [j \in 1 .. 5 |-> Combos[i][j]]
    BY ChartsAssumption
  <1>5. ASSUME NEW i \in DOMAIN Combos
        PROVE  Combos[i] \in Seq(Levels) /\ Len(Combos[i]) = 5
    <2> DEFINE c == [j \in 1 .. 5 |-> Combos[i][j]]
    <2>1. c \in [1 .. 5 -> Levels]
      BY <1>3
    <2>2. c \in Seq(Levels) /\ Len(c) = 5
      BY <2>1
    <2> HIDE DEF c
    <2>3. Combos[i] = c
      BY <1>4 DEF c
    <2> QED
      BY <2>2, <2>3
  <1> QED
    BY <1>1, <1>2, <1>3, <1>5

LEMMA PrefixIs ==
  ASSUME NEW S, NEW c \in Seq(S), NEW n \in 0 .. Len(c)
  PROVE  Prefix(c, n) \in Seq(S) /\ Len(Prefix(c, n)) = n /\ \A j \in 1 .. n : Prefix(c, n)[j] = c[j]
  BY DEF Prefix

\* One more level of a combination.
LEMMA PrefixGrows ==
  ASSUME NEW i \in DOMAIN Combos, NEW n \in 0 .. 4
  PROVE  Prefix(Combos[i], n + 1) = Append(Prefix(Combos[i], n), Combos[i][n + 1])
  <1> DEFINE c == Combos[i]
             a == Prefix(c, n)
             b == Prefix(c, n + 1)
             d == Append(a, c[n + 1])
  <1>1. c \in Seq(Levels) /\ Len(c) = 5 /\ c[n + 1] \in Levels
    BY CombosAre
  <1> HIDE DEF c
  <1>0. n \in 0 .. Len(c) /\ n + 1 \in 0 .. Len(c)
    BY <1>1
  <1>2. a \in Seq(Levels) /\ Len(a) = n /\ \A j \in 1 .. n : a[j] = c[j]
    BY <1>0, <1>1, PrefixIs
  <1>3. b \in Seq(Levels) /\ Len(b) = n + 1 /\ \A j \in 1 .. n + 1 : b[j] = c[j]
    BY <1>0, <1>1, PrefixIs
  <1> HIDE DEF a, b
  <1>4. d \in Seq(Levels) /\ Len(d) = n + 1 /\ d[n + 1] = c[n + 1] /\ \A j \in 1 .. n : d[j] = a[j]
    BY <1>1, <1>2
  <1> HIDE DEF d
  <1>5. \A j \in 1 .. n + 1 : d[j] = b[j]
    BY <1>2, <1>3, <1>4
  <1>6. b = d
    BY <1>3, <1>4, <1>5
  <1> QED
    BY <1>6 DEF a, b, c, d

\* The first of what is allowed is allowed.
LEMMA FirstIsAllowed ==
  ASSUME NEW before, Fitting(before) # {}
  PROVE  FirstAt(before) \in AllowedAt(before)
  <1>1. Fitting(before) \subseteq Nat
    BY CombosAre DEF Fitting
  <1>2. \E i \in Fitting(before) : \A j \in Fitting(before) : i <= j
    BY <1>1, LeastOf
  <1> QED
    BY <1>2 DEF FirstAt, AllowedAt

LEMMA SettleLevelFits ==
  ASSUME NEW n \in 0 .. 4, NEW before \in Begun(n), NEW v
  PROVE  SettleLevel(before, v) \in Begun(n + 1)
  <1> DEFINE w == IF v \in AllowedAt(before) THEN v ELSE FirstAt(before)
             s == Append(before, w)
  <1>1. before \in Seq(Levels) /\ Len(before) = n /\ Fitting(before) # {}
    BY DEF Begun
  <1>2. w \in AllowedAt(before)
    BY <1>1, FirstIsAllowed
  <1> HIDE DEF w
  <1>3. PICK i \in DOMAIN Combos : Prefix(Combos[i], n) = before /\ w = Combos[i][n + 1]
    BY <1>1, <1>2 DEF AllowedAt, Fitting
  <1>4. w \in Levels
    BY <1>3, CombosAre
  <1>5. s \in Seq(Levels) /\ Len(s) = n + 1
    BY <1>1, <1>4
  <1>6. Prefix(Combos[i], n + 1) = s
    BY <1>3, PrefixGrows
  <1>7. i \in Fitting(s)
    BY <1>5, <1>6 DEF Fitting
  <1> QED
    BY <1>5, <1>7 DEF Begun, SettleLevel, w

\* settlePicks comes to offered picks, whatever was picked before.
LEMMA SettledIsOffered == ASSUME NEW p PROVE SettlePicks(p) \in PickChoices
  <1> DEFINE one == SettleLevel(<<>>, p.at[1])
             two == SettleLevel(one, p.at[2])
             three == SettleLevel(two, p.at[3])
             four == SettleLevel(three, p.at[4])
             at == SettleLevel(four, p.at[5])
             only == IF p.only \in FilterFields(at) THEN p.only ELSE NoField
  <1>1. <<>> \in Begun(0)
    <2>1. Prefix(Combos[1], 0) = <<>>
      <3>1. Combos[1] \in Seq(Levels) /\ Len(Combos[1]) = 5
        BY CombosAre
      <3> QED
        BY <3>1 DEF Prefix
    <2>2. Len(<<>>) = 0 /\ <<>> \in Seq(Levels)
      OBVIOUS
    <2> QED
      BY <2>1, <2>2, CombosAre DEF Begun, Fitting
  <1>2. one \in Begun(1)
    BY <1>1, SettleLevelFits
  <1> HIDE DEF one
  <1>3. two \in Begun(2)
    BY <1>2, SettleLevelFits
  <1> HIDE DEF two
  <1>4. three \in Begun(3)
    BY <1>3, SettleLevelFits
  <1> HIDE DEF three
  <1>5. four \in Begun(4)
    BY <1>4, SettleLevelFits
  <1> HIDE DEF four
  <1>6. at \in Begun(5)
    BY <1>5, SettleLevelFits
  <1> HIDE DEF at
  <1>7. PICK i \in DOMAIN Combos : Prefix(Combos[i], 5) = at
    BY <1>6 DEF Begun, Fitting
  <1>8. Combos[i] = at
    <2>1. Combos[i] \in Seq(Levels) /\ Len(Combos[i]) = 5
      BY CombosAre
    <2> DEFINE c == Combos[i]
    <2>2. Prefix(c, 5) = c
      <3> HIDE DEF c
      <3> DEFINE d == Prefix(c, 5)
      <3>0. c \in Seq(Levels) /\ Len(c) = 5
        BY <2>1 DEF c
      <3>1. d \in Seq(Levels) /\ Len(d) = 5 /\ \A j \in 1 .. 5 : d[j] = c[j]
        BY <3>0, PrefixIs
      <3> HIDE DEF d
      <3>2. d = c
        BY <3>0, <3>1
      <3> QED
        BY <3>2 DEF d
    <2> QED
      BY <1>7, <2>2
  <1>9. only \in Fields \union {NoField} /\ (only = NoField \/ only \in FilterFields(at))
    BY DEF FilterFields, Fields
  <1> HIDE DEF only
  <1>10. SettlePicks(p) = [at |-> at, only |-> only]
    BY DEF SettlePicks, one, two, three, four, at, only
  <1> QED
    BY <1>6, <1>8, <1>9, <1>10 DEF Begun, PickChoices, Offered
-----------------------------------------------------------------------------
\* The chains of requests.
ChartRecs == [id : Nat, replaces : MaybePanel, picks : PickChoices]
Lefts(kind) ==
    CASE kind \in {"add", "change"} -> {<<"post">>}
      [] kind = "replace" -> {<<"post", "read", "hide">>, <<"read", "hide">>, <<"hide">>}
      [] kind = "restore" -> {<<"show", "delete">>, <<"delete">>}
      [] kind = "remove" -> {<<"delete">>}
      [] kind = "gesture" -> {<<"show">>}
Savers == {"add", "change"}
Chains == Savers \union Writers \union {"remove"}
Chained ==
    [kind : Chains, chart : ChartRecs, lay : Layouts,
     left : UNION {Lefts(k) : k \in Chains}, ans : {"sent", "ok", "bad"}, mine : BOOLEAN]
ChartForms ==
    [kind : {"none", "add", "change", "replace"}, id : Nat, panel : MaybePanel,
     read : SUBSET ChartRecs, looked : BOOLEAN, state : {"idle", "busy", "done", "failed"}]
ChartPages ==
    [open : BOOLEAN, charts : SUBSET ChartRecs, order : {"default", "own"}, hidden : SUBSET BuiltIns]
Pasts == [replaced : SUBSET BuiltIns, stored : SUBSET PickChoices, crossed : BOOLEAN]

\* Every chart that somebody holds.
HeldCharts == charts \union page.charts \union form.read \union {t.chart : t \in tasks}

ChartsHeld ==
    /\ picks \in PickChoices /\ form \in ChartForms /\ page \in ChartPages /\ charts \subseteq ChartRecs
    /\ layout \in Layouts /\ tasks \subseteq Chained /\ ids \in 0 .. MaxCharts
    /\ chartPast \in Pasts /\ chartDoing \in ChartDoings
    /\ \A t \in tasks : t.left \in Lefts(t.kind)

\* An id stands for one panel, or for none, wherever its chart is held.
PanelsFit ==
    /\ form.id <= ids /\ \A c \in HeldCharts : c.id <= ids /\ (c.id = 0 => c.replaces = NoBuiltIn)
    /\ \A c, d \in HeldCharts : c.id = d.id => c.replaces = d.replaces
    /\ form.kind = "replace" =>
           /\ form.panel \in BuiltIns
           /\ form.id # 0 => \A c \in HeldCharts : c.id = form.id => c.replaces = form.panel
    /\ \A c, d \in charts : c.id = d.id => c = d

\* What a chain has done, which it may count on while no other writes the layout.
IsSaved(t) == \E c \in charts : c.id = t.chart.id
ChainFits(t) ==
    /\ t.kind = "replace" => t.chart.replaces \in BuiltIns
    /\ t.kind = "remove" => t.chart.replaces = NoBuiltIn
    /\ t.kind = "restore" => t.chart.replaces \notin t.lay.hidden
    /\ t.kind = "replace" /\ (Head(t.left) # "post" \/ t.ans = "ok") => IsSaved(t)
    /\ t.kind = "restore" /\ (Head(t.left) # "show" \/ t.ans = "ok") =>
           t.chart.replaces \notin chartPast.replaced
WritersFit ==
    /\ chartPast.replaced \subseteq layout.hidden
    /\ ~chartPast.crossed =>
           /\ \A t \in tasks : ChainFits(t)
           /\ \A t, u \in tasks : t.kind \in Writers /\ u.kind \in Writers => t = u
           /\ ReplacedPanelHasItsChart

\* A chain that will speak to the form was started from the picks on screen.
FormFits ==
    /\ SaidOfTheseChoices
    /\ \A t \in tasks :
           /\ t.mine /\ t.kind \in Savers => form.kind # "replace" /\ t.chart.picks = picks
           /\ t.mine /\ t.kind = "replace" => form.kind = "replace"
           /\ chartDoing = "saving" /\ t.kind \in Savers /\ t.ans = "ok" =>
                  t.chart.picks \in chartPast.stored

ChartsInv == ChartsHeld /\ PanelsFit /\ WritersFit /\ FormFits
-----------------------------------------------------------------------------
\* What ChartsInv says of each variable.
LEMMA ChartParts ==
  ASSUME ChartsInv
  PROVE  /\ picks \in PickChoices /\ form \in ChartForms /\ page \in ChartPages /\ charts \subseteq ChartRecs
         /\ layout \in Layouts /\ tasks \subseteq Chained /\ ids \in Nat /\ ids <= MaxCharts
         /\ chartPast \in Pasts /\ chartDoing \in ChartDoings
         /\ form.id \in Nat /\ form.read \subseteq ChartRecs /\ page.charts \subseteq ChartRecs
         /\ page.hidden \subseteq BuiltIns /\ form.panel \in MaybePanel
         /\ HeldCharts \subseteq ChartRecs
         /\ charts \subseteq HeldCharts /\ page.charts \subseteq HeldCharts /\ form.read \subseteq HeldCharts
         /\ \A t \in tasks : t.chart \in HeldCharts
  <1>1. /\ picks \in PickChoices /\ form \in ChartForms /\ page \in ChartPages /\ charts \subseteq ChartRecs
        /\ layout \in Layouts /\ tasks \subseteq Chained /\ ids \in Nat /\ ids <= MaxCharts
        /\ chartPast \in Pasts /\ chartDoing \in ChartDoings
    BY ChartsAssumption DEF ChartsInv, ChartsHeld
  <1>2. /\ form.id \in Nat /\ form.read \subseteq ChartRecs /\ page.charts \subseteq ChartRecs
        /\ page.hidden \subseteq BuiltIns /\ form.panel \in MaybePanel
    BY <1>1 DEF ChartForms, ChartPages
  <1>3. \A t \in tasks : t.chart \in ChartRecs
    BY <1>1 DEF Chained
  <1> QED
    BY <1>1, <1>2, <1>3 DEF HeldCharts

\* What is left of a chain tells which it is.
LEMMA LeftSays ==
  ASSUME NEW t \in Chained, t.left \in Lefts(t.kind)
  PROVE  /\ t.left # <<>> /\ Len(t.left) \in Nat
         /\ Head(t.left) = "post" => t.kind \in Savers \union {"replace"}
         /\ Head(t.left) \in {"read", "hide"} => t.kind = "replace"
         /\ Head(t.left) = "show" => t.kind \in {"restore", "gesture"}
         /\ Head(t.left) = "delete" => t.kind \in {"restore", "remove"}
         /\ t.kind \in Savers => Head(t.left) = "post" /\ Len(t.left) = 1
         /\ Len(t.left) > 1 =>
                /\ Tail(t.left) \in Lefts(t.kind) /\ t.kind \in {"replace", "restore"}
                /\ t.kind = "replace" => Head(Tail(t.left)) \in {"read", "hide"}
                /\ t.kind = "restore" => Head(Tail(t.left)) = "delete"
  <1>1. t.kind \in Chains
    BY DEF Chained
  <1>2. CASE t.left = <<"post">> /\ t.kind \in Savers
    BY <1>2 DEF Savers
  <1>3. CASE t.left = <<"post", "read", "hide">> /\ t.kind = "replace"
    <2>1. Tail(t.left) = <<"read", "hide">> /\ Head(t.left) = "post" /\ Len(t.left) = 3
      BY <1>3
    <2>2. Head(<<"read", "hide">>) = "read"
      OBVIOUS
    <2>3. t.left # <<>>
      BY <1>3
    <2> QED
      BY <1>3, <2>1, <2>2, <2>3 DEF Lefts, Savers
  <1>4. CASE t.left = <<"read", "hide">> /\ t.kind = "replace"
    <2>1. Tail(t.left) = <<"hide">> /\ Head(t.left) = "read" /\ Len(t.left) = 2
      BY <1>4
    <2>2. Head(<<"hide">>) = "hide"
      OBVIOUS
    <2>3. t.left # <<>>
      BY <1>4
    <2> QED
      BY <1>4, <2>1, <2>2, <2>3 DEF Lefts, Savers
  <1>5. CASE t.left = <<"hide">> /\ t.kind = "replace"
    BY <1>5 DEF Savers
  <1>6. CASE t.left = <<"show", "delete">> /\ t.kind = "restore"
    <2>1. Tail(t.left) = <<"delete">> /\ Head(t.left) = "show" /\ Len(t.left) = 2
      BY <1>6
    <2>2. Head(<<"delete">>) = "delete"
      OBVIOUS
    <2>3. t.left # <<>>
      BY <1>6
    <2> QED
      BY <1>6, <2>1, <2>2, <2>3 DEF Lefts, Savers
  <1>7. CASE t.left = <<"delete">> /\ t.kind \in {"restore", "remove"}
    BY <1>7 DEF Savers
  <1>8. CASE t.left = <<"show">> /\ t.kind = "gesture"
    BY <1>8 DEF Savers
  <1> QED
    BY <1>1, <1>2, <1>3, <1>4, <1>5, <1>6, <1>7, <1>8 DEF Lefts, Chains, Savers, Writers

LEMMA WithIs ==
  ASSUME NEW t \in Chained, NEW ans \in {"sent", "ok", "bad"}
  PROVE  LET u == [t EXCEPT !.ans = ans]
         IN  /\ u \in Chained /\ u.kind = t.kind /\ u.chart = t.chart /\ u.lay = t.lay
             /\ u.left = t.left /\ u.mine = t.mine /\ u.ans = ans
  BY DEF Chained

LEMMA OrphanIs ==
  ASSUME NEW t \in Chained
  PROVE  LET u == [t EXCEPT !.mine = FALSE]
         IN  /\ u \in Chained /\ u.kind = t.kind /\ u.chart = t.chart /\ u.lay = t.lay
             /\ u.left = t.left /\ u.ans = t.ans /\ u.mine = FALSE
  BY DEF Chained

-----------------------------------------------------------------------------
\* No chart is held that was not, and the form is as it was or opened anew.
LEMMA PanelsMove ==
  ASSUME ChartsInv, HeldCharts' \subseteq HeldCharts, ids' = ids, form'.id <= ids,
         \A c, d \in charts' : c.id = d.id => c = d,
         form'.kind = "replace" =>
             /\ form'.panel \in BuiltIns
             /\ \/ form'.id = 0
                \/ form.kind = "replace" /\ form'.id = form.id /\ form'.panel = form.panel
  PROVE  PanelsFit'
  BY DEF ChartsInv, PanelsFit

\* One chart more is held, whose id is new or stands for the panel it replaces.
LEMMA PanelsGrow ==
  ASSUME ChartsInv, NEW c \in ChartRecs, HeldCharts' \subseteq HeldCharts \union {c},
         ids' \in Nat, ids <= ids', c.id <= ids', c.id = 0 => c.replaces = NoBuiltIn,
         \A d \in HeldCharts : d.id = c.id => d.replaces = c.replaces,
         charts' = charts, form'.id <= ids', form'.kind = form.kind, form'.panel = form.panel,
         form'.kind = "replace" => form'.id = c.id /\ c.replaces = form.panel
  PROVE  PanelsFit'
  <1>1. \A d \in HeldCharts : d.id \in Nat /\ d.id <= ids /\ ids \in Nat
    BY ChartParts DEF ChartsInv, PanelsFit, ChartRecs
  <1>2. \A d \in HeldCharts \union {c} : d.id <= ids' /\ (d.id = 0 => d.replaces = NoBuiltIn)
    BY <1>1 DEF ChartsInv, PanelsFit
  <1>3. \A d, e \in HeldCharts \union {c} : d.id = e.id => d.replaces = e.replaces
    BY DEF ChartsInv, PanelsFit
  <1>4. form'.kind = "replace" =>
            form'.panel \in BuiltIns /\ \A d \in HeldCharts' : d.id = form'.id => d.replaces = form'.panel
    BY <1>3 DEF ChartsInv, PanelsFit
  <1>5. \A d, e \in charts' : d.id = e.id => d = e
    BY DEF ChartsInv, PanelsFit
  <1> QED
    BY <1>2, <1>3, <1>4, <1>5 DEF PanelsFit

\* One chain goes on, and what the others count on is still so.
LEMMA WritersMove ==
  ASSUME ChartsInv, ~chartPast.crossed, NEW t \in tasks, NEW u, u.kind = t.kind,
         tasks' \subseteq (tasks \ {t}) \union {u}, charts' = charts,
         chartPast'.replaced \subseteq chartPast.replaced, chartPast'.replaced \subseteq layout'.hidden,
         u \in tasks' => ChainFits(u)'
  PROVE  WritersFit'
  <1>1. \A v \in tasks \ {t} : ChainFits(v)'
    BY DEF ChartsInv, WritersFit, ChainFits, IsSaved
  <1>2. ReplacedPanelHasItsChart'
    BY DEF ChartsInv, WritersFit, ReplacedPanelHasItsChart
  <1>3. \A v, w \in tasks' : v.kind \in Writers /\ w.kind \in Writers => v = w
    BY DEF ChartsInv, WritersFit
  <1> QED
    BY <1>1, <1>2, <1>3 DEF WritersFit

\* The form is the same, and a chain of it that goes on tells it no more than is so.
LEMMA FormMove ==
  ASSUME ChartsInv, NEW t \in tasks, NEW u, u.kind = t.kind, u.chart = t.chart, u.mine = t.mine,
         tasks' \subseteq (tasks \ {t}) \union {u}, picks' = picks, chartDoing' = chartDoing,
         form'.kind = form.kind, chartPast.stored \subseteq chartPast'.stored,
         form'.state = "done" /\ form.kind \in Savers /\ chartDoing = "saving" =>
             form.state = "done" \/ picks \in chartPast'.stored,
         u.ans = "ok" /\ chartDoing = "saving" /\ t.kind \in Savers =>
             t.chart.picks \in chartPast'.stored
  PROVE  FormFits'
  <1>1. SaidOfTheseChoices'
    BY DEF ChartsInv, FormFits, SaidOfTheseChoices, Savers
  <1>2. \A v \in tasks' :
           /\ v.mine /\ v.kind \in Savers => form'.kind # "replace" /\ v.chart.picks = picks'
           /\ v.mine /\ v.kind = "replace" => form'.kind = "replace"
           /\ chartDoing' = "saving" /\ v.kind \in Savers /\ v.ans = "ok" =>
                  v.chart.picks \in chartPast'.stored
    BY DEF ChartsInv, FormFits
  <1> QED
    BY <1>1, <1>2 DEF FormFits
-----------------------------------------------------------------------------
\* One chain goes on as u; the form's state apart, nothing else that is held changes.
LEMMA ChainGoesOn ==
  ASSUME ChartsInv, ~chartPast.crossed, NEW t \in tasks, NEW u \in Chained,
         u.kind = t.kind, u.chart = t.chart, u.mine = t.mine, u.left \in Lefts(t.kind),
         tasks' = (tasks \ {t}) \union {u}, UNCHANGED <<chartDoing, picks, form, charts, ids>>,
         page' \in ChartPages, page'.charts = page.charts, layout' \in Layouts, chartPast' \in Pasts,
         chartPast'.stored = chartPast.stored,
         chartPast'.replaced \subseteq chartPast.replaced, chartPast'.replaced \subseteq layout'.hidden,
         ChainFits(u)',
         u.ans = "ok" /\ chartDoing = "saving" /\ t.kind \in Savers => t.chart.picks \in chartPast.stored
  PROVE  ChartsInv'
  <1>1. ChartsHeld'
    BY DEF ChartsInv, ChartsHeld
  <1>2. PanelsFit'
    <2>1. HeldCharts' \subseteq HeldCharts
      BY DEF HeldCharts
    <2> QED
      BY <2>1, PanelsMove DEF ChartsInv, PanelsFit
  <1>3. WritersFit'
    BY WritersMove
  <1>4. FormFits'
    BY FormMove
  <1> QED
    BY <1>1, <1>2, <1>3, <1>4 DEF ChartsInv

LEMMA ServeLayoutReadKeeps ==
  ASSUME ChartsInv, ~chartPast.crossed, NEW t \in tasks, ServeLayoutRead(t)
  PROVE  ChartsInv'
  <1>1. /\ Head(t.left) = "read" /\ t.ans = "sent"
        /\ UNCHANGED <<chartDoing, picks, form, page, charts, layout, ids, chartPast>>
    BY DEF ServeLayoutRead
  <1>2. PICK got \in {layout, NeverSaved} : tasks' = (tasks \ {t}) \union {[t EXCEPT !.lay = got, !.ans = "ok"]}
    BY DEF ServeLayoutRead
  <1> DEFINE u == [t EXCEPT !.lay = got, !.ans = "ok"]
  <1>3. t \in Chained /\ t.left \in Lefts(t.kind) /\ t.kind = "replace"
    BY <1>1, ChartParts, LeftSays DEF ChartsInv, ChartsHeld
  <1>4. got \in Layouts
    BY ChartParts DEF NeverSaved, Layouts
  <1>5. /\ u \in Chained /\ u.kind = t.kind /\ u.chart = t.chart /\ u.left = t.left /\ u.mine = t.mine
        /\ tasks' = (tasks \ {t}) \union {u}
    BY <1>2, <1>3, <1>4 DEF Chained
  <1> HIDE DEF u
  <1>6. ChainFits(u)'
    <2>1. ChainFits(t)
      BY DEF ChartsInv, WritersFit
    <2> QED
      BY <1>1, <1>3, <1>5, <2>1 DEF ChainFits, IsSaved
  <1>7. t.kind \notin Savers
    BY <1>3 DEF Savers
  <1>8. chartPast.replaced \subseteq layout.hidden
    BY DEF ChartsInv, WritersFit
  <1> QED
    BY <1>1, <1>3, <1>5, <1>6, <1>7, <1>8, ChartParts, ChainGoesOn

LEMMA ServeShowKeeps ==
  ASSUME ChartsInv, ~chartPast.crossed, NEW t \in tasks, ServeShow(t)
  PROVE  ChartsInv'
  <1> DEFINE u == [t EXCEPT !.ans = "ok"]
             less == (chartPast.replaced \union {}) \cap t.lay.hidden
  <1>1. /\ Head(t.left) = "show" /\ t.ans = "sent" /\ layout' = t.lay
        /\ chartPast' = [chartPast EXCEPT !.replaced = less] /\ tasks' = (tasks \ {t}) \union {u}
        /\ UNCHANGED <<chartDoing, picks, form, page, charts, ids>>
    BY DEF ServeShow, Lay, With
  <1>2. t \in Chained /\ t.left \in Lefts(t.kind) /\ t.kind \in {"restore", "gesture"}
    BY <1>1, ChartParts, LeftSays DEF ChartsInv, ChartsHeld
  <1>3. /\ u \in Chained /\ u.kind = t.kind /\ u.chart = t.chart /\ u.lay = t.lay
        /\ u.left = t.left /\ u.mine = t.mine /\ u.ans = "ok"
    BY <1>2, WithIs
  <1>4. t.lay \in Layouts /\ less \subseteq chartPast.replaced /\ less \subseteq t.lay.hidden
    BY <1>2 DEF Chained
  <1> HIDE DEF u, less
  <1>5. /\ chartPast' \in Pasts /\ chartPast'.replaced = less /\ chartPast'.stored = chartPast.stored
    BY <1>1, <1>4, ChartParts DEF Pasts
  <1>6. ChainFits(u)'
    <2>1. ChainFits(t)
      BY DEF ChartsInv, WritersFit
    <2> QED
      BY <1>1, <1>2, <1>3, <1>4, <1>5, <2>1 DEF ChainFits, IsSaved
  <1>7. t.kind \notin Savers
    BY <1>2 DEF Savers
  <1> QED
    BY <1>1, <1>2, <1>3, <1>4, <1>5, <1>6, <1>7, ChartParts, ChainGoesOn

LEMMA BreaksKeeps ==
  ASSUME ChartsInv, ~chartPast.crossed, NEW t \in tasks, Breaks(t)
  PROVE  ChartsInv'
  <1> DEFINE u == [t EXCEPT !.ans = "bad"]
  <1>1. /\ tasks' = (tasks \ {t}) \union {u}
        /\ UNCHANGED <<chartDoing, picks, form, page, charts, layout, ids, chartPast>>
    BY DEF Breaks, With
  <1>2. t \in Chained /\ t.left \in Lefts(t.kind)
    BY ChartParts DEF ChartsInv, ChartsHeld
  <1>3. /\ u \in Chained /\ u.kind = t.kind /\ u.chart = t.chart /\ u.lay = t.lay
        /\ u.left = t.left /\ u.mine = t.mine /\ u.ans = "bad"
    BY <1>2, WithIs
  <1> HIDE DEF u
  <1>4. ChainFits(u)'
    <2>1. ChainFits(t)
      BY DEF ChartsInv, WritersFit
    <2> QED
      BY <1>1, <1>3, <2>1 DEF ChainFits, IsSaved
  <1>5. chartPast.replaced \subseteq layout.hidden
    BY DEF ChartsInv, WritersFit
  <1> QED
    BY <1>1, <1>2, <1>3, <1>4, <1>5, ChartParts, ChainGoesOn

LEMMA NextStepKeeps ==
  ASSUME ChartsInv, ~chartPast.crossed, NEW t \in tasks, NextStep(t)
  PROVE  ChartsInv'
  <1> DEFINE rest == Tail(t.left)
             u == [t EXCEPT !.left = rest, !.ans = "sent"]
             order == t.lay.order
             hidden == t.lay.hidden
  <1>1. /\ t.ans = "ok" /\ Len(t.left) > 1 /\ tasks' = (tasks \ {t}) \union {u}
        /\ page' = IF Head(t.left) = "show" /\ t.mine
                   THEN [page EXCEPT !.order = order, !.hidden = hidden] ELSE page
        /\ UNCHANGED <<chartDoing, picks, form, charts, layout, ids, chartPast>>
    BY DEF NextStep
  <1>2. t \in Chained /\ t.left \in Lefts(t.kind)
    BY ChartParts DEF ChartsInv, ChartsHeld
  <1>3. /\ rest \in Lefts(t.kind) /\ t.kind \in {"replace", "restore"} /\ t.kind \in Chains
        /\ t.kind = "replace" => Head(rest) \in {"read", "hide"}
        /\ t.kind = "restore" => Head(rest) = "delete"
    BY <1>1, <1>2, LeftSays DEF Chained
  <1>4. order \in {"default", "own"} /\ hidden \subseteq BuiltIns
    BY <1>2 DEF Chained, Layouts
  <1>5. t.chart \in ChartRecs
    BY <1>2 DEF Chained
  <1> HIDE DEF rest, order, hidden
  <1>6. /\ u \in Chained /\ u.kind = t.kind /\ u.chart = t.chart /\ u.lay = t.lay
        /\ u.left = rest /\ u.mine = t.mine /\ u.ans = "sent"
    BY <1>2, <1>3 DEF Chained
  <1>7. page' \in ChartPages /\ page'.charts = page.charts
    BY <1>1, <1>4, ChartParts DEF ChartPages
  <1> HIDE DEF u
  <1>8. ChainFits(u)'
    <2>1. ChainFits(t)
      BY DEF ChartsInv, WritersFit
    <2> QED
      BY <1>1, <1>3, <1>6, <2>1 DEF ChainFits, IsSaved
  <1>9. chartPast.replaced \subseteq layout.hidden
    BY DEF ChartsInv, WritersFit
  <1> QED
    BY <1>1, <1>2, <1>3, <1>6, <1>7, <1>8, <1>9, ChartParts, ChainGoesOn

LEMMA HideInLayoutKeeps ==
  ASSUME ChartsInv, ~chartPast.crossed, NEW t \in tasks, HideInLayout(t)
  PROVE  ChartsInv'
  <1> DEFINE panel == t.chart.replaces
             hidden == t.lay.hidden \union {panel}
             new == [t.lay EXCEPT !.hidden = hidden]
             marked == (chartPast.replaced \union {panel}) \cap new.hidden
             u == [t EXCEPT !.ans = "ok"]
  <1>1. /\ Head(t.left) = "hide" /\ t.ans = "sent" /\ layout' = new
        /\ chartPast' = [chartPast EXCEPT !.replaced = marked] /\ tasks' = (tasks \ {t}) \union {u}
        /\ UNCHANGED <<chartDoing, picks, form, page, charts, ids>>
    BY DEF HideInLayout, Lay, With
  <1>2. t \in Chained /\ t.left \in Lefts(t.kind) /\ t.kind = "replace" /\ t.lay \in Layouts
    BY <1>1, ChartParts, LeftSays DEF ChartsInv, ChartsHeld, Chained
  <1>3. /\ u \in Chained /\ u.kind = t.kind /\ u.chart = t.chart /\ u.lay = t.lay
        /\ u.left = t.left /\ u.mine = t.mine /\ u.ans = "ok"
    BY <1>2, WithIs
  <1>4. panel \in BuiltIns /\ IsSaved(t)
    <2>1. ChainFits(t)
      BY DEF ChartsInv, WritersFit
    <2> QED
      BY <1>1, <1>2, <2>1 DEF ChainFits
  <1>5. hidden \subseteq BuiltIns
    BY <1>2, <1>4 DEF Layouts
  <1> HIDE DEF hidden, u, panel
  <1>6. new \in Layouts /\ new.hidden = hidden
    BY <1>2, <1>5 DEF Layouts
  <1> HIDE DEF new
  <1>7. marked \subseteq BuiltIns /\ marked \subseteq new.hidden /\ marked \subseteq chartPast.replaced \union {panel}
    BY <1>5, <1>6
  <1> HIDE DEF marked
  <1>8. /\ chartPast' \in Pasts /\ chartPast'.replaced = marked /\ chartPast'.stored = chartPast.stored
        /\ chartPast'.crossed = chartPast.crossed
    BY <1>1, <1>7, ChartParts DEF Pasts
  <1>9. ChartsHeld'
    BY <1>1, <1>2, <1>3, <1>6, <1>8 DEF ChartsInv, ChartsHeld
  <1>10. PanelsFit'
    <2>1. HeldCharts' \subseteq HeldCharts
      BY <1>1, <1>3 DEF HeldCharts
    <2> QED
      BY <1>1, <2>1, PanelsMove DEF ChartsInv, PanelsFit
  <1>11. WritersFit'
    <2>1. \A v \in tasks' : ChainFits(v)'
      <3> SUFFICES ASSUME NEW v \in (tasks \ {t}) \union {u} PROVE ChainFits(v)'
        BY <1>1
      <3>1. CASE v = u
        BY <1>1, <1>2, <1>3, <1>4, <3>1 DEF ChainFits, IsSaved, panel
      <3>2. CASE v # u /\ v \in tasks /\ v # t
        <4>1. ChainFits(v) /\ v.kind \notin Writers
          BY <1>2, <3>2 DEF ChartsInv, WritersFit, Writers
        <4> QED
          BY <1>1, <4>1 DEF ChainFits, IsSaved, Writers
      <3> QED
        BY <3>1, <3>2
    <2>2. ReplacedPanelHasItsChart'
      <3> SUFFICES ASSUME NEW p \in marked PROVE \E c \in charts : c.replaces = p
        BY <1>1, <1>8 DEF ReplacedPanelHasItsChart
      <3>1. CASE p = panel
        <4>1. PICK c \in charts : c.id = t.chart.id
          BY <1>4 DEF IsSaved
        <4>2. c.replaces = panel
          BY <4>1, ChartParts DEF ChartsInv, PanelsFit, panel
        <4> QED
          BY <3>1, <4>2
      <3>2. CASE p \in chartPast.replaced
        BY <3>2 DEF ChartsInv, WritersFit, ReplacedPanelHasItsChart
      <3> QED
        BY <1>7, <3>1, <3>2
    <2>3. \A v, w \in tasks' : v.kind \in Writers /\ w.kind \in Writers => v = w
      BY <1>1, <1>3 DEF ChartsInv, WritersFit
    <2> QED
      BY <1>1, <1>6, <1>7, <1>8, <2>1, <2>2, <2>3 DEF WritersFit
  <1>12. FormFits'
    <2>1. t.kind \notin Savers
      BY <1>2 DEF Savers
    <2> QED
      BY <1>1, <1>3, <1>8, <2>1, FormMove
  <1> QED
    BY <1>9, <1>10, <1>11, <1>12 DEF ChartsInv

\* A chart stored again keeps its panel, and those of other ids.
LEMMA ServePostKeeps ==
  ASSUME ChartsInv, ~chartPast.crossed, NEW t \in tasks, ServePost(t)
  PROVE  ChartsInv'
  <1> DEFINE u == [t EXCEPT !.ans = "ok"]
             stored == IF chartDoing = "saving" THEN chartPast.stored \union {t.chart.picks} ELSE chartPast.stored
  <1>1. /\ Head(t.left) = "post" /\ t.ans = "sent" /\ tasks' = (tasks \ {t}) \union {u}
        /\ charts' = {c \in charts : c.id # t.chart.id} \union {t.chart}
        /\ chartPast' = [chartPast EXCEPT !.stored = stored]
        /\ UNCHANGED <<chartDoing, picks, form, page, layout, ids>>
    BY DEF ServePost, With
  <1>2. t \in Chained /\ t.left \in Lefts(t.kind) /\ t.kind \in Savers \union {"replace"} /\ t.chart \in ChartRecs
    BY <1>1, ChartParts, LeftSays DEF ChartsInv, ChartsHeld, Chained
  <1>3. /\ u \in Chained /\ u.kind = t.kind /\ u.chart = t.chart /\ u.lay = t.lay
        /\ u.left = t.left /\ u.mine = t.mine /\ u.ans = "ok"
    BY <1>2, WithIs
  <1>4. /\ stored \subseteq PickChoices /\ chartPast.stored \subseteq stored
        /\ chartDoing = "saving" => t.chart.picks \in stored
    BY <1>2, ChartParts DEF ChartRecs, Pasts
  <1> HIDE DEF u, stored
  <1>5. /\ chartPast' \in Pasts /\ chartPast'.replaced = chartPast.replaced /\ chartPast'.stored = stored
        /\ chartPast'.crossed = chartPast.crossed
    BY <1>1, <1>4, ChartParts DEF Pasts
  <1>6. charts' \subseteq charts \union {t.chart} /\ t.chart \in charts'
        /\ \A c \in charts : c \in charts' \/ c.id = t.chart.id
    BY <1>1
  <1>7. ChartsHeld'
    BY <1>1, <1>2, <1>3, <1>5, <1>6 DEF ChartsInv, ChartsHeld
  <1>8. PanelsFit'
    <2>1. HeldCharts' \subseteq HeldCharts
      BY <1>1, <1>3, <1>6 DEF HeldCharts
    <2>2. \A c, d \in charts' : c.id = d.id => c = d
      BY <1>1 DEF ChartsInv, PanelsFit
    <2> QED
      BY <1>1, <2>1, <2>2, PanelsMove DEF ChartsInv, PanelsFit
  <1>9. WritersFit'
    <2>1. \A v : IsSaved(v) => IsSaved(v)'
      BY <1>6 DEF IsSaved
    <2>2. IsSaved(u)'
      BY <1>3, <1>6 DEF IsSaved
    <2>3. \A v \in tasks' : ChainFits(v)'
      <3> SUFFICES ASSUME NEW v \in (tasks \ {t}) \union {u} PROVE ChainFits(v)'
        BY <1>1
      <3>1. CASE v = u
        <4>1. ChainFits(t)
          BY DEF ChartsInv, WritersFit
        <4>2. t.kind # "restore"
          BY <1>2 DEF Savers
        <4> QED
          BY <1>3, <2>2, <3>1, <4>1, <4>2 DEF ChainFits
      <3>2. CASE v \in tasks
        <4>1. ChainFits(v)
          BY <3>2 DEF ChartsInv, WritersFit
        <4> QED
          BY <1>5, <2>1, <4>1 DEF ChainFits
      <3> QED
        BY <3>1, <3>2
    <2>4. ReplacedPanelHasItsChart'
      <3> SUFFICES ASSUME NEW p \in chartPast.replaced PROVE \E c \in charts' : c.replaces = p
        BY <1>5 DEF ReplacedPanelHasItsChart
      <3>1. PICK c \in charts : c.replaces = p
        BY DEF ChartsInv, WritersFit, ReplacedPanelHasItsChart
      <3>2. c.id = t.chart.id => t.chart.replaces = p
        BY <3>1, ChartParts DEF ChartsInv, PanelsFit
      <3> QED
        BY <1>6, <3>1, <3>2
    <2>5. \A v, w \in tasks' : v.kind \in Writers /\ w.kind \in Writers => v = w
      BY <1>1, <1>3 DEF ChartsInv, WritersFit
    <2> QED
      BY <1>1, <1>5, <2>3, <2>4, <2>5 DEF ChartsInv, WritersFit
  <1>10. FormFits'
    BY <1>1, <1>3, <1>4, <1>5, FormMove
  <1> QED
    BY <1>7, <1>8, <1>9, <1>10 DEF ChartsInv

\* A chart is deleted when its panel is back, or when it never had one.
LEMMA ServeDeleteKeeps ==
  ASSUME ChartsInv, ~chartPast.crossed, NEW t \in tasks, ServeDelete(t)
  PROVE  ChartsInv'
  <1>1. /\ Head(t.left) = "delete" /\ t.ans = "sent" /\ charts' = {c \in charts : c.id # t.chart.id}
        /\ UNCHANGED <<chartDoing, picks, form, page, layout, ids, chartPast>>
    BY DEF ServeDelete
  <1>2. PICK ans \in {"sent", "ok", "bad"} : tasks' = (tasks \ {t}) \union {[t EXCEPT !.ans = ans]}
    BY DEF ServeDelete, With
  <1> DEFINE u == [t EXCEPT !.ans = ans]
  <1>3. t \in Chained /\ t.left \in Lefts(t.kind) /\ t.kind \in {"restore", "remove"}
    BY <1>1, ChartParts, LeftSays DEF ChartsInv, ChartsHeld
  <1>4. /\ u \in Chained /\ u.kind = t.kind /\ u.chart = t.chart /\ u.lay = t.lay
        /\ u.left = t.left /\ u.mine = t.mine /\ tasks' = (tasks \ {t}) \union {u}
    BY <1>2, <1>3, WithIs
  <1> HIDE DEF u
  <1>5. charts' \subseteq charts
    BY <1>1
  <1>6. ChartsHeld'
    BY <1>1, <1>3, <1>4, <1>5 DEF ChartsInv, ChartsHeld
  <1>7. PanelsFit'
    <2>1. HeldCharts' \subseteq HeldCharts
      BY <1>1, <1>4, <1>5 DEF HeldCharts
    <2>2. \A c, d \in charts' : c.id = d.id => c = d
      BY <1>5 DEF ChartsInv, PanelsFit
    <2> QED
      BY <1>1, <2>1, <2>2, PanelsMove DEF ChartsInv, PanelsFit
  <1>8. ChainFits(t)
    BY DEF ChartsInv, WritersFit
  <1>9. WritersFit'
    <2>1. \A v \in tasks' : ChainFits(v)'
      <3> SUFFICES ASSUME NEW v \in (tasks \ {t}) \union {u} PROVE ChainFits(v)'
        BY <1>4
      <3>1. CASE v = u
        <4>1. t.kind # "replace"
          BY <1>3
        <4> QED
          BY <1>1, <1>4, <1>8, <3>1, <4>1 DEF ChainFits
      <3>2. CASE v \in tasks /\ v # t
        <4>1. ChainFits(v)
          BY <3>2 DEF ChartsInv, WritersFit
        <4>2. ASSUME v.kind = "replace", IsSaved(v) PROVE IsSaved(v)'
          <5>1. t.kind = "remove"
            BY <1>3, <3>2, <4>2 DEF ChartsInv, WritersFit, Writers
          <5>2. v.chart.replaces \in BuiltIns /\ t.chart.replaces = NoBuiltIn
            BY <1>8, <4>1, <4>2, <5>1 DEF ChainFits
          <5>3. v.chart.id # t.chart.id
            BY <3>2, <5>2, ChartParts, ChartsAssumption DEF ChartsInv, PanelsFit
          <5> QED
            BY <1>1, <4>2, <5>3 DEF IsSaved
        <4> QED
          BY <1>1, <4>1, <4>2 DEF ChainFits
      <3> QED
        BY <3>1, <3>2
    <2>2. ReplacedPanelHasItsChart'
      <3> SUFFICES ASSUME NEW p \in chartPast.replaced PROVE \E c \in charts' : c.replaces = p
        BY <1>1 DEF ReplacedPanelHasItsChart
      <3>1. PICK c \in charts : c.replaces = p
        BY DEF ChartsInv, WritersFit, ReplacedPanelHasItsChart
      <3>2. c.id = t.chart.id => t.chart.replaces = p
        BY <3>1, ChartParts DEF ChartsInv, PanelsFit
      <3>3. t.chart.replaces # p
        <4>1. p \in BuiltIns /\ NoBuiltIn \notin BuiltIns
          BY ChartParts, ChartsAssumption DEF Pasts
        <4> QED
          BY <1>1, <1>3, <1>8, <4>1 DEF ChainFits
      <3> QED
        BY <1>1, <3>1, <3>2, <3>3
    <2>3. \A v, w \in tasks' : v.kind \in Writers /\ w.kind \in Writers => v = w
      BY <1>4 DEF ChartsInv, WritersFit
    <2> QED
      BY <1>1, <2>1, <2>2, <2>3 DEF ChartsInv, WritersFit
  <1>10. FormFits'
    <2>1. t.kind \notin Savers
      BY <1>3 DEF Savers
    <2> QED
      BY <1>1, <1>4, <2>1, FormMove
  <1> QED
    BY <1>6, <1>7, <1>9, <1>10 DEF ChartsInv

\* A chain ends; a chart taken off is no longer on the page.
LEMMA LastStepKeeps ==
  ASSUME ChartsInv, ~chartPast.crossed, NEW t \in tasks, LastStep(t) \/ GivesUp(t)
  PROVE  ChartsInv'
  <1>1. /\ tasks' = tasks \ {t} /\ UNCHANGED <<chartDoing, picks, charts, layout, ids, chartPast>>
    BY DEF LastStep, GivesUp
  <1>2. page' \in ChartPages /\ page'.charts \subseteq HeldCharts
    <2>1. CASE LastStep(t)
      <3> DEFINE on == [page EXCEPT !.charts = charts]
      <3>1. on \in ChartPages /\ on.charts = charts
        BY ChartParts DEF ChartPages
      <3>2. page' = on \/ page' = page
        BY <2>1 DEF LastStep
      <3> QED
        BY <3>1, <3>2, ChartParts
    <2>2. CASE GivesUp(t)
      BY <2>2, ChartParts DEF GivesUp
    <2> QED
      BY <2>1, <2>2
  <1>3. PICK state \in {"done", "failed"} :
            form' = Said(t, state) /\ (state = "done" => t.ans = "ok")
    BY DEF LastStep, GivesUp
  <1> DEFINE f == Said(t, state)
  <1>4. /\ f \in ChartForms /\ f.kind = form.kind /\ f.id = form.id /\ f.panel = form.panel /\ f.read = form.read
        /\ f.state = form.state \/ (f.state = state /\ t.mine /\ t.kind \in Savers \union {"replace"})
    BY ChartParts DEF Said, ChartForms, Savers
  <1>0. form' = f
    BY <1>3
  <1> HIDE DEF f
  <1>5. ChartsHeld'
    BY <1>0, <1>1, <1>2, <1>4 DEF ChartsInv, ChartsHeld
  <1>6. PanelsFit'
    <2>1. HeldCharts' \subseteq HeldCharts
      BY <1>0, <1>1, <1>2, <1>4 DEF HeldCharts
    <2> QED
      BY <1>0, <1>1, <1>4, <2>1, PanelsMove DEF ChartsInv, PanelsFit
  <1>7. WritersFit'
    <2>1. ChainFits(t)'
      BY <1>1 DEF ChartsInv, WritersFit, ChainFits, IsSaved
    <2> QED
      BY <1>1, <2>1, WritersMove DEF ChartsInv, WritersFit
  <1>8. FormFits'
    <2>1. form'.state = "done" /\ form.kind \in Savers /\ chartDoing = "saving" =>
              form.state = "done" \/ picks \in chartPast.stored
      BY <1>0, <1>3, <1>4 DEF ChartsInv, FormFits, Savers
    <2>2. t.ans = "ok" /\ chartDoing = "saving" /\ t.kind \in Savers => t.chart.picks \in chartPast.stored
      BY DEF ChartsInv, FormFits
    <2> QED
      BY <1>0, <1>1, <1>4, <2>1, <2>2, FormMove
  <1> QED
    BY <1>5, <1>6, <1>7, <1>8 DEF ChartsInv
-----------------------------------------------------------------------------
\* A chain starts with all its steps to do.
LEMMA StepsAreLeft ==
  ASSUME NEW kind \in Chains
  PROVE  /\ Steps(kind) \in Lefts(kind)
         /\ kind = "replace" => Head(Steps(kind)) = "post"
         /\ kind = "restore" => Head(Steps(kind)) = "show"
  BY DEF Steps, Lefts, Chains, Savers, Writers

\* A chain starts; if another that writes the layout is in the air they cross.
LEMMA StartKeeps ==
  ASSUME ChartsInv, ~chartPast.crossed, NEW kind \in Chains, NEW chart \in ChartRecs, NEW lay \in Layouts,
         Start(kind, chart, lay), UNCHANGED <<chartDoing, picks, charts, layout>>,
         form' \in ChartForms, page' \in ChartPages, ids' \in 0 .. MaxCharts,
         form'.kind = form.kind, form'.state = "done" => form.state = "done",
         kind = "replace" => chart.replaces \in BuiltIns /\ form.kind = "replace",
         kind = "remove" => chart.replaces = NoBuiltIn,
         kind = "restore" => chart.replaces \notin lay.hidden,
         kind \in Savers => form.kind # "replace" /\ chart.picks = picks,
         HeldCharts' \subseteq HeldCharts \union {chart} => PanelsFit',
         page'.charts = page.charts, form'.read = form.read
  PROVE  ChartsInv'
  <1> DEFINE left == Steps(kind)
             s == [kind |-> kind, chart |-> chart, lay |-> lay, left |-> left, ans |-> "sent", mine |-> TRUE]
             crossed == chartPast.crossed \/ (kind \in Writers /\ \E t \in tasks : t.kind \in Writers)
  <1>1. tasks' = tasks \union {s} /\ chartPast' = [chartPast EXCEPT !.crossed = crossed]
    BY DEF Start
  <1>2. /\ left \in Lefts(kind)
        /\ kind = "replace" => Head(left) = "post"
        /\ kind = "restore" => Head(left) = "show"
    BY StepsAreLeft
  <1> HIDE DEF left
  <1>3. /\ s \in Chained /\ s.kind = kind /\ s.chart = chart /\ s.lay = lay
        /\ s.left = left /\ s.ans = "sent" /\ s.mine = TRUE
    BY <1>2 DEF Chained
  <1> HIDE DEF s
  <1>4. crossed \in BOOLEAN /\ (~crossed => kind \notin Writers \/ \A t \in tasks : t.kind \notin Writers)
    OBVIOUS
  <1> HIDE DEF crossed
  <1>5. /\ chartPast' \in Pasts /\ chartPast'.replaced = chartPast.replaced
        /\ chartPast'.stored = chartPast.stored /\ chartPast'.crossed = crossed
    BY <1>1, <1>4, ChartParts DEF Pasts
  <1>6. ChartsHeld'
    BY <1>1, <1>2, <1>3, <1>5 DEF ChartsInv, ChartsHeld
  <1>7. PanelsFit'
    <2>1. HeldCharts' \subseteq HeldCharts \union {chart}
      BY <1>1, <1>3 DEF HeldCharts
    <2> QED
      BY <2>1
  <1>8. WritersFit'
    <2>1. ASSUME ~crossed, NEW v \in tasks' PROVE ChainFits(v)'
      <3>1. CASE v = s
        BY <1>2, <1>3, <3>1 DEF ChainFits
      <3>2. CASE v \in tasks
        <4>1. ChainFits(v)
          BY <3>2 DEF ChartsInv, WritersFit
        <4> QED
          BY <1>5, <4>1 DEF ChainFits, IsSaved
      <3> QED
        BY <1>1, <2>1, <3>1, <3>2
    <2>2. ASSUME ~crossed PROVE \A v, w \in tasks' : v.kind \in Writers /\ w.kind \in Writers => v = w
      BY <1>1, <1>3, <1>4, <2>2 DEF ChartsInv, WritersFit
    <2>3. ReplacedPanelHasItsChart'
      BY <1>5 DEF ChartsInv, WritersFit, ReplacedPanelHasItsChart
    <2> QED
      BY <1>5, <2>1, <2>2, <2>3 DEF ChartsInv, WritersFit
  <1>9. FormFits'
    <2>1. SaidOfTheseChoices'
      BY <1>5 DEF ChartsInv, FormFits, SaidOfTheseChoices
    <2>2. ASSUME NEW v \in tasks'
          PROVE  /\ v.mine /\ v.kind \in Savers => form'.kind # "replace" /\ v.chart.picks = picks'
                 /\ v.mine /\ v.kind = "replace" => form'.kind = "replace"
                 /\ chartDoing' = "saving" /\ v.kind \in Savers /\ v.ans = "ok" =>
                        v.chart.picks \in chartPast'.stored
      <3>1. CASE v = s
        BY <1>3, <3>1
      <3>2. CASE v \in tasks
        BY <1>5, <3>2 DEF ChartsInv, FormFits
      <3> QED
        BY <1>1, <3>1, <3>2
    <2> QED
      BY <2>1, <2>2 DEF FormFits
  <1> QED
    BY <1>6, <1>7, <1>8, <1>9 DEF ChartsInv

LEMMA ChartIs ==
  ASSUME ChartsInv, NEW id \in Nat, NEW panel \in MaybePanel
  PROVE  LET c == Chart(id, panel)
         IN  c \in ChartRecs /\ c.id = id /\ c.replaces = panel /\ c.picks = picks
  BY ChartParts DEF Chart, ChartRecs

LEMMA NeverSavedIs == NeverSaved \in Layouts /\ NoBuiltIn \in MaybePanel
  BY DEF NeverSaved, Layouts, MaybePanel

LEMMA PressAddKeeps ==
  ASSUME ChartsInv, ~chartPast.crossed, PressAdd
  PROVE  ChartsInv'
  <1> DEFINE c == Chart(ids + 1, NoBuiltIn)
  <1>1. /\ ids < MaxCharts /\ form.kind \in {"add", "change"} /\ ids' = ids + 1
        /\ form' = [form EXCEPT !.state = "busy"] /\ Start("add", c, NeverSaved)
        /\ UNCHANGED <<chartDoing, picks, page, charts, layout>>
    BY DEF PressAdd
  <1>2. ids \in Nat /\ MaxCharts \in Nat
    BY ChartParts, ChartsAssumption
  <1>3. ids' \in 0 .. MaxCharts /\ ids' \in Nat /\ ids < ids' /\ ids <= ids' /\ ids' # 0
    BY <1>1, <1>2
  <1>4. c \in ChartRecs /\ c.id = ids' /\ c.replaces = NoBuiltIn /\ c.picks = picks
    BY <1>1, <1>3, ChartIs, NeverSavedIs
  <1> HIDE DEF c
  <1>5. /\ form' \in ChartForms /\ form'.kind = form.kind /\ form'.id = form.id /\ form'.panel = form.panel
        /\ form'.read = form.read /\ form'.state = "busy"
    BY <1>1, ChartParts DEF ChartForms
  <1>6. \A d \in HeldCharts : d.id # c.id
    <2>1. \A d \in HeldCharts : d.id \in Nat /\ d.id <= ids
      BY ChartParts DEF ChartsInv, PanelsFit, ChartRecs
    <2> QED
      BY <1>2, <1>3, <1>4, <2>1
  <1>7. form'.id <= ids' /\ c.id <= ids'
    <2>1. form.id \in Nat /\ form.id <= ids
      BY ChartParts DEF ChartsInv, PanelsFit
    <2> QED
      BY <1>2, <1>3, <1>4, <1>5, <2>1
  <1>8. HeldCharts' \subseteq HeldCharts \union {c} => PanelsFit'
    BY <1>1, <1>3, <1>4, <1>5, <1>6, <1>7, PanelsGrow
  <1>9. "add" \in Chains /\ "add" \in Savers
    BY DEF Chains, Savers
  <1> QED
    BY <1>1, <1>3, <1>4, <1>5, <1>8, <1>9, ChartParts, NeverSavedIs, StartKeeps

LEMMA PressReplaceKeeps ==
  ASSUME ChartsInv, ~chartPast.crossed, PressReplace
  PROVE  ChartsInv'
  <1> DEFINE id == IF form.id # 0 THEN form.id ELSE ids + 1
             c == Chart(id, form.panel)
  <1>1. /\ form.id # 0 \/ ids < MaxCharts
        /\ form.kind = "replace" /\ ids' = (IF form.id # 0 THEN ids ELSE id)
        /\ form' = [form EXCEPT !.state = "busy", !.id = id] /\ Start("replace", c, NeverSaved)
        /\ UNCHANGED <<chartDoing, picks, page, charts, layout>>
    BY DEF PressReplace
  <1>2. ids \in Nat /\ MaxCharts \in Nat /\ ids <= MaxCharts /\ form.id \in Nat /\ form.id <= ids
    BY ChartParts, ChartsAssumption DEF ChartsInv, PanelsFit
  <1>3. /\ ids' \in 0 .. MaxCharts /\ ids' \in Nat /\ ids <= ids' /\ id <= ids' /\ id \in Nat /\ id # 0
        /\ id = form.id \/ (ids < id /\ form.id = 0)
    BY <1>1, <1>2
  <1> HIDE DEF id
  <1>4. c \in ChartRecs /\ c.id = id /\ c.replaces = form.panel /\ c.picks = picks
    BY <1>3, ChartIs, ChartParts
  <1> HIDE DEF c
  <1>5. /\ form' \in ChartForms /\ form'.kind = form.kind /\ form'.id = id /\ form'.panel = form.panel
        /\ form'.read = form.read /\ form'.state = "busy"
    BY <1>1, <1>3, ChartParts DEF ChartForms
  <1>6. \A d \in HeldCharts : d.id = c.id => d.replaces = c.replaces
    <2> SUFFICES ASSUME NEW d \in HeldCharts, d.id = id PROVE d.replaces = form.panel
      BY <1>4
    <2>1. d.id \in Nat /\ d.id <= ids
      BY ChartParts DEF ChartsInv, PanelsFit, ChartRecs
    <2>2. id = form.id /\ form.id # 0
      BY <1>2, <1>3, <2>1
    <2> QED
      BY <1>1, <2>2 DEF ChartsInv, PanelsFit
  <1>7. form.panel \in BuiltIns
    BY <1>1 DEF ChartsInv, PanelsFit
  <1>8. HeldCharts' \subseteq HeldCharts \union {c} => PanelsFit'
    BY <1>1, <1>3, <1>4, <1>5, <1>6, PanelsGrow
  <1>9. "replace" \in Chains /\ "replace" \notin Savers
    BY DEF Chains, Savers, Writers
  <1> QED
    BY <1>1, <1>3, <1>4, <1>5, <1>7, <1>8, <1>9, ChartParts, NeverSavedIs, StartKeeps

LEMMA PressSaveKeeps ==
  ASSUME ChartsInv, ~chartPast.crossed, PressSave
  PROVE  ChartsInv'
  <1>1. /\ form.kind = "change" /\ form' = [form EXCEPT !.state = "busy"]
        /\ UNCHANGED <<chartDoing, picks, page, charts, layout, ids>>
    BY DEF PressSave
  <1>2. PICK d \in form.read : Start("change", [d EXCEPT !.picks = picks], NeverSaved)
    BY DEF PressSave
  <1> DEFINE c == [d EXCEPT !.picks = picks]
  <1>3. d \in ChartRecs /\ d \in HeldCharts
    BY ChartParts
  <1>4. c \in ChartRecs /\ c.id = d.id /\ c.replaces = d.replaces /\ c.picks = picks
    BY <1>3, ChartParts DEF ChartRecs
  <1> HIDE DEF c
  <1>5. /\ form' \in ChartForms /\ form'.kind = form.kind /\ form'.id = form.id /\ form'.panel = form.panel
        /\ form'.read = form.read /\ form'.state = "busy"
    BY <1>1, ChartParts DEF ChartForms
  <1>6. \A e \in HeldCharts : e.id = c.id => e.replaces = c.replaces
    BY <1>3, <1>4 DEF ChartsInv, PanelsFit
  <1>7. c.id <= ids /\ (c.id = 0 => c.replaces = NoBuiltIn) /\ form'.id <= ids
    BY <1>3, <1>4, <1>5 DEF ChartsInv, PanelsFit
  <1>8. ids \in Nat /\ ids <= ids /\ ids \in 0 .. MaxCharts
    BY ChartParts DEF ChartsInv, ChartsHeld
  <1>9. HeldCharts' \subseteq HeldCharts \union {c} => PanelsFit'
    BY <1>1, <1>4, <1>5, <1>6, <1>7, <1>8, PanelsGrow
  <1>10. "change" \in Chains /\ "change" \in Savers /\ Start("change", c, NeverSaved)
    BY <1>2 DEF Chains, Savers, c
  <1> QED
    BY <1>1, <1>4, <1>5, <1>8, <1>9, <1>10, ChartParts, NeverSavedIs, StartKeeps

\* The layout a page can be asked to save.
LEMMA SnapshotIs ==
  ASSUME ChartsInv, NEW hidden \in SUBSET BuiltIns
  PROVE  LET l == [PageSnapshot EXCEPT !.hidden = hidden]
         IN  l \in Layouts /\ l.hidden = hidden
  BY DEF PageSnapshot, Layouts

LEMMA PressRestoreKeeps ==
  ASSUME ChartsInv, ~chartPast.crossed, NEW c \in page.charts, PressRestore(c)
  PROVE  ChartsInv'
  <1> DEFINE hidden == page.hidden \ {c.replaces}
             lay == [PageSnapshot EXCEPT !.hidden = hidden]
  <1>1. UNCHANGED <<chartDoing, picks, form, page, charts, layout, ids>>
    BY DEF PressRestore
  <1>2. \/ c.replaces = NoBuiltIn /\ Start("remove", c, NeverSaved)
        \/ Start("restore", c, lay)
    BY DEF PressRestore, PageSnapshot
  <1>3. c \in ChartRecs /\ c \in HeldCharts
    BY ChartParts
  <1>4. hidden \subseteq BuiltIns /\ c.replaces \notin hidden
    BY ChartParts
  <1> HIDE DEF hidden
  <1>5. lay \in Layouts /\ lay.hidden = hidden
    BY <1>4, SnapshotIs
  <1> HIDE DEF lay
  <1>6. ids \in Nat /\ ids <= ids /\ ids \in 0 .. MaxCharts
    BY ChartParts DEF ChartsInv, ChartsHeld
  <1>7. HeldCharts' \subseteq HeldCharts \union {c} => PanelsFit'
    BY <1>1, <1>3, PanelsMove DEF ChartsInv, PanelsFit
  <1>8. {"remove", "restore"} \subseteq Chains /\ "remove" \notin Savers /\ "restore" \notin Savers
    BY DEF Chains, Savers, Writers
  <1>9. CASE c.replaces = NoBuiltIn /\ Start("remove", c, NeverSaved)
    BY <1>1, <1>3, <1>6, <1>7, <1>8, <1>9, ChartParts, NeverSavedIs, StartKeeps
  <1>10. CASE Start("restore", c, lay)
    BY <1>1, <1>3, <1>4, <1>5, <1>6, <1>7, <1>8, <1>10, ChartParts, StartKeeps
  <1> QED
    BY <1>2, <1>9, <1>10

LEMMA TakeOffOrPutBackKeeps ==
  ASSUME ChartsInv, ~chartPast.crossed, NEW p \in BuiltIns, TakeOffOrPutBack(p)
  PROVE  ChartsInv'
  <1> DEFINE hidden == IF p \in page.hidden THEN page.hidden \ {p} ELSE page.hidden \union {p}
             new == [PageSnapshot EXCEPT !.hidden = hidden]
             c == Chart(0, NoBuiltIn)
  <1>1. /\ page' = [page EXCEPT !.order = "own", !.hidden = new.hidden] /\ Start("gesture", c, new)
        /\ UNCHANGED <<chartDoing, picks, form, charts, layout, ids>>
    BY DEF TakeOffOrPutBack, PageSnapshot
  <1>2. hidden \subseteq BuiltIns
    BY ChartParts
  <1> HIDE DEF hidden
  <1>3. new \in Layouts /\ new.hidden = hidden
    BY <1>2, SnapshotIs
  <1> HIDE DEF new
  <1>4. c \in ChartRecs /\ c.id = 0 /\ c.replaces = NoBuiltIn
    BY ChartIs, NeverSavedIs
  <1> HIDE DEF c
  <1>5. page' \in ChartPages /\ page'.charts = page.charts
    BY <1>1, <1>2, <1>3, ChartParts DEF ChartPages
  <1>6. ids \in Nat /\ ids <= ids /\ ids \in 0 .. MaxCharts /\ 0 <= ids
    BY ChartParts DEF ChartsInv, ChartsHeld
  <1>7. HeldCharts' \subseteq HeldCharts \union {c} => PanelsFit'
    <2> SUFFICES ASSUME HeldCharts' \subseteq HeldCharts \union {c} PROVE PanelsFit'
      OBVIOUS
    <2>1. \A d \in HeldCharts : d.id = c.id => d.replaces = c.replaces
      BY <1>4 DEF ChartsInv, PanelsFit
    <2>2. \A d \in HeldCharts' : d.id <= ids /\ (d.id = 0 => d.replaces = NoBuiltIn)
      BY <1>4, <1>6 DEF ChartsInv, PanelsFit
    <2>3. \A d, e \in HeldCharts' : d.id = e.id => d.replaces = e.replaces
      BY <2>1 DEF ChartsInv, PanelsFit
    <2>4. form.kind = "replace" =>
              /\ form.panel \in BuiltIns
              /\ form.id # 0 => \A d \in HeldCharts' : d.id = form.id => d.replaces = form.panel
      BY <1>4 DEF ChartsInv, PanelsFit
    <2> QED
      BY <1>1, <2>2, <2>3, <2>4 DEF ChartsInv, PanelsFit
  <1>8. "gesture" \in Chains /\ "gesture" \notin Savers
    BY DEF Chains, Savers, Writers
  <1> QED
    BY <1>1, <1>3, <1>4, <1>5, <1>6, <1>7, <1>8, ChartParts, StartKeeps

LEMMA ReadSavedKeeps ==
  ASSUME ChartsInv, ReadSaved
  PROVE  ChartsInv'
  <1>1. PICK read \in {{c \in charts : c.id = form.id}, {}} :
            form' = [form EXCEPT !.looked = TRUE, !.read = read]
    BY DEF ReadSaved
  <1>2. UNCHANGED <<chartDoing, picks, page, charts, layout, tasks, ids, chartPast>>
    BY DEF ReadSaved
  <1>3. read \subseteq charts /\ read \subseteq ChartRecs /\ read \subseteq HeldCharts
    BY ChartParts
  <1>4. /\ form' \in ChartForms /\ form'.kind = form.kind /\ form'.id = form.id /\ form'.panel = form.panel
        /\ form'.read = read /\ form'.state = form.state
    BY <1>1, <1>3, ChartParts DEF ChartForms
  <1>5. ChartsHeld'
    BY <1>2, <1>4 DEF ChartsInv, ChartsHeld
  <1>6. PanelsFit'
    <2>1. HeldCharts' \subseteq HeldCharts
      BY <1>2, <1>3, <1>4 DEF HeldCharts
    <2> QED
      BY <1>2, <1>4, <2>1, PanelsMove DEF ChartsInv, PanelsFit
  <1>7. WritersFit'
    BY <1>2 DEF ChartsInv, WritersFit, ChainFits, IsSaved, ReplacedPanelHasItsChart
  <1>8. FormFits'
    BY <1>2, <1>4 DEF ChartsInv, FormFits, SaidOfTheseChoices
  <1> QED
    BY <1>5, <1>6, <1>7, <1>8 DEF ChartsInv

\* The form goes, and no chain in the air speaks to the one that opens.
LEMMA OrphansKeep ==
  ASSUME ChartsInv, tasks' = Orphaned, UNCHANGED <<chartDoing, charts, layout, ids, chartPast>>,
         picks' \in PickChoices, form' \in ChartForms, page' \in ChartPages,
         page'.charts \subseteq HeldCharts, form'.read = {}, form'.state = "idle", form'.id <= ids,
         form'.kind = "replace" =>
             /\ form'.panel \in BuiltIns
             /\ \/ form'.id = 0
                \/ form.kind = "replace" /\ form'.id = form.id /\ form'.panel = form.panel
  PROVE  ChartsInv'
  <1>1. ASSUME NEW u \in tasks'
        PROVE  \E t \in tasks : /\ u = [t EXCEPT !.mine = FALSE] /\ t \in Chained
                                /\ u \in Chained /\ u.kind = t.kind /\ u.chart = t.chart /\ u.lay = t.lay
                                /\ u.left = t.left /\ u.ans = t.ans /\ u.mine = FALSE
    <2>1. PICK t \in tasks : u = [t EXCEPT !.mine = FALSE]
      BY <1>1 DEF Orphaned
    <2>2. t \in Chained
      BY ChartParts
    <2> QED
      BY <2>1, <2>2, OrphanIs
  <1>2. ChartsHeld'
    <2>1. tasks' \subseteq Chained /\ \A u \in tasks' : u.left \in Lefts(u.kind)
      BY <1>1 DEF ChartsInv, ChartsHeld
    <2> QED
      BY <2>1 DEF ChartsInv, ChartsHeld
  <1>3. PanelsFit'
    <2>1. \A u \in tasks' : u.chart \in HeldCharts
      BY <1>1 DEF HeldCharts
    <2>2. HeldCharts' \subseteq HeldCharts
      BY <2>1 DEF HeldCharts
    <2> QED
      BY <2>2, PanelsMove DEF ChartsInv, PanelsFit
  <1>4. WritersFit'
    <2>1. ASSUME ~chartPast.crossed, NEW u \in tasks' PROVE ChainFits(u)'
      <3>1. PICK t \in tasks : /\ u.kind = t.kind /\ u.chart = t.chart /\ u.lay = t.lay
                               /\ u.left = t.left /\ u.ans = t.ans
        BY <1>1, <2>1
      <3>2. ChainFits(t)
        BY <2>1 DEF ChartsInv, WritersFit
      <3> QED
        BY <3>1, <3>2 DEF ChainFits, IsSaved
    <2>2. ASSUME ~chartPast.crossed, NEW u \in tasks', NEW v \in tasks', u.kind \in Writers, v.kind \in Writers
          PROVE  u = v
      <3>1. PICK t \in tasks : u = [t EXCEPT !.mine = FALSE] /\ u.kind = t.kind
        BY <1>1, <2>2
      <3>2. PICK w \in tasks : v = [w EXCEPT !.mine = FALSE] /\ v.kind = w.kind
        BY <1>1, <2>2
      <3>3. t = w
        BY <2>2, <3>1, <3>2 DEF ChartsInv, WritersFit
      <3> QED
        BY <3>1, <3>2, <3>3
    <2> QED
      BY <2>1, <2>2 DEF ChartsInv, WritersFit, ReplacedPanelHasItsChart
  <1>5. FormFits'
    <2>1. SaidOfTheseChoices'
      BY DEF SaidOfTheseChoices
    <2>2. ASSUME NEW u \in tasks'
          PROVE  /\ ~u.mine
                 /\ chartDoing' = "saving" /\ u.kind \in Savers /\ u.ans = "ok" => u.chart.picks \in chartPast'.stored
      <3>1. PICK t \in tasks : u.kind = t.kind /\ u.chart = t.chart /\ u.ans = t.ans /\ u.mine = FALSE
        BY <1>1, <2>2
      <3> QED
        BY <3>1 DEF ChartsInv, FormFits
    <2> QED
      BY <2>1, <2>2 DEF FormFits
  <1> QED
    BY <1>2, <1>3, <1>4, <1>5 DEF ChartsInv

LEMMA PickKeeps ==
  ASSUME ChartsInv, NEW p \in PickChoices, Pick(p)
  PROVE  ChartsInv'
  <1>1. picks' = p /\ UNCHANGED <<chartDoing, page, charts, layout, ids, chartPast>>
    BY DEF Pick
  <1>2. \/ form' = FreshForm /\ tasks' = Orphaned
        \/ p = picks /\ UNCHANGED <<form, tasks>>
    BY DEF Pick, Remounted
  <1>3. CASE form' = FreshForm /\ tasks' = Orphaned
    <2> DEFINE id == IF form.kind = "change" THEN form.id ELSE 0
    <2>1. id \in Nat /\ id <= ids /\ (form.kind = "replace" => id = 0)
      BY ChartParts DEF ChartsInv, PanelsFit
    <2>2. form' = [form EXCEPT !.id = id, !.read = {}, !.looked = FALSE, !.state = "idle"]
      BY <1>3 DEF FreshForm
    <2> HIDE DEF id
    <2>3. {} \in SUBSET ChartRecs
      OBVIOUS
    <2>4. /\ form' \in ChartForms /\ form'.kind = form.kind /\ form'.id = id /\ form'.panel = form.panel
          /\ form'.read = {} /\ form'.state = "idle"
      BY <2>1, <2>2, <2>3, ChartParts DEF ChartForms
    <2>5. form.kind = "replace" => form.panel \in BuiltIns
      BY DEF ChartsInv, PanelsFit
    <2> QED
      BY <1>1, <1>3, <2>1, <2>4, <2>5, ChartParts, OrphansKeep
  <1>4. CASE p = picks /\ UNCHANGED <<form, tasks>>
    <2>1. UNCHANGED chartVars
      BY <1>1, <1>4 DEF chartVars
    <2> QED
      BY <2>1 DEF chartVars, ChartsInv, ChartsHeld, PanelsFit, HeldCharts, WritersFit, ChainFits, IsSaved,
                  ReplacedPanelHasItsChart, FormFits, SaidOfTheseChoices
  <1> QED
    BY <1>2, <1>3, <1>4

LEMMA PagesOpenAndClose ==
  ASSUME ChartsInv, OpenPage \/ OpenToReplace \/ OpenSaved \/ OpenPlain
  PROVE  ChartsInv'
  <1>1. CASE OpenPage
    <2>1. PICK read \in {charts, {}}, lay \in {layout, NeverSaved} :
              page' = [open |-> TRUE, charts |-> read, order |-> lay.order, hidden |-> lay.hidden]
      BY <1>1 DEF OpenPage
    <2>2. form' = NoForm /\ tasks' = Orphaned /\ UNCHANGED <<chartDoing, picks, charts, layout, ids, chartPast>>
      BY <1>1 DEF OpenPage
    <2>3. page' \in ChartPages /\ page'.charts \subseteq HeldCharts
      <3>1. lay \in Layouts /\ read \subseteq charts
        BY ChartParts, NeverSavedIs
      <3> QED
        BY <2>1, <3>1, ChartParts DEF ChartPages, Layouts
    <2>4. form' \in ChartForms /\ form'.id <= ids /\ form'.kind = "none" /\ form'.read = {} /\ form'.state = "idle"
      BY <2>2, ChartParts, NeverSavedIs DEF NoForm, ChartForms
    <2> QED
      BY <2>2, <2>3, <2>4, ChartParts, OrphansKeep
  <1>2. ASSUME NEW kind \in {"add", "change", "replace"}, NEW id \in Nat, NEW panel \in MaybePanel, NEW p \in PickChoices,
               Open(kind, id, panel, p), id <= ids, kind = "replace" => panel \in BuiltIns /\ id = 0
        PROVE  ChartsInv'
    <2>1. /\ page' = NoPage /\ tasks' = Orphaned /\ picks' = p
          /\ form' = [NoForm EXCEPT !.kind = kind, !.id = id, !.panel = panel]
          /\ UNCHANGED <<chartDoing, charts, layout, ids, chartPast>>
      BY <1>2 DEF Open
    <2>2. form' = [kind |-> kind, id |-> id, panel |-> panel, read |-> {}, looked |-> FALSE, state |-> "idle"]
      BY <2>1 DEF NoForm
    <2>3. form' \in ChartForms
      BY <2>2 DEF ChartForms
    <2>4. page' \in ChartPages /\ page'.charts = {}
      BY <2>1 DEF NoPage, ChartPages
    <2>5. /\ form'.read = {} /\ form'.state = "idle" /\ form'.id = id
          /\ form'.kind = kind /\ form'.panel = panel
      BY <2>2
    <2>6. picks' \in PickChoices /\ page'.charts \subseteq HeldCharts
      BY <2>1, <2>4
    <2> QED
      BY <1>2, <2>1, <2>3, <2>4, <2>5, <2>6, OrphansKeep
  <1>3. CASE OpenToReplace
    <2>1. PICK p \in Replaceable : Open("replace", 0, p, SettlePicks([at |-> Combos[1], only |-> NoField]))
      BY <1>3 DEF OpenToReplace
    <2>2. p \in MaybePanel /\ p \in BuiltIns /\ 0 <= ids
      BY ChartsAssumption, ChartParts DEF MaybePanel
    <2> QED
      BY <1>2, <2>1, <2>2, SettledIsOffered
  <1>4. CASE OpenSaved
    <2>1. PICK c \in page.charts : Open("change", c.id, NoBuiltIn, SettlePicks(c.picks))
      BY <1>4 DEF OpenSaved
    <2>2. c.id \in Nat /\ c.id <= ids
      BY ChartParts DEF ChartsInv, PanelsFit, ChartRecs
    <2> QED
      BY <1>2, <2>1, <2>2, SettledIsOffered, NeverSavedIs
  <1>5. CASE OpenPlain
    <2>1. Open("add", 0, NoBuiltIn, picks) /\ 0 <= ids
      BY <1>5, ChartParts DEF OpenPlain
    <2> QED
      BY <1>2, <2>1, ChartParts, NeverSavedIs
  <1> QED
    BY <1>1, <1>3, <1>4, <1>5
-----------------------------------------------------------------------------
LEMMA ChartsStep ==
  ASSUME ChartsInv, [ChartsNext]_chartVars
  PROVE  ChartsInv'
  <1>1. CASE UNCHANGED chartVars
    BY <1>1 DEF chartVars, ChartsInv, ChartsHeld, PanelsFit, HeldCharts, WritersFit, ChainFits, IsSaved,
                ReplacedPanelHasItsChart, FormFits, SaidOfTheseChoices
  <1>2. CASE ChartsNext
    <2>1. ~chartPast.crossed
      BY <1>2 DEF ChartsNext
    <2>2. CASE PickQuestion \/ PickLevel \/ PickField
      <3>1. \E p \in PickChoices : Pick(p)
        BY <2>2, SettledIsOffered DEF PickQuestion, PickLevel, PickField, PickOne
      <3> QED
        BY <3>1, PickKeeps
    <2>3. CASE PressAdd \/ PressReplace \/ ReadSaved \/ PressSave
      BY <2>1, <2>3, PressAddKeeps, PressReplaceKeeps, ReadSavedKeeps, PressSaveKeeps
    <2>4. ASSUME NEW t \in tasks,
                 \/ ServePost(t) \/ ServeLayoutRead(t) \/ HideInLayout(t) \/ ServeShow(t) \/ ServeDelete(t)
                 \/ Breaks(t) \/ NextStep(t) \/ LastStep(t) \/ GivesUp(t)
          PROVE  ChartsInv'
      BY <2>1, <2>4, ServePostKeeps, ServeLayoutReadKeeps, HideInLayoutKeeps, ServeShowKeeps, ServeDeleteKeeps,
         BreaksKeeps, NextStepKeeps, LastStepKeeps
    <2>5. CASE OpenPage \/ OpenToReplace \/ OpenSaved \/ OpenPlain
      BY <2>5, PagesOpenAndClose
    <2>6. ASSUME NEW c \in page.charts, PressRestore(c) PROVE ChartsInv'
      BY <2>1, <2>6, PressRestoreKeeps
    <2>7. ASSUME NEW p \in BuiltIns, TakeOffOrPutBack(p) PROVE ChartsInv'
      BY <2>1, <2>7, TakeOffOrPutBackKeeps
    <2> QED
      BY <1>2, <2>2, <2>3, <2>4, <2>5, <2>6, <2>7 DEF ChartsNext
  <1> QED
    BY <1>1, <1>2

LEMMA ChartsStart == ChartsInit => ChartsInv
  <1> SUFFICES ASSUME ChartsInit PROVE ChartsInv
    OBVIOUS
  <1>1. /\ chartDoing \in ChartDoings /\ picks = [at |-> Combos[1], only |-> NoField]
        /\ form = [NoForm EXCEPT !.kind = "add"] /\ page = NoPage
        /\ charts = {} /\ tasks = {} /\ ids = 0
        /\ chartPast = [replaced |-> {}, stored |-> {}, crossed |-> FALSE]
    BY DEF ChartsInit
  <1>2. picks \in PickChoices
    <2>1. Combos[1] \in Seq(Levels) /\ Len(Combos[1]) = 5 /\ 1 \in DOMAIN Combos
      BY CombosAre
    <2> QED
      BY <1>1, <2>1 DEF PickChoices, Offered
  <1>3. layout \in Layouts
    <2>1. \/ layout = NeverSaved
          \/ \E h \in SUBSET (BuiltIns \ Replaceable) : layout = [order |-> "own", hidden |-> h]
      BY DEF ChartsInit
    <2> QED
      BY <2>1, NeverSavedIs DEF Layouts
  <1>4. form = [kind |-> "add", id |-> 0, panel |-> NoBuiltIn, read |-> {}, looked |-> FALSE, state |-> "idle"]
    BY <1>1 DEF NoForm
  <1>5. form \in ChartForms
    BY <1>4, NeverSavedIs DEF ChartForms
  <1>6. page \in ChartPages /\ page.charts = {}
    BY <1>1 DEF NoPage, ChartPages
  <1>7. HeldCharts = {}
    BY <1>1, <1>4, <1>6 DEF HeldCharts
  <1>8. ChartsHeld
    BY <1>1, <1>2, <1>3, <1>5, <1>6, ChartsAssumption DEF ChartsHeld, Pasts
  <1>9. PanelsFit
    BY <1>1, <1>4, <1>7 DEF PanelsFit
  <1>10. WritersFit
    BY <1>1 DEF WritersFit, ReplacedPanelHasItsChart
  <1>11. FormFits
    BY <1>1, <1>4 DEF FormFits, SaidOfTheseChoices
  <1> QED
    BY <1>8, <1>9, <1>10, <1>11 DEF ChartsInv

\* Build a chart and the charts saved onto a page: the picks are always offered
\* ones, an id stands for one panel, a chain that writes the layout has done
\* what it counts on, and the form speaks of the picks on screen.
THEOREM ChartsInductive == ChartsSpec => []ChartsInv
  <1>1. ChartsInit => ChartsInv
    BY ChartsStart
  <1>2. ChartsInv /\ [ChartsNext]_chartVars => ChartsInv'
    BY ChartsStep
  <1> QED
    BY <1>1, <1>2, PTL DEF ChartsSpec

\* A panel that a replace took off its page has its chart among the saved
\* ones, unless two chains that write the page's layout overlapped
\* (savedCharts.js 120-128, SavedChart.jsx 20-36).
THEOREM ReplacedAlwaysHasItsChart == ChartsSpec => []ReplacedPanelHasItsChart
  <1>1. ChartsInv => ReplacedPanelHasItsChart
    BY DEF ChartsInv, WritersFit, ReplacedPanelHasItsChart
  <1> QED
    BY <1>1, ChartsInductive, PTL

\* The builder's menus stay on picks the server offers, and it says "Added" or
\* "Saved" only of picks that were stored (chartBuilder.js 6-12).
THEOREM ChoicesAlwaysTrue == ChartsSpec => []ChoicesAreTrue
  <1>1. ASSUME ChartsInv PROVE ChoicesAreTrue
    <2>1. \A p \in PickChoices : Len(p.at) = 5 /\ Offered(p)
      BY DEF PickChoices
    <2>2. \A c \in HeldCharts : IsChart(c)
      <3>1. \A c \in HeldCharts : c \in ChartRecs /\ c.id <= ids /\ ids \in Nat
        BY <1>1, ChartParts DEF ChartsInv, PanelsFit
      <3>2. \A c \in ChartRecs : c.id \in Nat /\ c.replaces \in MaybePanel /\ c.picks \in PickChoices
        BY DEF ChartRecs
      <3> QED
        BY <2>1, <3>1, <3>2 DEF IsChart
    <2>3. \A c, d \in charts : c.id = d.id => c = d
      BY <1>1 DEF ChartsInv, PanelsFit
    <2>4. ASSUME NEW t \in tasks
          PROVE  /\ IsChart(t.chart) /\ t.lay \in Layouts /\ t.mine \in BOOLEAN
                 /\ t.left # <<>> /\ t.ans \in {"sent", "ok", "bad"}
      <3>1. t \in Chained /\ t.left \in Lefts(t.kind) /\ t.chart \in HeldCharts
        BY <1>1, ChartParts DEF ChartsInv, ChartsHeld
      <3> QED
        BY <2>2, <3>1, LeftSays DEF Chained
    <2>5. /\ form.kind \in {"none", "add", "change", "replace"} /\ form.id \in 0 .. ids
          /\ form.panel \in MaybePanel /\ form.looked \in BOOLEAN
          /\ form.state \in {"idle", "busy", "done", "failed"}
      <3>1. form \in ChartForms /\ form.id \in Nat /\ form.id <= ids /\ ids \in Nat
        BY <1>1, ChartParts DEF ChartsInv, PanelsFit
      <3> QED
        BY <3>1 DEF ChartForms
    <2>6. page.open \in BOOLEAN /\ [order |-> page.order, hidden |-> page.hidden] \in Layouts
      BY <1>1, ChartParts DEF ChartPages, Layouts
    <2>7. ChartsTypeOK
      <3>1. /\ chartDoing \in ChartDoings /\ ids \in 0 .. MaxCharts /\ layout \in Layouts
            /\ chartPast.replaced \subseteq layout.hidden /\ chartPast.crossed \in BOOLEAN
        BY <1>1 DEF ChartsInv, ChartsHeld, WritersFit, Pasts
      <3>2. Len(picks.at) = 5
        BY <1>1, <2>1, ChartParts
      <3>3. \A c \in charts \union page.charts \union form.read : IsChart(c)
        BY <1>1, <2>2, ChartParts
      <3> QED
        BY <2>3, <2>4, <2>5, <2>6, <3>1, <3>2, <3>3 DEF ChartsTypeOK
    <2> QED
      BY <1>1, <2>1, <2>7, ChartParts DEF ChoicesAreTrue, PicksAreOffered, ChartsInv, FormFits
  <1> QED
    BY <1>1, ChartsInductive, PTL

-----------------------------------------------------------------------------
(* The Changes page.                                                       *)

\* A set with 0 and with the successor of each of its numbers holds them all.
LEMMA EachInTurn ==
  ASSUME NEW N \in Nat, NEW G, 0 \in G, \A n \in 0 .. N : n \in G /\ n < N => n + 1 \in G
  PROVE  \A n \in 0 .. N : n \in G
  <1> DEFINE T == {n \in 0 .. N : n \notin G}
  <1> SUFFICES ASSUME T # {} PROVE FALSE
    OBVIOUS
  <1>1. T \subseteq Nat
    OBVIOUS
  <1> HIDE DEF T
  <1>2. PICK x \in T : \A y \in T : x <= y
    BY <1>1, LeastOf
  <1>3. x \in 0 .. N /\ x \notin G /\ x # 0
    BY DEF T
  <1>4. x - 1 \in 0 .. N /\ x - 1 < N /\ (x - 1) + 1 = x /\ x - 1 \notin T
    BY <1>1, <1>2, <1>3
  <1>5. x - 1 \in G
    BY <1>4 DEF T
  <1> QED
    BY <1>3, <1>4, <1>5

\* The table Since is read from: entry n is what is kept of the first n.
SinceTable(k, s, from) ==
    k = [n \in 0 .. Len(s) |->
            IF n = 0 THEN <<>>
            ELSE IF s[n].at >= from THEN Append(k[n - 1], s[n]) ELSE k[n - 1]]

\* There is such a table, built one entry at a time.
LEMMA SinceTableExists ==
  ASSUME NEW S, NEW s \in Seq(S), NEW from
  PROVE  \E k : SinceTable(k, s, from)
  <1> DEFINE Step(k, n) == IF n = 0 THEN <<>>
                           ELSE IF s[n].at >= from THEN Append(k[n - 1], s[n]) ELSE k[n - 1]
             Fine(k, m) == k = [n \in 0 .. m |-> k[n]] /\ \A n \in 0 .. m : k[n] = Step(k, n)
             G == {m \in 0 .. Len(s) : \E k : Fine(k, m)}
  <1>0. Len(s) \in Nat
    OBVIOUS
  <1>1. 0 \in G
    <2> DEFINE k == [n \in 0 .. 0 |-> <<>>]
    <2>1. Fine(k, 0)
      OBVIOUS
    <2> HIDE DEF Fine
    <2> QED
      BY <1>0, <2>1
  <1>2. ASSUME NEW m \in 0 .. Len(s), m \in G, m < Len(s) PROVE m + 1 \in G
    <2>1. PICK k : Fine(k, m)
      BY <1>2
    <2> DEFINE last == Step(k, m + 1)
               l == [n \in 0 .. m + 1 |-> IF n = m + 1 THEN last ELSE k[n]]
    <2>0. m \in Nat /\ m + 1 \in 0 .. Len(s)
      BY <1>0, <1>2
    <2>2. ASSUME NEW n \in 0 .. m + 1 PROVE l[n] = Step(l, n)
      <3>1. CASE n = 0
        BY <2>0, <2>1, <3>1
      <3>2. CASE n = m + 1
        <4>1. n # 0 /\ n - 1 = m /\ n - 1 \in 0 .. m + 1 /\ n - 1 # m + 1
          BY <2>0, <3>2
        <4>2. l[n - 1] = k[n - 1] /\ l[n] = last
          <5> HIDE DEF last
          <5> QED
            BY <3>2, <4>1
        <4> HIDE DEF l
        <4> QED
          BY <3>2, <4>1, <4>2
      <3>3. CASE n # 0 /\ n # m + 1
        <4>1. n \in 0 .. m /\ n - 1 \in 0 .. m + 1 /\ n - 1 # m + 1
          BY <2>0, <3>3
        <4>2. l[n] = k[n] /\ l[n - 1] = k[n - 1]
          <5> HIDE DEF last
          <5> QED
            BY <3>3, <4>1
        <4>3. k[n] = Step(k, n)
          BY <2>1, <4>1
        <4> HIDE DEF l
        <4> QED
          BY <3>3, <4>2, <4>3
      <3> QED
        BY <3>1, <3>2, <3>3
    <2>3. l = [n \in 0 .. m + 1 |-> l[n]]
      <3> HIDE DEF last
      <3> QED
        OBVIOUS
    <2> HIDE DEF l
    <2>4. Fine(l, m + 1)
      BY <2>2, <2>3
    <2> HIDE DEF Fine
    <2> QED
      BY <2>0, <2>4
  <1>3. \A m \in 0 .. Len(s) : m \in G /\ m < Len(s) => m + 1 \in G
    <2> HIDE DEF G
    <2> QED
      BY <1>2
  <1>4. Len(s) \in G
    <2> HIDE DEF G
    <2>1. \A m \in 0 .. Len(s) : m \in G
      BY <1>0, <1>1, <1>3, EachInTurn
    <2> QED
      BY <1>0, <2>1
  <1>5. PICK k : Fine(k, Len(s))
    BY <1>4
  <1>6. [n \in 0 .. Len(s) |-> k[n]] = [n \in 0 .. Len(s) |-> Step(k, n)]
    BY <1>5
  <1>7. k = [n \in 0 .. Len(s) |-> Step(k, n)]
    BY <1>5, <1>6
  <1> QED
    BY <1>7 DEF SinceTable

LEMMA RangeOf ==
  ASSUME NEW S, NEW s \in Seq(S)
  PROVE  Range(s) = {s[i] : i \in 1 .. Len(s)} /\ Range(s) \subseteq S /\ Len(s) \in Nat
  BY DEF Range

LEMMA RangeOfAppend ==
  ASSUME NEW S, NEW s \in Seq(S), NEW x \in S
  PROVE  Append(s, x) \in Seq(S) /\ Range(Append(s, x)) = Range(s) \union {x}
  <1> DEFINE t == Append(s, x)
  <1>1. /\ t \in Seq(S) /\ Len(t) = Len(s) + 1 /\ t[Len(s) + 1] = x /\ Len(s) \in Nat
        /\ \A i \in 1 .. Len(s) : t[i] = s[i]
    OBVIOUS
  <1> HIDE DEF t
  <1>2. Range(s) = {s[i] : i \in 1 .. Len(s)} /\ Range(t) = {t[i] : i \in 1 .. Len(t)}
    BY <1>1, RangeOf
  <1>3. 1 .. Len(t) = (1 .. Len(s)) \union {Len(s) + 1}
    BY <1>1
  <1>4. Range(t) = Range(s) \union {x}
    BY <1>1, <1>2, <1>3
  <1> QED
    BY <1>1, <1>4 DEF t

\* Since keeps the events from the moment on, and no others.
LEMMA SinceIs ==
  ASSUME NEW s \in Seq(LogEntries), NEW from \in Int
  PROVE  Since(s, from) \in Seq(LogEntries) /\ Range(Since(s, from)) = {e \in Range(s) : e.at >= from}
  <1> DEFINE K == CHOOSE k : SinceTable(k, s, from)
             First(n) == {s[i] : i \in 1 .. n}
             Late(X) == {e \in X : e.at >= from}
             G == {n \in 0 .. Len(s) : K[n] \in Seq(LogEntries) /\ Range(K[n]) = Late(First(n))}
  <1>0. Len(s) \in Nat /\ \A i \in 1 .. Len(s) : s[i] \in LogEntries
    OBVIOUS
  <1>1. SinceTable(K, s, from)
    BY SinceTableExists
  <1>2. Since(s, from) = K[Len(s)]
    BY DEF Since, SinceTable
  <1> HIDE DEF K
  <1>3. /\ K[0] = <<>>
        /\ \A n \in 0 .. Len(s) :
               n # 0 => K[n] = IF s[n].at >= from THEN Append(K[n - 1], s[n]) ELSE K[n - 1]
    <2> DEFINE Step(n) == IF n = 0 THEN <<>>
                          ELSE IF s[n].at >= from THEN Append(K[n - 1], s[n]) ELSE K[n - 1]
    <2>1. K = [n \in 0 .. Len(s) |-> Step(n)]
      BY <1>1 DEF SinceTable
    <2> HIDE DEF Step
    <2>2. \A n \in 0 .. Len(s) : K[n] = Step(n)
      BY <2>1
    <2>3. 0 \in 0 .. Len(s)
      BY <1>0
    <2> QED
      BY <2>2, <2>3 DEF Step
  <1>4. 0 \in G
    <2>1. K[0] \in Seq(LogEntries) /\ Len(K[0]) = 0
      BY <1>3
    <2>2. Range(K[0]) = {}
      BY <2>1, RangeOf
    <2>3. First(0) = {}
      OBVIOUS
    <2> QED
      BY <1>0, <2>1, <2>2, <2>3
  <1>5. ASSUME NEW m \in 0 .. Len(s), m \in G, m < Len(s) PROVE m + 1 \in G
    <2>1. K[m] \in Seq(LogEntries) /\ Range(K[m]) = Late(First(m))
      BY <1>5
    <2>2. m + 1 \in 0 .. Len(s) /\ m + 1 # 0 /\ (m + 1) - 1 = m /\ m + 1 \in 1 .. Len(s)
      BY <1>0, <1>5
    <2> DEFINE x == s[m + 1]
    <2>3. K[m + 1] = IF x.at >= from THEN Append(K[m], x) ELSE K[m]
      BY <1>3, <2>2
    <2>4. First(m + 1) = First(m) \union {x}
      <3>1. 1 .. m + 1 = (1 .. m) \union {m + 1}
        BY <2>2
      <3> QED
        BY <3>1
    <2>5. x \in LogEntries
      BY <1>0, <2>2
    <2> HIDE DEF x, First
    <2>6. CASE x.at >= from
      <3>1. K[m + 1] \in Seq(LogEntries) /\ Range(K[m + 1]) = Range(K[m]) \union {x}
        BY <2>1, <2>3, <2>5, <2>6, RangeOfAppend
      <3> QED
        BY <2>1, <2>2, <2>4, <2>6, <3>1
    <2>7. CASE ~(x.at >= from)
      BY <2>1, <2>2, <2>3, <2>4, <2>7
    <2> QED
      BY <2>6, <2>7
  <1>6. Len(s) \in G
    <2> HIDE DEF G
    <2>1. \A m \in 0 .. Len(s) : m \in G /\ m < Len(s) => m + 1 \in G
      BY <1>5
    <2>2. \A m \in 0 .. Len(s) : m \in G
      BY <1>0, <1>4, <2>1, EachInTurn
    <2> QED
      BY <1>0, <2>2
  <1>7. First(Len(s)) = Range(s)
    BY RangeOf
  <1> QED
    BY <1>2, <1>6, <1>7

\* An answer holds nothing newer than itself; and, if the cap was not hit,
\* everything from since on that is older than it.
Tells(p) ==
    p.status = "ok" =>
        /\ p.asOf <= ServerClock
        /\ \A e \in Range(p.rows) : e.at <= p.asOf
        /\ ~p.truncated =>
               \A e \in Range(audit) : feed.since <= e.at /\ e.at < p.asOf => e \in Range(p.rows)

\* Nothing is logged ahead of the server's clock, the page is never ahead of
\* its own, and the window of a page that is open never reaches back before
\* the moment it asks from.
ChangesInv ==
    /\ ChangesTypeOK
    /\ \A e \in Range(audit) : e.at <= ServerClock
    /\ feed.clock <= BrowserClock
    /\ feed.open => feed.since + DayLength <= feed.clock
    /\ Tells(feed.payload) /\ Tells(poll.answer)

ChangeFeeds ==
    [open : BOOLEAN, since : Int, clock : Nat, payload : ChangePayloads,
     error : BOOLEAN, loading : BOOLEAN]
ChangePolls == [sent : BOOLEAN, answer : ChangePayloads]

LEMMA NoPayloadIs == NoPayload \in ChangePayloads /\ NoPayload.status = "none"
  BY DEF NoPayload, ChangePayloads

LEMMA NoPollIs ==
  /\ NoPoll \in ChangePolls /\ NoPoll.answer.status = "none"
  /\ \A b \in BOOLEAN : LET n == [NoPoll EXCEPT !.sent = b]
                        IN  n \in ChangePolls /\ n.answer.status = "none"
  BY NoPayloadIs DEF NoPoll, ChangePolls

\* Both clocks are moments, and go with the time.
LEMMA ClocksAre ==
  ASSUME time \in Nat, skew \in Skews
  PROVE  /\ ServerClock \in Nat /\ BrowserClock \in Nat
         /\ skew.server \in Nat /\ skew.browser \in Nat
  <1>1. skew \in [server : Nat, browser : Nat]
    BY ChangesAssumption
  <1>2. skew.server \in Nat /\ skew.browser \in Nat
    BY <1>1
  <1> QED
    BY <1>2 DEF ServerClock, BrowserClock

LEMMA ChangesStart == ChangesInit => ChangesInv
  <1> SUFFICES ASSUME ChangesInit PROVE ChangesInv
    OBVIOUS
  <1>1. time = 0 /\ skew \in Skews /\ audit = <<>> /\ feed = Closed /\ poll = NoPoll
    BY DEF ChangesInit
  <1>2. feed \in ChangeFeeds /\ ~feed.open /\ feed.payload.status = "none"
    BY <1>1, NoPayloadIs DEF Closed, ChangeFeeds
  <1>3. poll \in ChangePolls /\ poll.answer.status = "none"
    BY <1>1, NoPollIs
  <1>4. /\ audit \in Seq(LogEntries) /\ Len(audit) = 0
        /\ feed.clock = 0 /\ BrowserClock \in Nat
    BY <1>1, ClocksAre DEF Closed
  <1>5. Range(audit) = {}
    <2>1. Range(audit) = {audit[i] : i \in 1 .. Len(audit)}
      BY <1>4, RangeOf
    <2> QED
      BY <1>4, <2>1
  <1> QED
    BY <1>1, <1>2, <1>3, <1>4, <1>5 DEF ChangesInv, ChangesTypeOK, ChangeFeeds, ChangePolls, Tells

LEMMA SomeoneActsKeeps ==
  ASSUME ChangesInv, NEW who \in Users, SomeoneActs(who)
  PROVE  ChangesInv'
  <1> DEFINE x == [at |-> ServerClock, who |-> who]
  <1>0. ServerClock \in Nat /\ audit \in Seq(LogEntries)
    BY ClocksAre DEF ChangesInv, ChangesTypeOK
  <1>1. x \in LogEntries /\ x.at = ServerClock
    BY <1>0 DEF LogEntries
  <1>2. /\ audit' = Append(audit, x) /\ time' = time /\ skew' = skew /\ feed' = feed /\ poll' = poll
        /\ ServerClock' = ServerClock /\ BrowserClock' = BrowserClock
    BY DEF SomeoneActs, ServerClock, BrowserClock
  <1> HIDE DEF x
  <1>3. audit' \in Seq(LogEntries) /\ Range(audit') = Range(audit) \union {x}
    BY <1>0, <1>1, <1>2, RangeOfAppend
  <1>4. ASSUME NEW p \in ChangePayloads, Tells(p) PROVE Tells(p)'
    <2>1. p.asOf \in Nat
      BY DEF ChangePayloads
    <2>2. p.status = "ok" => ~(x.at < p.asOf)
      BY <1>0, <1>1, <1>4, <2>1 DEF Tells
    <2> QED
      BY <1>2, <1>3, <1>4, <2>2 DEF Tells
  <1>5. feed.payload \in ChangePayloads /\ poll.answer \in ChangePayloads
    BY DEF ChangesInv, ChangesTypeOK
  <1>6. Tells(feed.payload)' /\ Tells(poll.answer)'
    BY <1>2, <1>4, <1>5 DEF ChangesInv, Tells
  <1>7. ChangesTypeOK'
    BY <1>2, <1>3 DEF ChangesInv, ChangesTypeOK
  <1>8. \A e \in Range(audit') : e.at <= ServerClock'
    BY <1>0, <1>1, <1>2, <1>3 DEF ChangesInv
  <1> QED
    BY <1>2, <1>6, <1>7, <1>8 DEF ChangesInv

LEMMA TimePassesKeeps ==
  ASSUME ChangesInv, TimePasses
  PROVE  ChangesInv'
  <1>0. /\ time \in Nat /\ time' = time + 1 /\ skew' = skew /\ skew \in Skews
        /\ audit' = audit /\ feed' = feed /\ poll' = poll
    BY DEF ChangesInv, ChangesTypeOK, TimePasses
  <1>1. ServerClock \in Nat /\ ServerClock' = ServerClock + 1
    BY <1>0, ClocksAre DEF ServerClock
  <1>2. feed.clock <= BrowserClock'
    <2>1. BrowserClock \in Nat /\ BrowserClock' = BrowserClock + 1
      BY <1>0, ClocksAre DEF BrowserClock
    <2>2. feed.clock \in Nat /\ feed.clock <= BrowserClock
      BY DEF ChangesInv, ChangesTypeOK
    <2> QED
      BY <2>1, <2>2
  <1>3. ChangesTypeOK'
    BY <1>0 DEF ChangesInv, ChangesTypeOK
  <1>4. ASSUME NEW p \in ChangePayloads, Tells(p) PROVE Tells(p)'
    <2>1. p.asOf \in Nat
      BY DEF ChangePayloads
    <2> QED
      BY <1>0, <1>1, <1>4, <2>1 DEF Tells
  <1>5. feed.payload \in ChangePayloads /\ poll.answer \in ChangePayloads
    BY DEF ChangesInv, ChangesTypeOK
  <1>6. Tells(feed.payload)' /\ Tells(poll.answer)'
    BY <1>0, <1>4, <1>5 DEF ChangesInv, Tells
  <1>7. \A e \in Range(audit) : e.at <= ServerClock /\ e.at \in Nat
    <2>1. audit \in Seq(LogEntries) /\ \A e \in Range(audit) : e.at <= ServerClock
      BY DEF ChangesInv, ChangesTypeOK
    <2>2. Range(audit) \subseteq LogEntries
      BY <2>1, RangeOf
    <2> QED
      BY <2>1, <2>2 DEF LogEntries
  <1>8. \A e \in Range(audit') : e.at <= ServerClock'
    BY <1>0, <1>1, <1>7
  <1> QED
    BY <1>0, <1>2, <1>3, <1>6, <1>8 DEF ChangesInv

\* A step of the page or of its read: the log and the time stay.
LEMMA PageStep ==
  ASSUME ChangesInv, time' = time, skew' = skew, audit' = audit, feed' \in ChangeFeeds, poll' \in ChangePolls,
         feed'.clock <= BrowserClock, feed'.open => feed'.since + DayLength <= feed'.clock,
         Tells(feed.payload)', Tells(poll.answer)'
  PROVE  ChangesInv'
  BY DEF ChangesInv, ChangesTypeOK, ChangeFeeds, ChangePolls, ServerClock, BrowserClock

LEMMA FeedFits ==
  ASSUME ChangesInv, NEW b \in BOOLEAN, NEW p \in ChangePayloads, NEW c \in Nat
  PROVE  /\ LET u == [feed EXCEPT !.clock = c]
            IN  /\ u \in ChangeFeeds /\ u.open = feed.open /\ u.since = feed.since /\ u.clock = c
                /\ u.payload = feed.payload
         /\ LET u == [feed EXCEPT !.payload = p, !.error = FALSE, !.loading = FALSE]
            IN  /\ u \in ChangeFeeds /\ u.open = feed.open /\ u.since = feed.since
                /\ u.clock = feed.clock /\ u.payload = p
         /\ LET u == [feed EXCEPT !.error = TRUE, !.loading = FALSE]
            IN  /\ u \in ChangeFeeds /\ u.open = feed.open /\ u.since = feed.since
                /\ u.clock = feed.clock /\ u.payload = feed.payload
  <1>0. feed \in ChangeFeeds
    BY DEF ChangesInv, ChangesTypeOK, ChangeFeeds
  <1> DEFINE u == [feed EXCEPT !.clock = c]
             v == [feed EXCEPT !.payload = p, !.error = FALSE, !.loading = FALSE]
             w == [feed EXCEPT !.error = TRUE, !.loading = FALSE]
  <1>1. u \in ChangeFeeds
    BY <1>0 DEF ChangeFeeds
  <1>2. u.open = feed.open /\ u.since = feed.since /\ u.clock = c /\ u.payload = feed.payload
    BY <1>0 DEF ChangeFeeds
  <1>3. v \in ChangeFeeds
    BY <1>0 DEF ChangeFeeds
  <1>4. v.open = feed.open /\ v.since = feed.since /\ v.clock = feed.clock /\ v.payload = p
    BY <1>0 DEF ChangeFeeds
  <1>5. w \in ChangeFeeds
    BY <1>0 DEF ChangeFeeds
  <1>6. w.open = feed.open /\ w.since = feed.since /\ w.clock = feed.clock /\ w.payload = feed.payload
    BY <1>0 DEF ChangeFeeds
  <1> QED
    BY <1>1, <1>2, <1>3, <1>4, <1>5, <1>6

LEMMA OpenChangesKeeps ==
  ASSUME ChangesInv, OpenChanges
  PROVE  ChangesInv'
  <1>0. time' = time /\ skew' = skew /\ audit' = audit /\ DayLength \in Nat /\ BrowserClock \in Nat
    BY ChangesAssumption, ClocksAre DEF ChangesInv, ChangesTypeOK, OpenChanges
  <1>1. poll' \in ChangePolls /\ poll'.answer.status = "none"
    BY NoPollIs DEF OpenChanges
  <1> DEFINE b == BrowserClock
             d == b - DayLength
             u == [Closed EXCEPT !.open = TRUE, !.since = d, !.clock = b]
  <1>2. feed' = u
    BY DEF OpenChanges
  <1>3. d \in Int /\ b \in Nat /\ d + DayLength <= b /\ b <= BrowserClock
    BY <1>0
  <1> HIDE DEF b, d
  <1>4. u \in ChangeFeeds
    BY <1>3, NoPayloadIs DEF Closed, ChangeFeeds
  <1>5. u.since = d /\ u.clock = b /\ u.payload.status = "none"
    BY <1>3, NoPayloadIs DEF Closed, ChangeFeeds
  <1> HIDE DEF u
  <1>6. Tells(feed.payload)' /\ Tells(poll.answer)'
    BY <1>1, <1>2, <1>5 DEF Tells
  <1> QED
    BY <1>0, <1>1, <1>2, <1>3, <1>4, <1>5, <1>6, PageStep

\* What an answer tells is the same while since, the log and the time are.
LEMMA TellsStays ==
  ASSUME time' = time, skew' = skew, audit' = audit, feed'.since = feed.since
  PROVE  \A p : (p.status = "ok" =>
             /\ p.asOf <= ServerClock'
             /\ \A e \in Range(p.rows) : e.at <= p.asOf
             /\ ~p.truncated =>
                    \A e \in Range(audit') : feed'.since <= e.at /\ e.at < p.asOf => e \in Range(p.rows))
         <=> Tells(p)
  BY DEF Tells, ServerClock

LEMMA ReadStep ==
  ASSUME ChangesInv, time' = time, skew' = skew, audit' = audit, feed' \in ChangeFeeds, poll' \in ChangePolls,
         feed'.since = feed.since, feed'.open = feed.open, feed.clock <= feed'.clock,
         feed'.clock <= BrowserClock,
         Tells(feed'.payload), Tells(poll'.answer)
  PROVE  ChangesInv'
  <1>1. Tells(feed.payload)' /\ Tells(poll.answer)'
    BY TellsStays DEF Tells
  <1>2. /\ feed.clock \in Nat /\ feed'.clock \in Nat /\ feed.since \in Int /\ DayLength \in Nat
        /\ feed.open => feed.since + DayLength <= feed.clock
    BY ChangesAssumption DEF ChangesInv, ChangesTypeOK, ChangeFeeds
  <1>3. feed'.open => feed'.since + DayLength <= feed'.clock
    BY <1>2
  <1> QED
    BY <1>1, <1>3, PageStep

\* What the server answers, of the log as it is.
LEMMA AnswerTells ==
  ASSUME ChangesInv, NEW p \in {Events, ReadFailed}
  PROVE  p \in ChangePayloads /\ Tells(p)
  <1> DEFINE now == ServerClock
  <1>0. /\ now \in Nat /\ audit \in Seq(LogEntries) /\ feed.since \in Int /\ RowCap500 \in Nat \ {0}
        /\ \A e \in Range(audit) : e.at <= now
    BY ChangesAssumption, ClocksAre DEF ChangesInv, ChangesTypeOK
  <1>1. CASE p = ReadFailed
    <2>1. p \in ChangePayloads /\ p.status = "error"
      BY <1>0, <1>1, NoPayloadIs DEF ReadFailed, ChangePayloads, NoPayload
    <2> QED
      BY <2>1 DEF Tells
  <1>2. CASE p = Events
    <2> DEFINE wanted == Since(audit, feed.since)
               from == Len(wanted) - RowCap500 + 1
               kept == IF Len(wanted) > RowCap500 THEN SubSeq(wanted, from, Len(wanted)) ELSE wanted
               cut == Len(kept) >= RowCap500
    <2>1. p = [status |-> "ok", rows |-> kept, truncated |-> cut, asOf |-> now]
      BY <1>2 DEF Events
    <2>2. wanted \in Seq(LogEntries) /\ Range(wanted) = {e \in Range(audit) : e.at >= feed.since}
      BY <1>0, SinceIs
    <2> HIDE DEF wanted
    <2>3. kept \in Seq(LogEntries) /\ Range(kept) \subseteq Range(wanted)
      <3>1. CASE Len(wanted) > RowCap500
        <4>1. from \in 1 .. Len(wanted) /\ Len(wanted) \in Nat
          BY <1>0, <2>2, <3>1
        <4> DEFINE t == SubSeq(wanted, from, Len(wanted))
        <4> HIDE DEF from
        <4>2. /\ t \in Seq(LogEntries) /\ Len(t) = Len(wanted) - from + 1
              /\ \A i \in 1 .. Len(t) : t[i] = wanted[from + i - 1]
          BY <2>2, <4>1
        <4> HIDE DEF t
        <4>3. \A i \in 1 .. Len(t) : from + i - 1 \in 1 .. Len(wanted)
          BY <4>1, <4>2
        <4>4. /\ Range(t) = {t[i] : i \in 1 .. Len(t)}
              /\ Range(wanted) = {wanted[i] : i \in 1 .. Len(wanted)}
          BY <2>2, <4>2, RangeOf
        <4>5. Range(t) \subseteq Range(wanted)
          BY <4>2, <4>3, <4>4
        <4> QED
          BY <3>1, <4>2, <4>5 DEF t, from
      <3>2. CASE ~(Len(wanted) > RowCap500)
        BY <2>2, <3>2
      <3> QED
        BY <3>1, <3>2
    <2>4. ~cut => kept = wanted
      <3>1. CASE Len(wanted) > RowCap500
        <4>1. Len(wanted) \in Nat /\ from \in 1 .. Len(wanted)
          BY <1>0, <2>2, <3>1
        <4>2. Len(SubSeq(wanted, from, Len(wanted))) = RowCap500
          BY <1>0, <2>2, <3>1, <4>1
        <4> QED
          BY <1>0, <3>1, <4>2
      <3>2. CASE ~(Len(wanted) > RowCap500)
        BY <3>2
      <3> QED
        BY <3>1, <3>2
    <2>5. cut \in BOOLEAN
      OBVIOUS
    <2> HIDE DEF kept, cut
    <2>6. p \in ChangePayloads
      BY <1>0, <2>1, <2>3, <2>5 DEF ChangePayloads
    <2>7. p.status = "ok" /\ p.rows = kept /\ p.truncated = cut /\ p.asOf = now
      BY <2>1
    <2>8. \A e \in Range(kept) : e.at <= now
      BY <1>0, <2>2, <2>3
    <2>9. ~cut => \A e \in Range(audit) : feed.since <= e.at => e \in Range(kept)
      <3>1. Range(audit) \subseteq LogEntries
        BY <1>0, RangeOf
      <3>2. \A e \in Range(audit) : e.at \in Nat
        BY <3>1 DEF LogEntries
      <3> QED
        BY <1>0, <2>2, <2>4, <3>2
    <2> QED
      BY <1>0, <2>6, <2>7, <2>8, <2>9 DEF Tells
  <1> QED
    BY <1>1, <1>2

LEMMA ChangesReadsKeep ==
  ASSUME ChangesInv, TickClock \/ PollChanges \/ ServeChanges \/ ChangesLand \/ ChangesLost
  PROVE  ChangesInv'
  <1>0. /\ feed \in ChangeFeeds /\ poll \in ChangePolls /\ time' = time /\ skew' = skew /\ audit' = audit
        /\ BrowserClock \in Nat /\ poll.answer \in ChangePayloads /\ feed.clock \in Nat
        /\ feed.clock <= feed.clock /\ feed.clock <= BrowserClock /\ BrowserClock <= BrowserClock
        /\ Tells(feed.payload) /\ Tells(poll.answer) /\ Tells(NoPoll.answer)
    BY NoPollIs, ClocksAre DEF ChangesInv, ChangesTypeOK, ChangeFeeds, ChangePolls, TickClock, PollChanges, ServeChanges,
       ChangesLand, ChangesLost, Tells
  <1>1. CASE TickClock
    <2>1. /\ feed' \in ChangeFeeds /\ feed'.open = feed.open /\ feed'.since = feed.since
          /\ feed'.clock = BrowserClock /\ feed'.payload = feed.payload /\ poll' = poll
      BY <1>0, <1>1, FeedFits DEF TickClock
    <2> QED
      BY <1>0, <2>1, ReadStep
  <1>2. CASE PollChanges
    <2>1. feed' = feed /\ poll' \in ChangePolls /\ Tells(poll'.answer)
      BY <1>2, NoPollIs DEF PollChanges, Tells
    <2> QED
      BY <1>0, <2>1, ReadStep
  <1>3. CASE ServeChanges
    <2>1. PICK p \in {Events, ReadFailed} : poll' = [poll EXCEPT !.answer = p]
      BY <1>3 DEF ServeChanges
    <2>2. p \in ChangePayloads /\ Tells(p)
      BY AnswerTells
    <2>3. poll' \in ChangePolls /\ poll'.answer = p /\ feed' = feed
      BY <1>0, <1>3, <2>1, <2>2 DEF ChangePolls, ServeChanges
    <2> QED
      BY <1>0, <2>2, <2>3, ReadStep
  <1>4. CASE ChangesLand
    <2>1. /\ feed' \in ChangeFeeds /\ feed'.open = feed.open /\ feed'.since = feed.since
          /\ feed'.clock = feed.clock /\ feed'.payload = poll.answer
      BY <1>0, <1>4, FeedFits DEF ChangesLand
    <2>2. poll' = NoPoll /\ poll' \in ChangePolls
      BY <1>4, NoPollIs DEF ChangesLand
    <2> QED
      BY <1>0, <2>1, <2>2, ReadStep
  <1>5. CASE ChangesLost
    <2>1. /\ feed' \in ChangeFeeds /\ feed'.open = feed.open /\ feed'.since = feed.since
          /\ feed'.clock = feed.clock /\ feed'.payload = feed.payload
      BY <1>0, <1>5, FeedFits DEF ChangesLost
    <2>2. poll' = NoPoll /\ poll' \in ChangePolls
      BY <1>5, NoPollIs DEF ChangesLost
    <2> QED
      BY <1>0, <2>1, <2>2, ReadStep
  <1> QED
    BY <1>1, <1>2, <1>3, <1>4, <1>5

LEMMA ChangesStay == ChangesInv /\ UNCHANGED changeVars => ChangesInv'
  BY DEF ChangesInv, ChangesTypeOK, Tells, changeVars, ServerClock, BrowserClock

\* What the page and its read hold of the log: nothing ahead of the server's clock, and,
\* when the cap was not hit, everything of the window that is older than the
\* answer (csp.go 887-921, changes.js 16-45).
THEOREM ChangesInductive == ChangesSpec => []ChangesInv
  <1>1. ChangesInv /\ [ChangesNext]_changeVars => ChangesInv'
    BY SomeoneActsKeeps, TimePassesKeeps, OpenChangesKeeps, ChangesReadsKeep, ChangesStay DEF ChangesNext
  <1> QED
    BY <1>1, ChangesStart, PTL DEF ChangesSpec

LEMMA MinOfTwo ==
  ASSUME NEW a \in Int, NEW b \in Int
  PROVE  Min({a, b}) <= a /\ Min({a, b}) <= b /\ Min({a, b}) \in Int
  <1>1. \E x \in {a, b} : \A y \in {a, b} : x =< y
    <2>1. CASE a <= b
      BY <2>1
    <2>2. CASE b <= a
      BY <2>2
    <2> QED
      BY <2>1, <2>2
  <1>2. Min({a, b}) \in {a, b} /\ \A y \in {a, b} : Min({a, b}) =< y
    BY <1>1 DEF Min
  <1> QED
    BY <1>2

\* The first and the last of some moments up to a given one.
LEMMA SpanOf ==
  ASSUME NEW n \in Nat, NEW T \in SUBSET (0 .. n), T # {}
  PROVE  /\ Min(T) \in T /\ \A y \in T : Min(T) <= y
         /\ Max(T) \in T /\ \A y \in T : y <= Max(T)
  <1>1. T \subseteq Nat
    OBVIOUS
  <1>2. \E x \in T : \A y \in T : x <= y
    BY <1>1, LeastOf
  <1> DEFINE U == {n - y : y \in T}
  <1>3. U \subseteq Nat /\ U # {}
    <2>1. \A y \in T : n - y \in Nat
      OBVIOUS
    <2> QED
      BY <2>1
  <1>4. \E x \in U : \A y \in U : x <= y
    <2> HIDE DEF U
    <2> QED
      BY <1>3, LeastOf
  <1>5. PICK x \in T : \A y \in T : n - x <= n - y
    BY <1>4
  <1>6. \A y \in T : x >= y
    BY <1>1, <1>5
  <1>7. Min(T) \in T /\ \A y \in T : Min(T) =< y
    BY <1>2 DEF Min
  <1>8. Max(T) \in T /\ \A y \in T : Max(T) >= y
    BY <1>6 DEF Max
  <1>9. Max(T) \in Nat
    BY <1>1, <1>8
  <1> QED
    BY <1>1, <1>7, <1>8, <1>9

\* What an answer that was not cut says of the window.
LEMMA WholeWindow ==
  ASSUME ChangesInv, feed.open, feed.payload.status = "ok", ~feed.payload.truncated,
         NEW e \in Range(audit), feed.clock - DayLength <= e.at, e.at <= feed.clock,
         e.at < feed.payload.asOf
  PROVE  e \in withinWindow
  <1>1. /\ feed.clock \in Nat /\ feed.since \in Int /\ DayLength \in Nat
        /\ feed.since + DayLength <= feed.clock /\ audit \in Seq(LogEntries)
    BY ChangesAssumption DEF ChangesInv, ChangesTypeOK
  <1>2. Range(audit) \subseteq LogEntries
    BY <1>1, RangeOf
  <1>3. e.at \in Nat
    BY <1>2 DEF LogEntries
  <1>4. feed.since <= e.at
    BY <1>1, <1>3
  <1>5. e \in Range(feed.payload.rows)
    BY <1>4 DEF ChangesInv, Tells
  <1> QED
    BY <1>5 DEF withinWindow

LEMMA QuietIsQuiet == ChangesInv => QuietMeansQuiet
  <1> SUFFICES ASSUME ChangesInv, SaysNothingChanged, ~capNotice,
                      NEW e \in Happened(feed.clock - DayLength, Min({feed.clock, feed.payload.asOf - 1}))
               PROVE  FALSE
    BY DEF QuietMeansQuiet
  <1>1. feed.open /\ feed.payload.status = "ok" /\ ~feed.payload.truncated /\ withinWindow = {}
    BY DEF SaysNothingChanged, feedState, capNotice
  <1>2. feed.clock \in Int /\ feed.payload.asOf \in Nat /\ audit \in Seq(LogEntries)
    BY DEF ChangesInv, ChangesTypeOK, ChangePayloads
  <1>3. feed.payload.asOf - 1 \in Int
    BY <1>2
  <1> DEFINE end == Min({feed.clock, feed.payload.asOf - 1})
  <1>4. end <= feed.clock /\ end <= feed.payload.asOf - 1 /\ end \in Int
    BY <1>2, <1>3, MinOfTwo
  <1>5. e \in Range(audit) /\ feed.clock - DayLength <= e.at /\ e.at <= end
    BY DEF Happened
  <1> HIDE DEF end
  <1>6. Range(audit) \subseteq LogEntries
    BY <1>2, RangeOf
  <1>7. e.at \in Nat
    BY <1>5, <1>6 DEF LogEntries
  <1>8. e.at <= feed.clock /\ e.at < feed.payload.asOf
    BY <1>2, <1>4, <1>5, <1>7
  <1> QED
    BY <1>1, <1>5, <1>8, WholeWindow

LEMMA NewAreNew == ChangesInv => NewActorsAreNew
  <1> SUFFICES ASSUME ChangesInv, BandShown, notability = "populated",
                      NEW e \in Happened(feed.clock - DayLength, feed.clock),
                      2 * e.at <= dataSpan.first + dataSpan.last, e.who \in newActors.who
               PROVE  FALSE
    BY DEF NewActorsAreNew
  <1> DEFINE first == Min(Moments)
             last == Max(Moments)
  <1>1. feed.open /\ feed.payload.status = "ok"
    BY DEF BandShown, feedState
  <1>2. /\ ~feed.payload.truncated /\ newActors = NewHowever
        /\ ~(dataSpan.last - dataSpan.first < MinHistory)
        /\ newActors.who = ActorsAfter(dataSpan.first + dataSpan.last)
    <2>1. newActors.status # "unknown"
      BY DEF notability
    <2>2. ~feed.payload.truncated /\ newActors = NewHowever
      BY <2>1 DEF newActors
    <2>3. ~(dataSpan.last - dataSpan.first < MinHistory)
      BY <2>1, <2>2 DEF NewHowever
    <2>4. NewHowever.who = ActorsAfter(dataSpan.first + dataSpan.last)
      BY <2>3 DEF NewHowever
    <2> QED
      BY <2>2, <2>3, <2>4
  <1>3. /\ feed.clock \in Nat /\ feed.payload \in ChangePayloads
        /\ audit \in Seq(LogEntries) /\ MinHistory \in Nat \ {0}
        /\ feed.payload.rows \in Seq(LogEntries) /\ feed.payload.asOf \in Nat
        /\ \A d \in Range(feed.payload.rows) : d.at <= feed.payload.asOf
    BY <1>1, ChangesAssumption DEF ChangesInv, ChangesTypeOK, ChangePayloads, Tells
  <1>4. Range(audit) \subseteq LogEntries /\ Range(feed.payload.rows) \subseteq LogEntries
    BY <1>3, RangeOf
  <1>5. \A d \in withinWindow : d.at \in 0 .. feed.clock /\ d.at <= feed.payload.asOf
    BY <1>3, <1>4 DEF withinWindow, LogEntries
  <1>6. Moments \in SUBSET (0 .. feed.clock) /\ feed.clock \in Nat
    BY <1>3, <1>5 DEF Moments
  <1>7. Moments # {}
    <2>1. withinWindow # {}
      BY <1>2 DEF ActorsAfter
    <2> QED
      BY <2>1 DEF Moments
  <1>8. /\ first \in Moments /\ \A y \in Moments : first <= y
        /\ last \in Moments /\ \A y \in Moments : y <= last
    BY <1>6, <1>7, SpanOf
  <1>9. dataSpan.first = first /\ dataSpan.last = last
    BY <1>7 DEF dataSpan
  <1> HIDE DEF first, last
  <1>10. /\ first \in Nat /\ last \in Nat /\ last <= feed.clock
         /\ last <= feed.payload.asOf
    BY <1>3, <1>5, <1>6, <1>8 DEF Moments
  <1>11. e \in Range(audit) /\ feed.clock - DayLength <= e.at /\ e.at \in Nat
    BY <1>4 DEF Happened, LogEntries
  <1>12. e.at < last
    BY <1>2, <1>3, <1>9, <1>10, <1>11
  <1>13. e.at <= feed.clock /\ e.at < feed.payload.asOf
    BY <1>3, <1>10, <1>11, <1>12
  <1>14. e \in withinWindow
    BY <1>1, <1>2, <1>11, <1>13, WholeWindow
  <1>15. e.who \notin ActorsAfter(dataSpan.first + dataSpan.last)
    BY <1>14 DEF ActorsAfter
  <1> QED
    BY <1>2, <1>15

\* "Nothing changed in the last 24 hours" is said of a quiet day only, and an
\* actor called new is in nobody's earlier half, of whichever answer, clock
\* and log: changes.js 43-112, 178-190, 238-290.
THEOREM ChangesAlwaysTrue == ChangesSpec => []ChangesAreTrue
  <1>1. ChangesInv => ChangesAreTrue
    BY QuietIsQuiet, NewAreNew DEF ChangesInv, ChangesAreTrue
  <1> QED
    BY <1>1, ChangesInductive, PTL
=============================================================================
