------------------------------- MODULE SessionProofs ------------------------
(***************************************************************************)
(* Theorems about the parts the requests of one session share: the cache   *)
(* of answers (Cache), the throttle on unlocking (UnlockThrottle) and the  *)
(* portal query session (McpSession).  Each part has its own section, its  *)
(* own inductive invariant and no fact of the others'.                     *)
(***************************************************************************)
EXTENDS Session, TenantSwitchProofs, FiniteSetTheorems, FunctionTheorems,
        SequenceTheorems, WellFoundedInduction

-----------------------------------------------------------------------------
(***************************************************************************)
(* Theorems about Cache, for any callers, keys, cap and bounds: whatever   *)
(* happens between a fetch and its landing, rows of an earlier generation  *)
(* are neither kept nor handed out, and a flight is never doubled.         *)
(*                                                                         *)
(* The argument rests on Rotate and Invalidate clearing the flights as     *)
(* they move the era: a registered flight then belongs to the current era  *)
(* (FlightsAreCurrent) and whoever waits on it arrived in that same era    *)
(* (WaitersShareTheEra).  The eviction order plays no part in that; it has *)
(* an invariant of its own (OrderInv).                                     *)
(***************************************************************************)

Leading == {"fetching", "setting", "landing"}

CoreTypes ==
    /\ era \in Eras
    /\ entries \in [CacheKeys -> Rows \cup {NoRow}]
    /\ inflight \in [CacheKeys -> Callers \cup {NoCaller}]
    /\ caller \in [Callers -> CallerStates]

(* What a leader brings back is of the era it captured, which is not later *)
(* than now.                                                               *)
ResultsAreTheirs ==
    \A c \in Callers :
        /\ caller[c].era.gen <= era.gen /\ caller[c].era.bust <= era.bust
        /\ caller[c].pc = "setting" => caller[c].val = caller[c].era
        /\ caller[c].pc = "landing" => caller[c].val \in {caller[c].era, Error}

(* A registered flight is led by a caller of the current era, and every    *)
(* leader of the current era is registered.                                *)
FlightsAreCurrent ==
    /\ \A k \in CacheKeys : inflight[k] # NoCaller =>
         /\ caller[inflight[k]].pc \in Leading
         /\ caller[inflight[k]].key = k
         /\ caller[inflight[k]].era = era
    /\ \A c \in Callers :
         caller[c].pc \in Leading /\ caller[c].era = era
            => inflight[caller[c].key] = c

WaitersShareTheEra ==
    \A c \in Callers : caller[c].pc = "waiting" =>
        /\ caller[c].on \in Callers
        /\ caller[caller[c].on].pc \in Leading
        /\ caller[caller[c].on].era = caller[c].era

OneLeaderPerEra ==
    \A c, d \in Callers :
        /\ caller[c].pc \in Leading /\ caller[d].pc \in Leading
        /\ caller[c].key = caller[d].key /\ caller[c].era = caller[d].era
        => c = d

CacheInv ==
    /\ CoreTypes
    /\ ResultsAreTheirs
    /\ FlightsAreCurrent
    /\ WaitersShareTheEra
    /\ OneLeaderPerEra
    /\ CachedRowsAreCurrent
    /\ ArrivalSeesItsGeneration

-----------------------------------------------------------------------------
LEMMA IdleType == Idle \in CallerStates /\ Idle.pc = "idle" /\ Idle.era = Start
  <1>1. (CHOOSE k \in CacheKeys : TRUE) \in CacheKeys
    BY CacheAssumption
  <1> QED
    BY <1>1 DEF Idle, CallerStates, Steps, Eras, Start

LEMMA InitCacheInv == CacheInit => CacheInv
  <1> SUFFICES ASSUME CacheInit PROVE CacheInv
    OBVIOUS
  <1>1. CoreTypes
    BY IdleType DEF CacheInit, CoreTypes, Start, Eras, NoEntries, NoFlights
  <1> QED
    BY <1>1, IdleType DEF CacheInit, CacheInv, ResultsAreTheirs, FlightsAreCurrent, Leading,
       WaitersShareTheEra, OneLeaderPerEra, CachedRowsAreCurrent,
       ArrivalSeesItsGeneration, NoEntries, NoFlights, Start

(* A caller that enters Do is on its own until it leads.                   *)
LEMMA EnterCacheInv ==
    ASSUME CacheInv, NEW c \in Callers, NEW k \in CacheKeys, Hit(c, k) \/ Attach(c, k) \/ Lead(c, k)
    PROVE  CacheInv'
  <1> USE DEF CacheInv, CoreTypes, Leading
  <1>0. UNCHANGED <<era, entries>> /\ caller[c].pc = "idle"
    BY DEF Hit, Attach, Lead
  <1>1. CASE Hit(c, k)
    <2>1. /\ entries[k].val \in Eras /\ entries[k].val.gen = era.gen
      BY <1>1, SentinelAssumption DEF Hit, IsHit, Rows, CachedRowsAreCurrent
    <2> DEFINE n == [pc |-> "done", key |-> k, on |-> NoCaller, era |-> era,
                     val |-> entries[k].val]
    <2>2. n \in CallerStates
      BY <2>1 DEF CallerStates, Steps
    <2>3. caller' = [caller EXCEPT ![c] = n] /\ UNCHANGED inflight
      BY <1>1 DEF Hit, Enter
    <2>4. CoreTypes'
      BY <1>0, <2>2, <2>3
    <2>5. ResultsAreTheirs'
      BY <1>0, <2>3 DEF ResultsAreTheirs, Eras
    <2>6. FlightsAreCurrent'
      BY <1>0, <2>3 DEF FlightsAreCurrent
    <2>7. WaitersShareTheEra' /\ OneLeaderPerEra'
      BY <1>0, <2>3 DEF WaitersShareTheEra, OneLeaderPerEra
    <2> QED
      BY <1>0, <2>1, <2>3, <2>4, <2>5, <2>6, <2>7
         DEF CachedRowsAreCurrent, ArrivalSeesItsGeneration
  <1>2. CASE Attach(c, k)
    <2> DEFINE n == [pc |-> "waiting", key |-> k, on |-> inflight[k], era |-> era,
                     val |-> Error]
    <2>2. n \in CallerStates
      BY <1>2 DEF CallerStates, Steps, Attach
    <2>3. caller' = [caller EXCEPT ![c] = n] /\ UNCHANGED inflight
      BY <1>2 DEF Attach, Enter
    <2>4. CoreTypes'
      BY <1>0, <2>2, <2>3
    <2>5. ResultsAreTheirs'
      BY <1>0, <2>3 DEF ResultsAreTheirs, Eras
    <2>6. FlightsAreCurrent'
      BY <1>0, <2>3 DEF FlightsAreCurrent
    <2>7. /\ inflight[k] \in Callers /\ inflight[k] # c
          /\ caller[inflight[k]].pc \in Leading /\ caller[inflight[k]].era = era
      BY <1>0, <1>2 DEF Attach, FlightsAreCurrent
    <2>8. WaitersShareTheEra'
      BY <1>0, <2>3, <2>7 DEF WaitersShareTheEra
    <2>9. OneLeaderPerEra'
      BY <1>0, <2>3 DEF OneLeaderPerEra
    <2> QED
      BY <1>0, <2>3, <2>4, <2>5, <2>6, <2>8, <2>9
         DEF CachedRowsAreCurrent, ArrivalSeesItsGeneration
  <1>3. CASE Lead(c, k)
    <2> DEFINE n == [pc |-> "fetching", key |-> k, on |-> NoCaller, era |-> era,
                     val |-> Error]
    <2>2. n \in CallerStates
      BY DEF CallerStates, Steps
    <2>3. /\ caller' = [caller EXCEPT ![c] = n]
          /\ inflight' = [inflight EXCEPT ![k] = c] /\ inflight[k] = NoCaller
      BY <1>3 DEF Lead, Enter
    <2>4. CoreTypes'
      BY <1>0, <2>2, <2>3
    <2>5. ResultsAreTheirs'
      BY <1>0, <2>3 DEF ResultsAreTheirs, Eras
    <2>6. FlightsAreCurrent'
      BY <1>0, <2>3, CacheAssumption DEF FlightsAreCurrent
    <2>7. WaitersShareTheEra'
      BY <1>0, <2>3 DEF WaitersShareTheEra
    <2>8. OneLeaderPerEra'
      BY <1>0, <2>3, CacheAssumption DEF OneLeaderPerEra, FlightsAreCurrent
    <2> QED
      BY <1>0, <2>3, <2>4, <2>5, <2>6, <2>7, <2>8
         DEF CachedRowsAreCurrent, ArrivalSeesItsGeneration
  <1> QED
    BY <1>1, <1>2, <1>3

(* The leader fetches, writes the cache under the fence, and lands.        *)
LEMMA LeaderCacheInv ==
    ASSUME CacheInv, NEW c \in Callers, LeaderStep(c)
    PROVE  CacheInv'
  <1> USE DEF CacheInv, CoreTypes, Leading
  <1>0. UNCHANGED era /\ caller[c] \in CallerStates /\ caller[c].key \in CacheKeys
        /\ caller[c].era \in Eras
    BY DEF LeaderStep, FetchSucceeds, FetchFails, SetGen, Land, CallerStates
  <1>1. CASE FetchSucceeds(c) \/ FetchFails(c)
    <2>1. PICK p \in Leading, v \in Eras \cup {Error} :
            /\ caller' = [caller EXCEPT ![c] = [@ EXCEPT !.pc = p, !.val = v]]
            /\ p = "setting" => v = caller[c].era
            /\ p = "landing" => v \in {caller[c].era, Error}
            /\ caller[c].pc \in Leading
      BY <1>0, <1>1 DEF FetchSucceeds, FetchFails
    <2>2. UNCHANGED <<entries, inflight>>
      BY <1>1 DEF FetchSucceeds, FetchFails
    <2>3. CoreTypes'
      BY <1>0, <2>1, <2>2 DEF CallerStates, Steps
    <2>4. /\ caller'[c].pc = p /\ caller'[c].val = v
          /\ caller'[c].key = caller[c].key /\ caller'[c].era = caller[c].era
          /\ \A d \in Callers \ {c} : caller'[d] = caller[d]
      BY <1>0, <2>1 DEF CallerStates
    <2>5. ResultsAreTheirs'
      BY <1>0, <2>1, <2>4 DEF ResultsAreTheirs
    <2>6. FlightsAreCurrent'
      BY <1>0, <2>1, <2>2, <2>4 DEF FlightsAreCurrent
    <2>7. WaitersShareTheEra'
      BY <1>0, <2>1, <2>4 DEF WaitersShareTheEra
    <2>8. OneLeaderPerEra'
      BY <1>0, <2>1, <2>4 DEF OneLeaderPerEra
    <2> QED
      BY <1>0, <2>1, <2>2, <2>3, <2>4, <2>5, <2>6, <2>7, <2>8
         DEF CachedRowsAreCurrent, ArrivalSeesItsGeneration
  <1>2. CASE SetGen(c)
    <2>1. /\ caller[c].pc = "setting" /\ caller[c].val = caller[c].era
          /\ caller' = [caller EXCEPT ![c] = [@ EXCEPT !.pc = "landing"]]
          /\ UNCHANGED inflight
      BY <1>2 DEF SetGen, ResultsAreTheirs
    <2>2. /\ entries' \in [CacheKeys -> Rows \cup {NoRow}]
          /\ CachedRowsAreCurrent'
      <3>1. CASE caller[c].era.gen = era.gen
        <4> DEFINE row == [val |-> caller[c].val, fresh |-> TRUE]
        <4>1. row \in Rows /\ row.val.gen = era.gen
          BY <1>0, <2>1, <3>1 DEF Rows
        <4>2. PICK base \in [CacheKeys -> Rows \cup {NoRow}] :
                /\ \A k \in CacheKeys : base[k] \in {entries[k], NoRow}
                /\ entries' = [base EXCEPT ![caller[c].key] = row]
          <5>1. PICK full \in BOOLEAN :
                  entries' = [(IF full THEN [entries EXCEPT ![Head(order)] = NoRow]
                               ELSE entries) EXCEPT ![caller[c].key] = row]
            BY <1>2, <3>1 DEF SetGen, Insert
          <5> QED
            BY <5>1
        <4> QED
          BY <1>0, <4>1, <4>2 DEF CachedRowsAreCurrent
      <3>2. CASE caller[c].era.gen # era.gen
        BY <1>0, <1>2, <3>2 DEF SetGen, CachedRowsAreCurrent
      <3> QED
        BY <3>1, <3>2
    <2>3. CoreTypes'
      BY <1>0, <2>1, <2>2 DEF CallerStates, Steps
    <2>4. /\ caller'[c].pc = "landing" /\ caller'[c].val = caller[c].val
          /\ caller'[c].key = caller[c].key /\ caller'[c].era = caller[c].era
          /\ \A d \in Callers \ {c} : caller'[d] = caller[d]
      BY <1>0, <2>1 DEF CallerStates
    <2>5. ResultsAreTheirs'
      BY <1>0, <2>1, <2>4 DEF ResultsAreTheirs
    <2>6. FlightsAreCurrent'
      BY <1>0, <2>1, <2>4 DEF FlightsAreCurrent
    <2>7. WaitersShareTheEra'
      BY <1>0, <2>1, <2>4 DEF WaitersShareTheEra
    <2>8. OneLeaderPerEra'
      BY <1>0, <2>1, <2>4 DEF OneLeaderPerEra
    <2> QED
      BY <1>0, <2>2, <2>3, <2>4, <2>5, <2>6, <2>7, <2>8 DEF ArrivalSeesItsGeneration
  <1>3. CASE Land(c)
    <2> DEFINE Freed(d) == d = c \/ (caller[d].pc = "waiting" /\ caller[d].on = c)
    <2>1. /\ caller[c].pc = "landing" /\ UNCHANGED entries
          /\ inflight' = [inflight EXCEPT ![caller[c].key] = IF @ = c THEN NoCaller ELSE @]
          /\ caller' = [d \in Callers |->
                IF Freed(d) THEN [caller[d] EXCEPT !.pc = "done", !.on = NoCaller,
                                                   !.val = caller[c].val]
                ELSE caller[d]]
      BY <1>3 DEF Land
    <2>2. caller[c].val \in {caller[c].era, Error}
      BY <2>1 DEF ResultsAreTheirs
    <2>3. \A d \in Callers : caller[d] \in CallerStates
      OBVIOUS
    <2>4. \A d \in Callers :
            /\ ~Freed(d) => caller'[d] = caller[d]
            /\ Freed(d) => /\ caller'[d].pc = "done" /\ caller'[d].era = caller[d].era
                           /\ caller'[d].val = caller[c].val
                           /\ caller[d].era = caller[c].era
      <3>1. \A d \in Callers : Freed(d) => caller[d].era = caller[c].era
        BY DEF WaitersShareTheEra
      <3> QED
        BY <2>1, <2>3, <3>1 DEF CallerStates
    <2>5. CoreTypes'
      <3>1. caller[c].val \in Eras \cup {Error}
        BY <1>0, <2>2
      <3>2. \A d \in Callers :
              [caller[d] EXCEPT !.pc = "done", !.on = NoCaller, !.val = caller[c].val]
                \in CallerStates
        BY <2>3, <3>1 DEF CallerStates, Steps
      <3>3. caller' \in [Callers -> CallerStates]
        BY <2>1, <2>3, <3>2
      <3> QED
        BY <1>0, <2>1, <3>3
    <2>6. ResultsAreTheirs'
      BY <1>0, <2>4 DEF ResultsAreTheirs
    <2>7. \A d \in Callers : caller'[d].pc \in Leading =>
              caller'[d] = caller[d] /\ d # c
      BY <2>4
    <2>8. \A d \in Callers \ {c} : caller[d].pc \in Leading => caller'[d] = caller[d]
      BY <2>4
    <2>9. OneLeaderPerEra'
      BY <2>7 DEF OneLeaderPerEra
    <2>10. FlightsAreCurrent'
      <3>1. \A k \in CacheKeys : inflight'[k] # NoCaller => inflight'[k] = inflight[k]
        BY <1>0, <2>1
      <3>2. \A k \in CacheKeys : inflight'[k] # NoCaller => inflight[k] # c
        BY <1>0, <2>1 DEF FlightsAreCurrent
      <3>3. \A k \in CacheKeys : inflight'[k] # NoCaller =>
              /\ caller'[inflight'[k]].pc \in Leading
              /\ caller'[inflight'[k]].key = k
              /\ caller'[inflight'[k]].era = era'
        BY <1>0, <2>8, <3>1, <3>2 DEF FlightsAreCurrent
      <3>4. ASSUME NEW d \in Callers, caller'[d].pc \in Leading, caller'[d].era = era'
            PROVE  inflight'[caller'[d].key] = d
        <4>1. caller'[d] = caller[d] /\ d # c /\ inflight[caller[d].key] = d
          BY <1>0, <2>7, <3>4 DEF FlightsAreCurrent
        <4>2. caller[d].key \in CacheKeys
          BY <2>3 DEF CallerStates
        <4> QED
          BY <1>0, <2>1, <4>1, <4>2
      <3> QED
        BY <3>3, <3>4 DEF FlightsAreCurrent
    <2>11. WaitersShareTheEra'
      <3> SUFFICES ASSUME NEW d \in Callers, caller'[d].pc = "waiting"
                   PROVE  /\ caller'[d].on \in Callers
                          /\ caller'[caller'[d].on].pc \in Leading
                          /\ caller'[caller'[d].on].era = caller'[d].era
        BY DEF WaitersShareTheEra
      <3>1. caller'[d] = caller[d] /\ caller[d].on # c
        BY <2>4
      <3> QED
        BY <2>8, <3>1 DEF WaitersShareTheEra
    <2>12. ArrivalSeesItsGeneration'
      BY <2>2, <2>4 DEF ArrivalSeesItsGeneration
    <2> QED
      BY <1>0, <2>1, <2>5, <2>6, <2>9, <2>10, <2>11, <2>12 DEF CachedRowsAreCurrent
  <1> QED
    BY <1>1, <1>2, <1>3 DEF LeaderStep

LEMMA AnswerCacheInv ==
    ASSUME CacheInv, NEW c \in Callers, Answer(c)
    PROVE  CacheInv'
  <1> USE DEF CacheInv, CoreTypes, Leading
  <1>1. /\ UNCHANGED <<era, entries, inflight>> /\ caller[c].pc = "done"
        /\ caller' = [caller EXCEPT ![c] = Idle]
    BY DEF Answer
  <1>2. CoreTypes'
    BY <1>1, IdleType
  <1>3. ResultsAreTheirs'
    BY <1>1, IdleType DEF ResultsAreTheirs, Eras, Start
  <1>4. FlightsAreCurrent'
    BY <1>1, IdleType DEF FlightsAreCurrent
  <1>5. WaitersShareTheEra' /\ OneLeaderPerEra'
    BY <1>1, IdleType DEF WaitersShareTheEra, OneLeaderPerEra
  <1> QED
    BY <1>1, <1>2, <1>3, <1>4, <1>5, IdleType
       DEF CachedRowsAreCurrent, ArrivalSeesItsGeneration

(* Rotate and Invalidate move the era past every caller's.                 *)
LEMMA ClearCacheInv ==
    ASSUME CacheInv, Rotate \/ Invalidate
    PROVE  CacheInv'
  <1> USE DEF CacheInv, CoreTypes, Leading
  <1>1. /\ entries' = NoEntries /\ inflight' = NoFlights /\ UNCHANGED caller
        /\ \/ era' = [era EXCEPT !.gen = @ + 1]
           \/ era' = [era EXCEPT !.bust = @ + 1]
    BY DEF Rotate, Invalidate, Clear
  <1>2. /\ era' \in Eras
        /\ era'.gen >= era.gen /\ era'.bust >= era.bust
        /\ era'.gen > era.gen \/ era'.bust > era.bust
    BY <1>1 DEF Eras
  <1>3. CoreTypes'
    BY <1>1, <1>2 DEF NoEntries, NoFlights
  <1>4. \A c \in Callers : caller[c].era \in Eras /\ caller[c].era # era'
    BY <1>2 DEF ResultsAreTheirs, CallerStates, Eras
  <1>5. ResultsAreTheirs'
    BY <1>1, <1>2, <1>4 DEF ResultsAreTheirs, Eras
  <1>6. FlightsAreCurrent'
    BY <1>1, <1>4 DEF FlightsAreCurrent, NoFlights
  <1> QED
    BY <1>1, <1>3, <1>5, <1>6 DEF WaitersShareTheEra, OneLeaderPerEra,
       CachedRowsAreCurrent, ArrivalSeesItsGeneration, NoEntries

LEMMA ExpireCacheInv ==
    ASSUME CacheInv, NEW k \in CacheKeys, Expire(k)
    PROVE  CacheInv'
  <1> USE DEF CacheInv, CoreTypes, Leading
  <1>1. /\ entries' = [entries EXCEPT ![k] = [@ EXCEPT !.fresh = FALSE]]
        /\ UNCHANGED <<era, inflight, caller>> /\ entries[k] \in Rows
    BY DEF Expire, IsHit
  <1>2. /\ [entries[k] EXCEPT !.fresh = FALSE] \in Rows
        /\ [entries[k] EXCEPT !.fresh = FALSE].val = entries[k].val
    BY <1>1 DEF Rows
  <1>3. CoreTypes'
    BY <1>1, <1>2
  <1>4. CachedRowsAreCurrent'
    BY <1>1, <1>2, SentinelAssumption DEF CachedRowsAreCurrent
  <1> QED
    BY <1>1, <1>3, <1>4 DEF ResultsAreTheirs, FlightsAreCurrent,
       WaitersShareTheEra, OneLeaderPerEra, ArrivalSeesItsGeneration

-----------------------------------------------------------------------------
LEMMA CacheInductive == CacheSpec => []CacheInv
  <1>1. CacheInit => CacheInv
    BY InitCacheInv
  <1>2. CacheInv /\ [CacheNext]_cacheVars => CacheInv'
    <2> SUFFICES ASSUME CacheInv, [CacheNext]_cacheVars PROVE CacheInv'
      OBVIOUS
    <2>1. ASSUME NEW c \in Callers, NEW k \in CacheKeys, Hit(c, k) \/ Attach(c, k) \/ Lead(c, k)
          PROVE  CacheInv'
      BY <2>1, EnterCacheInv
    <2>2. ASSUME NEW c \in Callers, LeaderStep(c) \/ Answer(c)
          PROVE  CacheInv'
      BY <2>2, LeaderCacheInv, AnswerCacheInv
    <2>3. CASE Rotate \/ Invalidate
      BY <2>3, ClearCacheInv
    <2>4. ASSUME NEW k \in CacheKeys, Expire(k)
          PROVE  CacheInv'
      BY <2>4, ExpireCacheInv
    <2>5. CASE UNCHANGED cacheVars
      BY <2>5 DEF cacheVars, CacheInv, CoreTypes, ResultsAreTheirs, FlightsAreCurrent,
         WaitersShareTheEra, OneLeaderPerEra, CachedRowsAreCurrent,
         ArrivalSeesItsGeneration
    <2> QED
      BY <2>1, <2>2, <2>3, <2>4, <2>5 DEF CacheNext
  <1> QED
    BY <1>1, <1>2, PTL DEF CacheSpec

(* CacheNeverStale: after a Rotate no cached row, and no row still to be   *)
(* written by a fetch in flight, is of an earlier generation.              *)
THEOREM CacheNeverStale == CacheSpec => []CachedRowsAreCurrent
  <1>1. CacheInv => CachedRowsAreCurrent
    BY DEF CacheInv
  <1> QED
    BY <1>1, CacheInductive, PTL

(* AnswersOfArrival: Do answers every caller with rows of the generation   *)
(* it arrived in, whether it hit, attached or led.                         *)
THEOREM AnswersOfArrival == CacheSpec => []ArrivalSeesItsGeneration
  <1>1. CacheInv => ArrivalSeesItsGeneration
    BY DEF CacheInv
  <1> QED
    BY <1>1, CacheInductive, PTL

(* SingleFlight: two callers never fetch the same key at once within one   *)
(* era, also when an abandoned flight lands on top of its successor.       *)
THEOREM SingleFlight == CacheSpec => []OneFetchPerEra
  <1>1. CacheInv => OneFetchPerEra
    BY DEF CacheInv, OneLeaderPerEra, OneFetchPerEra, Leading
  <1> QED
    BY <1>1, CacheInductive, PTL

(* EraAnswered: both of the above, as the run of the model checker asks    *)
(* for them.                                                               *)
THEOREM EraAnswered == CacheSpec => []AnswersAreOfTheirEra
  <1>1. ArrivalSeesItsGeneration /\ OneFetchPerEra => AnswersAreOfTheirEra
    BY DEF AnswersAreOfTheirEra
  <1> QED
    BY <1>1, AnswersOfArrival, SingleFlight, PTL

-----------------------------------------------------------------------------
(* The eviction order: the stored keys, each once, within the cap.         *)
Stored == {k \in CacheKeys : entries[k] # NoRow}
Lists(s, S) ==
    /\ s \in Seq(CacheKeys)
    /\ \A i, j \in DOMAIN s : s[i] = s[j] => i = j
    /\ \A k : k \in S <=> \E i \in DOMAIN s : s[i] = k
OrderInv == Lists(order, Stored) /\ Len(order) <= Max

LEMMA OthersList ==
    ASSUME NEW s, NEW S, Lists(s, S), NEW k
    PROVE  /\ Lists(Others(s, k), S \ {k})
           /\ k \notin S => Len(Others(s, k)) = Len(s)
           /\ k \in S => Len(Others(s, k)) = Len(s) - 1 /\ Len(s) > 0
  <1>1. s \in Seq(CacheKeys) /\ Len(s) \in Nat /\ DOMAIN s = 1 .. Len(s)
    BY DEF Lists
  <1>2. CASE \A i \in DOMAIN s : s[i] # k
    BY <1>1, <1>2 DEF Lists, Others
  <1>3. CASE \E i \in DOMAIN s : s[i] = k
    <2> DEFINE p == CHOOSE i \in DOMAIN s : s[i] = k
               o == [i \in 1 .. Len(s) - 1 |-> IF i < p THEN s[i] ELSE s[i + 1]]
    <2>1. p \in 1 .. Len(s) /\ s[p] = k /\ Others(s, k) = o /\ k \in S
      BY <1>1, <1>3 DEF Others, Lists
    <2> HIDE DEF p
    <2>2. \A i \in 1 .. Len(s) : s[i] \in CacheKeys /\ (s[i] = k => i = p)
      BY <1>1, <2>1 DEF Lists
    <2>3. /\ o \in Seq(CacheKeys) /\ Len(o) = Len(s) - 1 /\ DOMAIN o = 1 .. Len(s) - 1
          /\ \A i \in 1 .. Len(s) - 1 : o[i] = IF i < p THEN s[i] ELSE s[i + 1]
      BY <1>1, <2>1, <2>2
    <2> HIDE DEF o
    <2>4. \A i, j \in DOMAIN o : o[i] = o[j] => i = j
      <3>1. \A i, j \in 1 .. Len(s) : s[i] = s[j] => i = j
        BY <1>1 DEF Lists
      <3>2. ASSUME NEW i \in 1 .. Len(s) - 1, NEW j \in 1 .. Len(s) - 1, o[i] = o[j]
            PROVE  i = j
        <4>1. /\ i \in 1 .. Len(s) /\ i + 1 \in 1 .. Len(s)
              /\ j \in 1 .. Len(s) /\ j + 1 \in 1 .. Len(s)
          BY <1>1
        <4>2. CASE i < p /\ j < p
          BY <2>3, <3>1, <3>2, <4>1, <4>2
        <4>3. CASE i < p /\ ~(j < p)
          BY <1>1, <2>1, <2>3, <3>1, <3>2, <4>1, <4>3
        <4>4. CASE ~(i < p) /\ j < p
          BY <1>1, <2>1, <2>3, <3>1, <3>2, <4>1, <4>4
        <4>5. CASE ~(i < p) /\ ~(j < p)
          <5>1. i + 1 = j + 1
            BY <2>3, <3>1, <3>2, <4>1, <4>5
          <5> QED
            BY <5>1
        <4> QED
          BY <4>2, <4>3, <4>4, <4>5
      <3> QED
        BY <2>3, <3>2
    <2>5. ASSUME NEW x, x \in S \ {k}
          PROVE  \E i \in DOMAIN o : o[i] = x
      <3>1. PICK i \in 1 .. Len(s) : s[i] = x
        BY <1>1, <2>5 DEF Lists
      <3>2. i # p
        BY <2>1, <2>5, <3>1
      <3>3. CASE i < p
        BY <1>1, <2>1, <2>3, <3>1, <3>3
      <3>4. CASE i > p
        <4>1. i - 1 \in 1 .. Len(s) - 1 /\ ~(i - 1 < p) /\ (i - 1) + 1 = i
          BY <1>1, <2>1, <3>1, <3>4
        <4> QED
          BY <2>3, <3>1, <4>1
      <3> QED
        BY <2>1, <3>1, <3>2, <3>3, <3>4
    <2>6. ASSUME NEW i \in DOMAIN o
          PROVE  o[i] \in S \ {k}
      <3>1. PICK j \in 1 .. Len(s) : o[i] = s[j] /\ j # p
        BY <1>1, <2>1, <2>3
      <3> QED
        BY <1>1, <2>2, <3>1 DEF Lists
    <2>7. Lists(o, S \ {k})
      BY <2>3, <2>4, <2>5, <2>6 DEF Lists
    <2>8. Len(s) > 0 /\ Others(s, k) = o
      BY <1>1, <2>1
    <2> QED
      BY <2>1, <2>3, <2>7, <2>8
  <1> QED
    BY <1>2, <1>3

LEMMA TailLists ==
    ASSUME NEW s, NEW S, Lists(s, S), Len(s) > 0
    PROVE  Lists(Tail(s), S \ {Head(s)}) /\ Len(Tail(s)) = Len(s) - 1 /\ Head(s) \in S
  <1>1. /\ s \in Seq(CacheKeys) /\ Len(s) \in Nat /\ DOMAIN s = 1 .. Len(s)
        /\ Head(s) = s[1] /\ Head(s) \in S
    BY DEF Lists
  <1>2. /\ Tail(s) \in Seq(CacheKeys) /\ Len(Tail(s)) = Len(s) - 1
        /\ DOMAIN Tail(s) = 1 .. Len(s) - 1
        /\ \A i \in 1 .. Len(s) - 1 : Tail(s)[i] = s[i + 1]
    BY <1>1
  <1>3. \A i, j \in DOMAIN Tail(s) : Tail(s)[i] = Tail(s)[j] => i = j
    BY <1>1, <1>2 DEF Lists
  <1>4. ASSUME NEW x, x \in S \ {Head(s)}
        PROVE  \E i \in DOMAIN Tail(s) : Tail(s)[i] = x
    <2>1. PICK i \in 1 .. Len(s) : s[i] = x
      BY <1>1, <1>4 DEF Lists
    <2>2. i - 1 \in 1 .. Len(s) - 1 /\ (i - 1) + 1 = i
      BY <1>1, <1>4, <2>1
    <2> QED
      BY <1>2, <2>1, <2>2
  <1>5. ASSUME NEW i \in DOMAIN Tail(s)
        PROVE  Tail(s)[i] \in S \ {Head(s)}
    <2>1. i + 1 \in 1 .. Len(s) /\ i + 1 # 1 /\ Tail(s)[i] = s[i + 1] /\ 1 \in 1 .. Len(s)
      BY <1>1, <1>2
    <2> QED
      BY <1>1, <2>1 DEF Lists
  <1> QED
    BY <1>1, <1>2, <1>3, <1>4, <1>5 DEF Lists

LEMMA AppendLists ==
    ASSUME NEW s, NEW S, Lists(s, S), NEW k \in CacheKeys, k \notin S
    PROVE  Lists(Append(s, k), S \cup {k}) /\ Len(Append(s, k)) = Len(s) + 1
  <1>1. /\ s \in Seq(CacheKeys) /\ Len(s) \in Nat /\ DOMAIN s = 1 .. Len(s)
        /\ \A i \in 1 .. Len(s) : s[i] # k
    BY DEF Lists
  <1> DEFINE t == Append(s, k)
  <1>2. /\ t \in Seq(CacheKeys) /\ Len(t) = Len(s) + 1 /\ DOMAIN t = 1 .. Len(s) + 1
        /\ \A i \in 1 .. Len(s) : t[i] = s[i]
        /\ t[Len(s) + 1] = k
    BY <1>1
  <1> HIDE DEF t
  <1>3. \A i, j \in DOMAIN t : t[i] = t[j] => i = j
    BY <1>1, <1>2 DEF Lists
  <1>4. ASSUME NEW x, x \in S \cup {k}
        PROVE  \E i \in DOMAIN t : t[i] = x
    BY <1>1, <1>2, <1>4 DEF Lists
  <1>5. ASSUME NEW i \in DOMAIN t
        PROVE  t[i] \in S \cup {k}
    BY <1>1, <1>2 DEF Lists
  <1> QED
    BY <1>2, <1>3, <1>4, <1>5 DEF Lists, t

LEMMA InsertKeepsOrder ==
    ASSUME CoreTypes, OrderInv, NEW k \in CacheKeys, NEW v \in Eras, Insert(k, v)
    PROVE  OrderInv'
  <1> DEFINE row == [val |-> v, fresh |-> TRUE]
             full == entries[k] = NoRow /\ Len(order) >= Max
             old == IF full THEN Tail(order) ELSE order
             S == IF full THEN Stored \ {Head(order)} ELSE Stored
  <1>1. row \in Rows /\ row # NoRow
    <2>1. row \in Rows
      BY DEF Rows
    <2> QED
      BY <2>1, SentinelAssumption
  <1>2. /\ order' = Append(Others(old, k), k)
        /\ entries' = [(IF full THEN [entries EXCEPT ![Head(order)] = NoRow] ELSE entries)
                            EXCEPT ![k] = row]
    BY DEF Insert
  <1>3. Len(order) \in Nat /\ Max \in Nat \ {0} /\ (full => Len(order) = Max)
    BY CacheAssumption DEF OrderInv, Lists
  <1>4. Lists(old, S) /\ Len(old) = IF full THEN Len(order) - 1 ELSE Len(order)
    BY <1>3, TailLists DEF OrderInv
  <1>5. k \in S <=> entries[k] # NoRow
    BY <1>3, TailLists DEF OrderInv, Stored
  <1>6. Stored' = (S \ {k}) \cup {k}
    <2>1. CASE full
      <3>1. Lists(order, Stored) /\ Len(order) > 0
        BY <1>3, <2>1 DEF OrderInv
      <3>2. Head(order) \in Stored
        BY <3>1, TailLists
      <3>3. Head(order) \in CacheKeys
        BY <3>2 DEF Stored
      <3> QED
        BY <1>1, <1>2, <2>1, <3>3 DEF CoreTypes, Stored
    <2>2. CASE ~full
      BY <1>1, <1>2, <2>2 DEF CoreTypes, Stored
    <2> QED
      BY <2>1, <2>2
  <1> HIDE DEF full, old, S, row
  <1>7. /\ Lists(Others(old, k), S \ {k})
        /\ k \notin S => Len(Others(old, k)) = Len(old)
        /\ k \in S => Len(Others(old, k)) = Len(old) - 1
    BY <1>4, OthersList
  <1>8. /\ Lists(order', Stored') /\ Len(order') = Len(Others(old, k)) + 1
    BY <1>2, <1>6, <1>7, AppendLists
  <1>9. Len(order') <= Max
    <2>1. CASE full
      BY <1>3, <1>4, <1>5, <1>7, <1>8, <2>1 DEF full
    <2>2. CASE ~full
      BY <1>3, <1>4, <1>5, <1>7, <1>8, <2>2 DEF full, OrderInv
    <2> QED
      BY <2>1, <2>2
  <1> QED
    BY <1>8, <1>9 DEF OrderInv

LEMMA OrderInductive == CacheSpec => []OrderInv
  <1>1. CacheInit => OrderInv
    <2> SUFFICES ASSUME CacheInit PROVE OrderInv
      OBVIOUS
    <2>1. order = <<>> /\ Stored = {}
      BY DEF CacheInit, NoEntries, Stored
    <2> QED
      BY <2>1, CacheAssumption DEF OrderInv, Lists
  <1>2. CacheInv /\ OrderInv /\ [CacheNext]_cacheVars => OrderInv'
    <2> SUFFICES ASSUME CacheInv, OrderInv, [CacheNext]_cacheVars PROVE OrderInv'
      OBVIOUS
    <2>1. CoreTypes /\ ResultsAreTheirs
      BY DEF CacheInv
    <2>2. CASE UNCHANGED <<entries, order>>
      BY <2>2 DEF OrderInv, Stored
    <2>3. ASSUME NEW c \in Callers, SetGen(c) PROVE OrderInv'
      <3>1. caller[c].key \in CacheKeys /\ caller[c].val \in Eras
        BY <2>1, <2>3 DEF CoreTypes, CallerStates, ResultsAreTheirs, SetGen
      <3>2. Insert(caller[c].key, caller[c].val) \/ UNCHANGED <<entries, order>>
        BY <2>3 DEF SetGen
      <3> QED
        BY <2>1, <2>2, <3>1, <3>2, InsertKeepsOrder
    <2>4. CASE Clear
      <3>1. order' = <<>> /\ Stored' = {}
        BY <2>4 DEF Clear, NoEntries, Stored
      <3> QED
        BY <3>1, CacheAssumption DEF OrderInv, Lists
    <2>5. ASSUME NEW k \in CacheKeys, Expire(k) PROVE OrderInv'
      <3>1. order' = order /\ entries[k] \in Rows
        BY <2>1, <2>5 DEF Expire, IsHit, CoreTypes
      <3>2. entries' = [entries EXCEPT ![k] = [@ EXCEPT !.fresh = FALSE]]
        BY <2>1, <2>5 DEF Expire, CoreTypes
      <3>3. [entries[k] EXCEPT !.fresh = FALSE] # NoRow
        BY <3>1, SentinelAssumption DEF Rows
      <3>4. Stored' = Stored
        BY <2>1, <3>1, <3>2, <3>3, SentinelAssumption DEF CoreTypes, Stored
      <3> QED
        BY <3>1, <3>4 DEF OrderInv
    <2> QED
      BY <2>2, <2>3, <2>4, <2>5
      DEF CacheNext, Hit, Attach, Lead, LeaderStep, FetchSucceeds, FetchFails, Land, Answer,
          Rotate, Invalidate, cacheVars
  <1> QED
    BY <1>1, <1>2, CacheInductive, PTL DEF CacheSpec

(* OrderAlwaysKept: the eviction order is the stored keys, each once, and  *)
(* the cache never holds more than its cap.                                *)
THEOREM OrderAlwaysKept == CacheSpec => []OrderIsTheEntries
  <1>1. CacheInv /\ OrderInv => OrderIsTheEntries
    <2> SUFFICES ASSUME CacheInv, OrderInv PROVE OrderIsTheEntries
      OBVIOUS
    <2> DEFINE T == {order[i] : i \in DOMAIN order}
    <2>1. order \in Seq(CacheKeys) /\ Len(order) \in Nat /\ DOMAIN order = 1 .. Len(order)
      BY DEF OrderInv, Lists
    <2>2. T = {k \in CacheKeys : entries[k] # NoRow}
      BY DEF OrderInv, Lists, Stored
    <2>3. Cardinality(T) = Len(order)
      <3>1. order \in Bijection(1 .. Len(order), T)
        <4>1. order \in [1 .. Len(order) -> T]
          BY <2>1
        <4>2. \A i, j \in 1 .. Len(order) : order[i] = order[j] => i = j
          BY <2>1 DEF OrderInv, Lists
        <4>3. \A x \in T : \E i \in 1 .. Len(order) : order[i] = x
          BY <2>1
        <4> QED
          BY <4>1, <4>2, <4>3, Fun_IsBij
      <3>2. IsFiniteSet(1 .. Len(order)) /\ Cardinality(1 .. Len(order)) = Len(order)
        BY <2>1, FS_Interval
      <3> QED
        BY <3>1, <3>2, FS_Bijection DEF ExistsBijection
    <2> QED
      BY <2>1, <2>2, <2>3 DEF OrderIsTheEntries, CacheTypeOK, OrderInv, CacheInv, CoreTypes
  <1> QED
    BY <1>1, CacheInductive, OrderInductive, PTL

-----------------------------------------------------------------------------
(***************************************************************************)
(* Theorems about UnlockThrottle, for any attempts, clients, delays and    *)
(* cap: an attempt is never made while its client is locked out by its     *)
(* last wrong one, and the table of failures keeps to its cap and to what  *)
(* the clients did.                                                        *)
(*                                                                         *)
(* The check with the slot in hand is what the argument rests on: until    *)
(* its holder gives the slot back nobody else records, so what it saw is   *)
(* what holds when it derives.  A forgotten entry locks nobody out because *)
(* the longest lockout is over by the time it may be forgotten.            *)
(***************************************************************************)

Entries == [n : Nat \ {0}, last : Nat]

ThrottleInv ==
    /\ ThrottleTypeOK
    /\ IsFiniteSet(Tracked)
    /\ FailuresAreKept

HoldsSlot == {"admitted", "deriving", "failed", "opened", "releasing"}

-----------------------------------------------------------------------------
(* No lockout is longer than the ceiling.                                  *)
LEMMA BackoffBound ==
    ASSUME NEW n \in Nat \ {0}
    PROVE  Backoff(n) \in Nat /\ Backoff(n) <= MaxDelay
  <1> USE ThrottleAssumption
  <1>1. CASE n > 6
    BY <1>1 DEF Backoff
  <1>2. CASE n \in 1 .. 6
    <2> DEFINE d == BaseDelay * <<1, 2, 4, 8, 16, 32>>[n]
    <2>1. d \in Nat
      BY <1>2
    <2> QED
      BY <1>2, <2>1 DEF Backoff
  <1> QED
    BY <1>1, <1>2

(* Of clients that failed, some failed no later than every other.          *)
LEMMA LongestAgo ==
    ASSUME NEW S, S # {}, NEW f, \A c \in S : f[c].last \in Nat
    PROVE  \E c \in S : \A d \in S : f[c].last <= f[d].last
  <1> DEFINE T == {f[c].last : c \in S}
  <1>1. T \subseteq Nat /\ T # {}
    OBVIOUS
  <1> DEFINE Less == {ss \in Nat \X Nat : ss[1] < ss[2]}
  <1>2. IsWellFoundedOn(Less, Nat)
    BY NatLessThanWellFounded DEF OpToRel
  <1>3. PICK x \in T : \A y \in T : ~ (<<y, x>> \in Less)
    <2> HIDE DEF Less, T
    <2> QED
      BY <1>1, <1>2, WFMin
  <1>4. \A y \in T : x <= y
    <2> HIDE DEF T
    <2> SUFFICES ASSUME NEW y \in T, y < x PROVE FALSE
      BY <1>1
    <2>1. x \in Nat /\ y \in Nat
      BY <1>1
    <2>2. <<y, x>> \in Less
      BY <2>1
    <2> QED
      BY <1>3, <2>2
  <1> QED
    BY <1>4

LEMMA InitThrottleInv == ThrottleInit => ThrottleInv
  <1> SUFFICES ASSUME ThrottleInit PROVE ThrottleInv
    OBVIOUS
  <1>1. Tracked = {} /\ IsFiniteSet(Tracked) /\ Cardinality(Tracked) = 0
    BY FS_EmptySet DEF ThrottleInit, Tracked
  <1>2. ThrottleTypeOK
    BY <1>1, ThrottleAssumption DEF ThrottleInit, ThrottleTypeOK, TrySteps
  <1>3. FailuresAreKept
    BY <1>1, ThrottleAssumption DEF ThrottleInit, FailuresAreKept
  <1> QED
    BY <1>1, <1>2, <1>3 DEF ThrottleInv

-----------------------------------------------------------------------------
(* Entries that go are marked as let go of, and the others stay what their *)
(* clients did.                                                            *)
LEMMA DropKeeps ==
    ASSUME ThrottleInv, NEW gone, gone \subseteq Clients, Dropped(gone), now' = now
    PROVE  /\ Tracked' = Tracked \ gone /\ IsFiniteSet(Tracked')
           /\ Cardinality(Tracked') <= MaxTracked
           /\ \A c \in Tracked' : fails'[c] = fails[c] /\ fails'[c] \in [n : Nat \ {0}, last : 0 .. now']
           /\ wrong' \in [Clients -> [n : Nat, last : Nat, lost : BOOLEAN]]
           /\ FailuresAreKept'
  <1> USE ThrottleAssumption DEF ThrottleInv, ThrottleTypeOK
  <1>1. /\ Tracked' = Tracked \ gone
        /\ \A c \in Tracked' : fails'[c] = fails[c]
    BY DEF Dropped, Restrict, Tracked
  <1>2. IsFiniteSet(Tracked') /\ Cardinality(Tracked') <= Cardinality(Tracked)
    BY <1>1, FS_Subset
  <1>3. Cardinality(Tracked) \in Nat /\ Cardinality(Tracked') \in Nat
    BY <1>2, FS_CardinalityType
  <1>4. Cardinality(Tracked') <= MaxTracked
    BY <1>2, <1>3 DEF FailuresAreKept
  <1>5. /\ wrong' \in [Clients -> [n : Nat, last : Nat, lost : BOOLEAN]]
        /\ \A c \in Clients : /\ wrong'[c].n = wrong[c].n /\ wrong'[c].last = wrong[c].last
                             /\ wrong'[c].lost = (wrong[c].lost \/ c \in gone)
    <2>1. wrong \in [Clients -> [n : Nat, last : Nat, lost : BOOLEAN]]
      OBVIOUS
    <2>2. wrong' = [c \in Clients |-> [wrong[c] EXCEPT !.lost = @ \/ c \in gone]]
      BY DEF Dropped
    <2>3. ASSUME NEW c \in Clients
          PROVE  /\ wrong'[c] \in [n : Nat, last : Nat, lost : BOOLEAN]
                 /\ wrong'[c].n = wrong[c].n /\ wrong'[c].last = wrong[c].last
                 /\ wrong'[c].lost = (wrong[c].lost \/ c \in gone)
      BY <2>1, <2>2, ZenonT(60)
    <2> QED
      BY <2>2, <2>3
  <1>6. FailuresAreKept'
    BY <1>1, <1>4, <1>5 DEF FailuresAreKept
  <1> QED
    BY <1>1, <1>2, <1>4, <1>5, <1>6

(* What evictLocked takes out makes room for one entry.                    *)
LEMMA EvictionMakesRoom ==
    ASSUME ThrottleInv
    PROVE  /\ Evicted \subseteq Tracked
           /\ IsFiniteSet(Tracked \ Evicted) /\ Cardinality(Tracked \ Evicted) < MaxTracked
  <1> USE ThrottleAssumption DEF ThrottleInv
  <1> DEFINE old == {c \in Tracked : IsForgotten(c)}
             left == Tracked \ old
  <1>0. /\ IsFiniteSet(Tracked) /\ Cardinality(Tracked) \in Nat /\ Cardinality(Tracked) <= MaxTracked
        /\ IsFiniteSet(left) /\ Cardinality(left) \in Nat /\ Cardinality(left) <= Cardinality(Tracked)
    BY FS_CardinalityType, FS_Subset DEF FailuresAreKept
  <1>1. CASE Cardinality(Tracked) < MaxTracked
    <2>1. Evicted = {} /\ Tracked \ Evicted = Tracked
      BY <1>1 DEF Evicted
    <2> QED
      BY <1>0, <1>1, <2>1
  <1>2. CASE Cardinality(Tracked) >= MaxTracked /\ Cardinality(left) < MaxTracked
    <2>1. Evicted = old
      BY <1>0, <1>2 DEF Evicted
    <2> QED
      BY <1>0, <1>2, <2>1
  <1>3. CASE Cardinality(Tracked) >= MaxTracked /\ Cardinality(left) >= MaxTracked
    <2> DEFINE first == CHOOSE c \in left : \A d \in left : fails[c].last <= fails[d].last
    <2>1. Evicted = old \union {first}
      BY <1>0, <1>3 DEF Evicted
    <2>2. left # {}
      BY <1>0, <1>3, FS_EmptySet
    <2>3. \A c \in left : fails[c].last \in Nat
      BY DEF ThrottleTypeOK
    <2>4. \E c \in left : \A d \in left : fails[c].last <= fails[d].last
      <3> HIDE DEF left
      <3> QED
        BY <2>2, <2>3, LongestAgo
    <2>5. first \in left
      <3> HIDE DEF left
      <3> QED
        BY <2>4
    <2>6. Tracked \ Evicted = left \ {first}
      BY <2>1
    <2>7. IsFiniteSet(left \ {first}) /\ Cardinality(left \ {first}) = Cardinality(left) - 1
      <3> HIDE DEF left, first
      <3> QED
        BY <1>0, <2>5, FS_RemoveElement
    <2>8. old \subseteq Tracked /\ left \subseteq Tracked
      OBVIOUS
    <2> HIDE DEF first, left, old
    <2>9. Evicted \subseteq Tracked
      BY <2>1, <2>5, <2>8
    <2>10. IsFiniteSet(Tracked \ Evicted) /\ Cardinality(Tracked \ Evicted) = Cardinality(left) - 1
      BY <2>6, <2>7
    <2> QED
      BY <1>0, <2>9, <2>10
  <1> QED
    BY <1>0, <1>1, <1>2, <1>3

-----------------------------------------------------------------------------
(* A step that leaves the table alone.                                     *)
LEMMA TableRests ==
    ASSUME ThrottleInv, UNCHANGED <<fails, wrong>>, now' \in now .. MaxNow,
           try' \in [Attempts -> TrySteps],
           \A a \in Attempts : (slot' = a) <=> try'[a] \in HoldsSlot
    PROVE  ThrottleInv'
  <1> USE DEF ThrottleInv, Tracked
  <1>1. ThrottleTypeOK'
    BY DEF ThrottleTypeOK, HoldsSlot
  <1>2. IsFiniteSet(Tracked)' /\ FailuresAreKept'
    BY DEF FailuresAreKept
  <1> QED
    BY <1>1, <1>2

LEMMA AsksLockout ==
    ASSUME ThrottleInv, NEW a \in Attempts, Arrive(a) \/ CheckAgain(a)
    PROVE  ThrottleInv'
  <1> USE ThrottleAssumption DEF ThrottleInv
  <1> DEFINE gone == IF IsForgotten(ClientOf[a]) THEN {ClientOf[a]} ELSE {}
  <1>1. /\ gone \subseteq Clients /\ Dropped(gone) /\ UNCHANGED <<now, slot>>
    BY DEF Arrive, CheckAgain, AskLockout
  <1> HIDE DEF gone
  <1>2. /\ Tracked' = Tracked \ gone /\ IsFiniteSet(Tracked') /\ FailuresAreKept'
        /\ \A c \in Tracked' : fails'[c] \in [n : Nat \ {0}, last : 0 .. now']
        /\ wrong' \in [Clients -> [n : Nat, last : Nat, lost : BOOLEAN]]
    BY <1>1, DropKeeps
  <1>3. try' \in [Attempts -> TrySteps] /\ \A b \in Attempts : (slot' = b) <=> try'[b] \in HoldsSlot
    BY <1>1 DEF Arrive, CheckAgain, Goes, ThrottleTypeOK, TrySteps, HoldsSlot
  <1>4. ThrottleTypeOK'
    BY <1>1, <1>2, <1>3 DEF ThrottleTypeOK, HoldsSlot
  <1> QED
    BY <1>2, <1>4

LEMMA WaitsAndDerives ==
    ASSUME ThrottleInv, NEW a \in Attempts,
           TakeSlot(a) \/ GiveUpWaiting(a) \/ Derive(a) \/ Release(a)
    PROVE  ThrottleInv'
  <1> USE ThrottleAssumption DEF ThrottleInv
  <1>1. now \in 0 .. MaxNow /\ UNCHANGED <<now, fails, wrong>>
    BY DEF ThrottleTypeOK, TakeSlot, GiveUpWaiting, Derive, Release
  <1>2. /\ try' \in [Attempts -> TrySteps]
        /\ \A b \in Attempts : (slot' = b) <=> try'[b] \in HoldsSlot
    BY DEF ThrottleTypeOK, TakeSlot, GiveUpWaiting, Derive, Release, Goes, TrySteps, HoldsSlot
  <1> QED
    BY <1>1, <1>2, TableRests

LEMMA RecordKeeps ==
    ASSUME ThrottleInv, NEW a \in Attempts, Record(a)
    PROVE  ThrottleInv'
  <1> USE ThrottleAssumption DEF ThrottleInv
  <1> DEFINE c == ClientOf[a]
             out == IF c \in Tracked THEN {} ELSE Evicted
             n == IF c \in Tracked THEN fails[c].n + 1 ELSE 1
             kept == Tracked \ out
  <1>0. c \in Clients /\ now' = now /\ now \in 0 .. MaxNow /\ n \in Nat \ {0}
    BY DEF Record, ThrottleTypeOK
  <1>1. try' \in [Attempts -> TrySteps] /\ \A b \in Attempts : (slot' = b) <=> try'[b] \in HoldsSlot
    BY DEF Record, Goes, ThrottleTypeOK, TrySteps, HoldsSlot
  <1>2. CASE /\ fails' = [d \in kept \union {c} |->
                            IF d = c THEN [n |-> n, last |-> now] ELSE fails[d]]
             /\ wrong' = [d \in Clients |->
                    IF d = c
                    THEN [n |-> IF wrong[c].lost THEN 1 ELSE wrong[c].n + 1, last |-> now, lost |-> FALSE]
                    ELSE [wrong[d] EXCEPT !.lost = @ \/ d \in out]]
    <2>1. /\ Tracked' = kept \union {c}
          /\ \A d \in Tracked' : fails'[d] = IF d = c THEN [n |-> n, last |-> now] ELSE fails[d]
      BY <1>2 DEF Tracked
    <2>2. out \subseteq Tracked /\ c \notin out
      BY EvictionMakesRoom
    <2>3. IsFiniteSet(Tracked') /\ Cardinality(Tracked') <= MaxTracked
      <3>1. CASE c \in Tracked
        <4>1. Tracked' = Tracked
          BY <2>1, <3>1
        <4> QED
          BY <4>1 DEF FailuresAreKept
      <3>2. CASE c \notin Tracked
        <4>1. /\ kept = Tracked \ Evicted /\ IsFiniteSet(kept) /\ Cardinality(kept) < MaxTracked
              /\ c \notin kept /\ Cardinality(kept) \in Nat
          BY <3>2, EvictionMakesRoom, FS_CardinalityType
        <4> HIDE DEF kept, c
        <4>2. /\ IsFiniteSet(kept \union {c})
              /\ Cardinality(kept \union {c}) = Cardinality(kept) + 1
          BY <4>1, FS_AddElement
        <4> QED
          BY <2>1, <4>1, <4>2
      <3> QED
        BY <3>1, <3>2
    <2>4. n = (IF c \in Tracked THEN fails[c].n + 1 ELSE 1) /\ kept = Tracked \ out
      OBVIOUS
    <2>5. \A d \in Clients : /\ wrong[d] \in [n : Nat, last : Nat, lost : BOOLEAN]
                             /\ (wrong[d].lost \/ d \in out) \in BOOLEAN
      BY DEF ThrottleTypeOK
    <2> HIDE DEF c, n, kept, out
    <2>6. /\ wrong'[c] = [n |-> IF wrong[c].lost THEN 1 ELSE wrong[c].n + 1, last |-> now,
                          lost |-> FALSE]
          /\ \A d \in Clients \ {c} : wrong'[d] = [wrong[d] EXCEPT !.lost = wrong[d].lost \/ d \in out]
      BY <1>0, <1>2
    <2>7. /\ wrong'[c] \in [n : Nat, last : Nat, lost : BOOLEAN]
          /\ wrong'[c].n = (IF wrong[c].lost THEN 1 ELSE wrong[c].n + 1)
          /\ wrong'[c].last = now /\ wrong'[c].lost = FALSE
      BY <1>0, <2>5, <2>6
    <2>8. \A d \in Clients \ {c} :
              /\ wrong'[d] \in [n : Nat, last : Nat, lost : BOOLEAN]
              /\ wrong'[d].n = wrong[d].n /\ wrong'[d].last = wrong[d].last
              /\ wrong'[d].lost = (wrong[d].lost \/ d \in out)
      <3> TAKE d \in Clients \ {c}
      <3> DEFINE lost == wrong[d].lost \/ d \in out
      <3>1. wrong[d] \in [n : Nat, last : Nat, lost : BOOLEAN] /\ lost \in BOOLEAN
        BY <2>5
      <3>2. wrong'[d] = [wrong[d] EXCEPT !.lost = lost]
        BY <2>6
      <3> HIDE DEF lost
      <3>3. /\ wrong'[d] \in [n : Nat, last : Nat, lost : BOOLEAN]
            /\ wrong'[d].n = wrong[d].n /\ wrong'[d].last = wrong[d].last
            /\ wrong'[d].lost = lost
        BY <3>1, <3>2
      <3> QED
        BY <3>3 DEF lost
    <2>9. wrong' \in [Clients -> [n : Nat, last : Nat, lost : BOOLEAN]]
      BY <1>2, <2>7, <2>8
    <2>10. \A d \in Clients : /\ d \in Tracked => fails[d] \in [n : Nat \ {0}, last : 0 .. now]
                              /\ wrong[d].n \in Nat
      BY DEF ThrottleTypeOK
    <2>11. FailuresAreKept'
      <3> SUFFICES ASSUME NEW d \in Clients
                   PROVE  IF wrong'[d].n > 0 /\ ~ wrong'[d].lost
                          THEN /\ d \in Tracked'
                               /\ fails'[d] = [n |-> wrong'[d].n, last |-> wrong'[d].last]
                          ELSE d \notin Tracked'
        BY <2>3 DEF FailuresAreKept
      <3>1. IF wrong[d].n > 0 /\ ~ wrong[d].lost
            THEN d \in Tracked /\ fails[d] = [n |-> wrong[d].n, last |-> wrong[d].last]
            ELSE d \notin Tracked
        BY DEF FailuresAreKept
      <3>2. CASE d = c
        BY <1>0, <2>1, <2>4, <2>7, <2>10, <3>1, <3>2
      <3>3. CASE d # c
        BY <2>1, <2>2, <2>4, <2>8, <3>1, <3>3
      <3> QED
        BY <3>2, <3>3
    <2>12. \A d \in Tracked' : fails'[d] \in [n : Nat \ {0}, last : 0 .. now']
      BY <1>0, <2>1, <2>4, <2>10 DEF ThrottleTypeOK
    <2>13. ThrottleTypeOK'
      BY <1>0, <1>1, <2>1, <2>4, <2>9, <2>12 DEF ThrottleTypeOK, HoldsSlot
    <2> QED
      BY <2>3, <2>11, <2>13
  <1>3. CASE /\ fails' = Restrict(fails, Tracked \ {c})
             /\ wrong' = [wrong EXCEPT ![c] = [n |-> 0, last |-> 0, lost |-> FALSE]]
    <2>1. Tracked' = Tracked \ {c} /\ \A d \in Tracked' : fails'[d] = fails[d]
      BY <1>3 DEF Restrict, Tracked
    <2>2. IsFiniteSet(Tracked') /\ Cardinality(Tracked') <= MaxTracked
      <3>1. /\ IsFiniteSet(Tracked') /\ Cardinality(Tracked') <= Cardinality(Tracked)
            /\ Cardinality(Tracked) \in Nat /\ Cardinality(Tracked') \in Nat
        BY <2>1, FS_Subset, FS_CardinalityType
      <3> QED
        BY <3>1 DEF FailuresAreKept
    <2>3. /\ wrong' \in [Clients -> [n : Nat, last : Nat, lost : BOOLEAN]]
          /\ wrong'[c].n = 0 /\ \A d \in Clients \ {c} : wrong'[d] = wrong[d]
      BY <1>0, <1>3 DEF ThrottleTypeOK
    <2>4. FailuresAreKept'
      BY <1>0, <2>1, <2>2, <2>3 DEF FailuresAreKept
    <2>5. ThrottleTypeOK'
      BY <1>0, <1>1, <2>1, <2>3 DEF ThrottleTypeOK, HoldsSlot
    <2> QED
      BY <2>2, <2>4, <2>5
  <1> QED
    BY <1>2, <1>3 DEF Record, Restrict, Tracked

-----------------------------------------------------------------------------
LEMMA ThrottleStepInv ==
    ASSUME ThrottleInv, ThrottleNext
    PROVE  ThrottleInv'
  <1>1. CASE \E a \in Attempts : Arrive(a) \/ TakeSlot(a) \/ GiveUpWaiting(a) \/ AttemptStep(a)
    BY <1>1, AsksLockout, WaitsAndDerives, RecordKeeps DEF AttemptStep
  <1>2. CASE TimeGoesOn
    <2>1. now' \in now .. MaxNow /\ UNCHANGED <<slot, fails, try, wrong>>
      BY <1>2, ThrottleAssumption DEF TimeGoesOn, ThrottleInv, ThrottleTypeOK
    <2>2. /\ try' \in [Attempts -> TrySteps]
          /\ \A a \in Attempts : (slot' = a) <=> try'[a] \in HoldsSlot
      BY <2>1 DEF ThrottleInv, ThrottleTypeOK, HoldsSlot
    <2> QED
      BY <2>1, <2>2, TableRests
  <1> QED
    BY <1>1, <1>2 DEF ThrottleNext

THEOREM ThrottleInductive == ThrottleSpec => []ThrottleInv
  <1>1. ThrottleInv /\ [ThrottleNext]_throttleVars => ThrottleInv'
    <2> SUFFICES ASSUME ThrottleInv, UNCHANGED throttleVars PROVE ThrottleInv'
      BY ThrottleStepInv
    <2> QED
      BY DEF throttleVars, ThrottleInv, ThrottleTypeOK, FailuresAreKept, Tracked
  <1> QED
    BY <1>1, InitThrottleInv, PTL DEF ThrottleSpec

(* SlotIsExclusive: what the throttle and its attempts hold has its type,  *)
(* and the derive slot is held by the one attempt in its section.          *)
THEOREM SlotIsExclusive == ThrottleSpec => []ThrottleTypeOK
  <1>1. ThrottleInv => ThrottleTypeOK
    BY DEF ThrottleInv
  <1> QED
    BY <1>1, ThrottleInductive, PTL

(* FailuresAlwaysKept: the table never grows past its cap, and an entry is *)
(* its client's unbroken run of wrong attempts.                            *)
THEOREM FailuresAlwaysKept == ThrottleSpec => []FailuresAreKept
  <1>1. ThrottleInv => FailuresAreKept
    BY DEF ThrottleInv
  <1> QED
    BY <1>1, ThrottleInductive, PTL

(* LockoutIsServed: no attempt reaches the key derivation before its       *)
(* client has served the lockout of its last wrong one.                    *)
THEOREM LockoutIsServed == ThrottleSpec => NoAttemptInLockout
  <1> DEFINE Served(a) ==
          LET w == wrong[ClientOf[a]]
          IN  try[a] # "deriving" /\ try'[a] = "deriving" /\ w.n > 0 /\ ~w.lost
                  => now >= w.last + Backoff(w.n)
  <1>1. ASSUME ThrottleInv, ThrottleNext, NEW a \in Attempts PROVE Served(a)
    <2> DEFINE c == ClientOf[a]
               w == wrong[c]
    <2> SUFFICES ASSUME try[a] # "deriving", try'[a] = "deriving", w.n > 0, ~w.lost
                 PROVE  now >= w.last + Backoff(w.n)
      OBVIOUS
    <2>1. CheckAgain(a) /\ ~IsBlocked(c)
      BY <1>1 DEF ThrottleNext, Arrive, TakeSlot, GiveUpWaiting, AttemptStep, CheckAgain, Derive,
         Record, Release, TimeGoesOn, Goes, ThrottleInv, ThrottleTypeOK
    <2>2. c \in Clients /\ now \in Nat
      BY <1>1, ThrottleAssumption DEF ThrottleInv, ThrottleTypeOK
    <2>3. /\ c \in Tracked /\ fails[c].n = w.n /\ fails[c].last = w.last
          /\ w.n \in Nat \ {0} /\ w.last \in 0 .. now
      <3> HIDE DEF c
      <3>1. c \in Tracked /\ fails[c] = [n |-> w.n, last |-> w.last]
        BY <1>1, <2>2 DEF ThrottleInv, FailuresAreKept
      <3>2. fails[c] \in [n : Nat \ {0}, last : 0 .. now]
        BY <1>1, <3>1 DEF ThrottleInv, ThrottleTypeOK
      <3>3. fails[c].n = w.n /\ fails[c].last = w.last
        BY <3>1
      <3> QED
        BY <3>1, <3>2, <3>3
    <2>4. Backoff(w.n) \in Nat /\ Backoff(w.n) <= MaxDelay
      BY <2>3, BackoffBound
    <2> HIDE DEF c, w
    <2>5. CASE IsForgotten(c)
      BY <2>2, <2>3, <2>4, <2>5, ThrottleAssumption DEF IsForgotten
    <2>6. CASE ~IsForgotten(c)
      BY <2>1, <2>2, <2>3, <2>4, <2>6 DEF IsBlocked
    <2> QED
      BY <2>5, <2>6
  <1>2. ASSUME ThrottleInv, [ThrottleNext]_throttleVars
        PROVE  [\A a \in Attempts : Served(a)]_throttleVars
    BY <1>1, <1>2
  <1> QED
    BY <1>2, ThrottleInductive, PTL DEF ThrottleSpec, NoAttemptInLockout

-----------------------------------------------------------------------------
(***************************************************************************)
(* Theorems about McpSession, for any callers, identities and bounds:      *)
(* however handshakes, late replies and changes of identity cross, a       *)
(* request carries its own identity's session, and a session that a newer  *)
(* handshake opened is not lost to an older reply.                         *)
(*                                                                         *)
(* The argument rests on initMu: only its holder opens sessions, so a      *)
(* handshake's reply names the newest session there is (RepliesAreNewest), *)
(* and on post remembering whose request was refused (RefusedIsDropped).   *)
(***************************************************************************)

Opened == [by : Auths, lives : BOOLEAN]

(* The client keeps a session for the identity that opened it.             *)
SessionIsOpeners == session.id # NoSession => opened[session.id].by = session.auth

(* Between requests a caller holds nothing of an earlier one, and outside  *)
(* its handshake not the lock.                                             *)
NothingIsLeftOver ==
    \A c \in Askers :
        /\ asker[c].pc \notin {"sent", "served"} => asker[c].sid = NoSession
        /\ asker[c].pc \in {"idle", "entering", "starting"} => asker[c].what = "call"

RepliesAreNewest ==
    \A c \in Askers :
        /\ asker[c].pc # "served" => asker[c].got = NoSession /\ asker[c].reply = "none"
        /\ asker[c].got # NoSession =>
               /\ asker[c].what = "initialize"
               /\ asker[c].got = Len(opened) /\ opened[asker[c].got].by = asker[c].auth

RefusedIsDropped ==
    \A c \in Askers : asker[c].reply = "gone" =>
        asker[c].sid # NoSession /\ ~opened[asker[c].sid].lives

McpInv ==
    /\ McpTypeOK
    /\ SessionStaysHome
    /\ SessionIsOpeners
    /\ NothingIsLeftOver
    /\ RepliesAreNewest
    /\ RefusedIsDropped

-----------------------------------------------------------------------------
LEMMA NoAskType ==
    ASSUME McpTypeOK
    PROVE  /\ NoAsk.pc = "idle" /\ NoAsk.what = "call" /\ NoAsk.auth \in Auths
           /\ NoAsk.sid = NoSession /\ NoAsk.reply = "none" /\ NoAsk.got = NoSession
           /\ NoAsk = [pc |-> "idle", what |-> "call", auth |-> NoAsk.auth,
                       sid |-> NoSession, reply |-> "none", got |-> NoSession]
  <1>1. (CHOOSE a \in Auths : TRUE) \in Auths
    BY DEF McpTypeOK
  <1> QED
    BY <1>1 DEF NoAsk

LEMMA NoAskBecomes ==
    ASSUME McpTypeOK, NEW pc, NEW what
    PROVE  \E a \in Auths :
               [NoAsk EXCEPT !.pc = pc, !.what = what] =
                   [pc |-> pc, what |-> what, auth |-> a, sid |-> NoSession,
                    reply |-> "none", got |-> NoSession]
  <1> DEFINE a == CHOOSE x \in Auths : TRUE
  <1>1. a \in Auths
    BY DEF McpTypeOK
  <1>2. NoAsk = [pc |-> "idle", what |-> "call", auth |-> a, sid |-> NoSession,
                 reply |-> "none", got |-> NoSession]
    BY DEF NoAsk
  <1> HIDE DEF a
  <1>3. [NoAsk EXCEPT !.pc = pc] =
            [pc |-> pc, what |-> "call", auth |-> a, sid |-> NoSession,
             reply |-> "none", got |-> NoSession]
    BY <1>2, SMT
  <1>4. [[pc |-> pc, what |-> "call", auth |-> a, sid |-> NoSession,
          reply |-> "none", got |-> NoSession] EXCEPT !.what = what] =
            [pc |-> pc, what |-> what, auth |-> a, sid |-> NoSession,
             reply |-> "none", got |-> NoSession]
    BY SMT
  <1>5. [[NoAsk EXCEPT !.pc = pc] EXCEPT !.what = what] =
            [pc |-> pc, what |-> what, auth |-> a, sid |-> NoSession,
             reply |-> "none", got |-> NoSession]
    BY <1>3, <1>4, Zenon
  <1>6. [[NoAsk EXCEPT !.pc = pc] EXCEPT !.what = what] = [NoAsk EXCEPT !.pc = pc, !.what = what]
    OBVIOUS
  <1> QED
    BY <1>1, <1>5, <1>6

LEMMA InitMcpInv == McpInit => McpInv
  <1> SUFFICES ASSUME McpInit PROVE McpInv
    OBVIOUS
  <1>1. (CHOOSE a \in Auths : TRUE) \in Auths
    BY DEF McpInit
  <1>2. opened \in Seq(Opened) /\ Len(opened) = 0
    BY DEF McpInit
  <1>3. \A c \in Askers : asker[c] = NoAsk
    BY DEF McpInit
  <1>4. turns \in 0 .. MaxTurns
    BY McpAssumption DEF McpInit
  <1>5. NoAsk \in [pc : AskerSteps, what : Asks, auth : Auths, sid : 0 .. Len(opened),
                   reply : Replies, got : 0 .. Len(opened)]
    BY <1>1, <1>2, McpAssumption DEF NoAsk, AskerSteps, Asks, Replies
  <1>6. session \in [id : 0 .. Len(opened), auth : Auths]
    BY <1>1, <1>2, McpAssumption DEF McpInit, NoAsk
  <1>7. McpTypeOK
    BY <1>2, <1>3, <1>4, <1>5, <1>6, McpAssumption
       DEF McpInit, McpTypeOK, Now, Opened, NoAsk
  <1> QED
    BY <1>3, <1>7, McpAssumption
       DEF McpInit, McpInv, SessionStaysHome, SessionIsOpeners, NothingIsLeftOver,
           RepliesAreNewest, RefusedIsDropped, NoAsk

AskRecords == [pc : AskerSteps, what : Asks, auth : Auths, sid : 0 .. Len(opened),
               reply : Replies, got : 0 .. Len(opened)]

(* What a caller that moves on must be left with, besides its type.        *)
MovesRightly(c, n) ==
    /\ n.sid # NoSession => opened[n.sid].by = n.auth
    /\ n.pc \notin {"sent", "served"} => n.sid = NoSession
    /\ n.pc \in {"idle", "entering", "starting"} => n.what = "call"
    /\ n.pc # "served" => n.got = NoSession /\ n.reply = "none"
    /\ n.got # NoSession =>
           n.what = "initialize" /\ n.got = Len(opened) /\ opened[n.got].by = n.auth
    /\ n.reply = "gone" => n.sid # NoSession /\ ~opened[n.sid].lives
    /\ (holder' = c) <=> n.pc = "starting" \/ n.what # "call"
    /\ \A d \in Askers : d # c => ((holder' = d) <=> (holder = d))

(* A caller's step that leaves the session and the endpoint alone.         *)
LEMMA CallerMoves ==
    ASSUME McpInv, NEW c \in Askers, NEW n \in AskRecords,
           asker' = [asker EXCEPT ![c] = n], MovesRightly(c, n),
           UNCHANGED <<auth, turns, session, opened>>, ready' \in BOOLEAN
    PROVE  McpInv' /\ NewerSessionStays
  <1> USE DEF McpInv, MovesRightly
  <1>1. \A d \in Askers : asker'[d] = IF d = c THEN n ELSE asker[d]
    BY DEF McpTypeOK
  <1>2. McpTypeOK'
    BY <1>1 DEF McpTypeOK, Now, AskRecords
  <1>3. SessionStaysHome' /\ SessionIsOpeners' /\ NothingIsLeftOver'
    BY <1>1 DEF SessionStaysHome, SessionIsOpeners, NothingIsLeftOver
  <1>4. RepliesAreNewest' /\ RefusedIsDropped'
    BY <1>1 DEF RepliesAreNewest, RefusedIsDropped
  <1>5. NewerSessionStays
    BY DEF NewerSessionStays, McpTypeOK
  <1> QED
    BY <1>2, <1>3, <1>4, <1>5

LEMMA WantsAndLocks ==
    ASSUME McpInv, NEW c \in Askers, WantSession(c) \/ LockInit(c) \/ CheckSession(c)
    PROVE  McpInv' /\ NewerSessionStays
  <1> USE McpAssumption DEF McpInv, Becomes, Now
  <1>0. asker[c] \in AskRecords
    BY DEF McpTypeOK, AskRecords
  <1>1. CASE WantSession(c)
    <2> DEFINE n == [NoAsk EXCEPT !.pc = "entering"]
    <2>0. NoAsk.auth \in Auths /\ n = [pc |-> "entering", what |-> "call", auth |-> NoAsk.auth,
                                     sid |-> NoSession, reply |-> "none", got |-> NoSession]
      BY NoAskType
    <2>1. n \in AskRecords
      BY <2>0 DEF AskRecords, AskerSteps, Asks, Replies, McpTypeOK
    <2>2. MovesRightly(c, n)
      BY <1>1, <2>0 DEF WantSession, MovesRightly, McpTypeOK, NothingIsLeftOver
    <2> QED
      BY <1>1, <2>1, <2>2, CallerMoves DEF WantSession, McpTypeOK
  <1>2. CASE LockInit(c)
    <2> DEFINE n == [asker[c] EXCEPT !.pc = "starting", !.auth = auth]
    <2>1. n \in AskRecords
      BY <1>0 DEF AskRecords, AskerSteps, McpTypeOK
    <2>2. MovesRightly(c, n)
      BY <1>0, <1>2 DEF LockInit, MovesRightly, McpTypeOK, NothingIsLeftOver,
         RepliesAreNewest, AskRecords
    <2> QED
      BY <1>2, <2>1, <2>2, CallerMoves DEF LockInit, McpTypeOK
  <1>3. CASE CheckSession(c)
    <2>0. PICK what \in {"call", "initialize"} :
              /\ asker' = [asker EXCEPT ![c] = [asker[c] EXCEPT !.pc = "calling", !.what = what]]
              /\ IF what = "call" THEN holder' = NoHolder ELSE UNCHANGED holder
      BY <1>3 DEF CheckSession
    <2> DEFINE n == [asker[c] EXCEPT !.pc = "calling", !.what = what]
    <2>1. n \in AskRecords
      BY <1>0, <2>0 DEF AskRecords, AskerSteps, Asks
    <2>2. MovesRightly(c, n)
      BY <1>0, <1>3, <2>0 DEF CheckSession, MovesRightly, McpTypeOK, NothingIsLeftOver,
         RepliesAreNewest, AskRecords
    <2> QED
      BY <1>3, <2>0, <2>1, <2>2, CallerMoves DEF CheckSession, McpTypeOK
  <1> QED
    BY <1>1, <1>2, <1>3

(* post, up to the reply: the request goes out with its own session, and   *)
(* what comes back is of it.                                               *)
LEMMA PostsAndExpires ==
    ASSUME McpInv, NEW c \in Askers, ReadAuth(c) \/ StampSession(c) \/ Expires(c)
    PROVE  McpInv' /\ NewerSessionStays
  <1> USE McpAssumption DEF McpInv, Becomes, Now
  <1>0. asker[c] \in AskRecords
    BY DEF McpTypeOK, AskRecords
  <1>1. CASE ReadAuth(c)
    <2> DEFINE n == [asker[c] EXCEPT !.pc = "stamping", !.auth = auth]
    <2>1. n \in AskRecords
      BY <1>0 DEF AskRecords, AskerSteps, McpTypeOK
    <2>2. MovesRightly(c, n)
      BY <1>0, <1>1 DEF ReadAuth, MovesRightly, McpTypeOK, NothingIsLeftOver,
         RepliesAreNewest, AskRecords
    <2> QED
      BY <1>1, <2>1, <2>2, CallerMoves DEF ReadAuth, McpTypeOK
  <1>2. CASE StampSession(c)
    <2> DEFINE id == IF session.auth = asker[c].auth THEN session.id ELSE NoSession
               n == [asker[c] EXCEPT !.pc = "sent", !.sid = id]
    <2>1. id \in 0 .. Len(opened) /\ (id # NoSession => opened[id].by = asker[c].auth)
      BY DEF McpTypeOK, SessionIsOpeners
    <2>2. n \in AskRecords
      BY <1>0, <2>1 DEF AskRecords, AskerSteps
    <2>3. MovesRightly(c, n)
      BY <1>0, <1>2, <2>1 DEF StampSession, MovesRightly, McpTypeOK, RepliesAreNewest,
         AskRecords
    <2> QED
      BY <1>2, <2>2, <2>3, CallerMoves DEF StampSession, McpTypeOK
  <1>3. CASE Expires(c)
    <2> DEFINE n == [asker[c] EXCEPT !.pc = "served", !.reply = "failed"]
    <2>1. n \in AskRecords
      BY <1>0 DEF AskRecords, AskerSteps, Replies
    <2>2. MovesRightly(c, n)
      BY <1>0, <1>3 DEF Expires, MovesRightly, McpTypeOK, SessionStaysHome,
         RepliesAreNewest, AskRecords
    <2> QED
      BY <1>3, <2>1, <2>2, CallerMoves DEF Expires, McpTypeOK
  <1> QED
    BY <1>1, <1>2, <1>3

-----------------------------------------------------------------------------
(* The endpoint only adds sessions and ends them.                          *)
OpenedGoesOn ==
    /\ opened' \in Seq(Opened) /\ Len(opened') >= Len(opened)
    /\ \A s \in 1 .. Len(opened) :
           opened'[s].by = opened[s].by /\ (~opened[s].lives => ~opened'[s].lives)

LEMMA EndpointAdds ==
    ASSUME McpTypeOK, NEW a \in Auths,
           opened' = Append(opened, [by |-> a, lives |-> TRUE])
    PROVE  OpenedGoesOn /\ Len(opened') = Len(opened) + 1 /\ opened'[Len(opened')].by = a
  <1>1. [by |-> a, lives |-> TRUE] \in Opened
    BY DEF Opened
  <1>2. opened \in Seq(Opened)
    BY DEF McpTypeOK, Opened
  <1> QED
    BY <1>1, <1>2, AppendProperties DEF OpenedGoesOn

LEMMA EndpointEnds ==
    ASSUME McpTypeOK, NEW s \in 1 .. Len(opened),
           opened' = [opened EXCEPT ![s].lives = FALSE]
    PROVE  OpenedGoesOn /\ Len(opened') = Len(opened)
  <1> DEFINE e == [opened[s] EXCEPT !.lives = FALSE]
  <1>1. opened \in Seq(Opened)
    BY DEF McpTypeOK, Opened
  <1>2. opened[s] \in Opened
    BY <1>1, ElementOfSeq
  <1>3. e \in Opened /\ e.by = opened[s].by /\ e.lives = FALSE
    BY <1>2 DEF Opened
  <1>4. opened' = [opened EXCEPT ![s] = e]
    OBVIOUS
  <1>5. e \in Opened
    BY <1>3
  <1> HIDE DEF e
  <1>6. /\ [opened EXCEPT ![s] = e] \in Seq(Opened)
        /\ Len([opened EXCEPT ![s] = e]) = Len(opened)
        /\ \A j \in 1 .. Len(opened) :
               [opened EXCEPT ![s] = e][j] = IF j = s THEN e ELSE opened[j]
    BY <1>1, <1>5, ExceptSeq
  <1>7. Len(opened) \in Nat
    BY <1>1, LenProperties
  <1>8. /\ opened' \in Seq(Opened) /\ Len(opened') = Len(opened)
        /\ \A j \in 1 .. Len(opened) : opened'[j] = IF j = s THEN e ELSE opened[j]
    BY <1>4, <1>6, Zenon
  <1>9. \A j \in 1 .. Len(opened) :
            opened'[j].by = opened[j].by /\ (~opened[j].lives => ~opened'[j].lives)
    BY <1>3, <1>8
  <1> QED
    BY <1>7, <1>8, <1>9 DEF OpenedGoesOn

(* The endpoint's own step, with the caller it answers, if it answers one. *)
LEMMA EndpointDropsOne ==
    ASSUME McpInv, NEW s \in DOMAIN opened, EndpointDrops(s)
    PROVE  McpInv' /\ NewerSessionStays
  <1> USE McpAssumption DEF McpInv
  <1>1. Len(opened) \in Nat /\ DOMAIN opened = 1 .. Len(opened)
    BY LenProperties DEF McpTypeOK
  <1>2. OpenedGoesOn /\ Len(opened') = Len(opened)
    BY <1>1, EndpointEnds DEF EndpointDrops
  <1>3. UNCHANGED <<auth, turns, session, ready, holder, asker>>
    BY DEF EndpointDrops
  <1>4. McpTypeOK'
    BY <1>2, <1>3 DEF McpTypeOK, OpenedGoesOn, Now, Opened
  <1>5. /\ session.id \in 0 .. Len(opened)
        /\ \A c \in Askers : asker[c].sid \in 0 .. Len(opened) /\ asker[c].got \in 0 .. Len(opened)
    BY DEF McpTypeOK
  <1>6. SessionStaysHome' /\ SessionIsOpeners' /\ NothingIsLeftOver'
    BY <1>1, <1>2, <1>3, <1>5
       DEF SessionStaysHome, SessionIsOpeners, NothingIsLeftOver, OpenedGoesOn
  <1>7. RepliesAreNewest' /\ RefusedIsDropped'
    BY <1>1, <1>2, <1>3, <1>5 DEF RepliesAreNewest, RefusedIsDropped, OpenedGoesOn
  <1>8. NewerSessionStays
    BY <1>3, <1>5 DEF NewerSessionStays
  <1> QED
    BY <1>4, <1>6, <1>7, <1>8

(* The record of a caller that has its reply.                              *)
LEMMA ReplyType ==
    ASSUME NEW Olds, NEW News, Olds \subseteq News, NEW q, NEW reply \in Replies, NEW got \in News,
           q \in [pc : AskerSteps, what : Asks, auth : Auths, sid : Olds,
                 reply : Replies, got : Olds]
    PROVE  [q EXCEPT !.pc = "served", !.reply = reply, !.got = got]
               \in [pc : AskerSteps, what : Asks, auth : Auths, sid : News,
                    reply : Replies, got : News]
  <1> DEFINE r == [q EXCEPT !.pc = "served", !.reply = reply, !.got = got]
             olds == [pc : AskerSteps, what : Asks, auth : Auths, sid : Olds,
                      reply : Replies, got : Olds]
  <1>1. [q EXCEPT !.pc = "served"] \in olds
    BY DEF AskerSteps
  <1>2. [[q EXCEPT !.pc = "served"] EXCEPT !.reply = reply] \in olds
    BY <1>1
  <1>3. [[[q EXCEPT !.pc = "served"] EXCEPT !.reply = reply] EXCEPT !.got = got]
            \in [pc : AskerSteps, what : Asks, auth : Auths, sid : News,
                 reply : Replies, got : News]
    BY <1>2
  <1>4. r = [[[q EXCEPT !.pc = "served"] EXCEPT !.reply = reply] EXCEPT !.got = got]
    OBVIOUS
  <1> QED
    BY <1>3, <1>4

(* Serve, when it opens a session: initMu makes its caller the only one    *)
(* with a handshake out.                                                   *)
LEMMA OpensForHolder ==
    ASSUME McpInv, NEW c \in Askers, NEW reply \in {"ok", "failed"},
           NEW got, got = Len(opened'),
           asker[c].pc = "sent", asker[c].what = "initialize",
           opened' = Append(opened, [by |-> asker[c].auth, lives |-> TRUE]),
           asker' = [asker EXCEPT ![c] = [asker[c] EXCEPT !.pc = "served", !.reply = reply,
                                                         !.got = got]],
           UNCHANGED <<auth, turns, session, ready, holder>>
    PROVE  McpInv' /\ NewerSessionStays
  <1> USE McpAssumption DEF McpInv
  <1>0. asker[c] \in AskRecords /\ Len(opened) \in Nat
    BY LenProperties DEF McpTypeOK, AskRecords
  <1>1. OpenedGoesOn /\ Len(opened') = Len(opened) + 1 /\ opened'[Len(opened')].by = asker[c].auth
    BY <1>0, EndpointAdds DEF AskRecords
  <1> DEFINE n == [asker[c] EXCEPT !.pc = "served", !.reply = reply, !.got = got]
  <1>2. /\ n \in AskRecords' /\ n.auth = asker[c].auth /\ n.sid = asker[c].sid
        /\ n.what = "initialize" /\ n.pc = "served" /\ n.reply = reply /\ n.got = Len(opened')
    <2> DEFINE olds == 0 .. Len(opened)
               news == 0 .. Len(opened')
    <2>1. reply \in Replies /\ got \in news /\ olds \subseteq news
      BY <1>0, <1>1 DEF Replies
    <2>2. asker[c] \in [pc : AskerSteps, what : Asks, auth : Auths, sid : olds,
                        reply : Replies, got : olds]
      BY <1>0 DEF AskRecords
    <2> HIDE DEF olds, news
    <2>3. n \in [pc : AskerSteps, what : Asks, auth : Auths, sid : news,
                 reply : Replies, got : news]
      BY <2>1, <2>2, ReplyType, Zenon
    <2> QED
      BY <1>0, <2>3 DEF AskRecords, news
  <1> HIDE DEF n
  <1>3. \A d \in Askers : asker'[d] = IF d = c THEN n ELSE asker[d]
    BY DEF n, McpTypeOK
  <1>4. \A d \in Askers : asker[d] \in AskRecords /\ asker[d] \in AskRecords'
    BY <1>0, <1>1 DEF McpTypeOK, AskRecords
  <1>5. \A d \in Askers : d # c => asker[d].what = "call"
    BY DEF McpTypeOK
  <1>6. asker' \in [Askers -> AskRecords']
    BY <1>2, <1>3, <1>4 DEF n, McpTypeOK
  <1>7. McpTypeOK'
    BY <1>0, <1>1, <1>2, <1>3, <1>6 DEF McpTypeOK, OpenedGoesOn, Now, Opened, AskRecords
  <1>8. SessionStaysHome' /\ SessionIsOpeners' /\ NothingIsLeftOver'
    BY <1>0, <1>1, <1>2, <1>3, <1>4
       DEF SessionStaysHome, SessionIsOpeners, NothingIsLeftOver, OpenedGoesOn, McpTypeOK, AskRecords
  <1>9. RepliesAreNewest'
    BY <1>1, <1>2, <1>3, <1>5 DEF RepliesAreNewest
  <1>10. RefusedIsDropped'
    BY <1>0, <1>1, <1>2, <1>3, <1>4 DEF RefusedIsDropped, OpenedGoesOn, AskRecords
  <1>11. NewerSessionStays
    BY <1>0 DEF NewerSessionStays, McpTypeOK
  <1> QED
    BY <1>7, <1>8, <1>9, <1>10, <1>11

LEMMA Serves ==
    ASSUME McpInv, NEW c \in Askers, Serve(c)
    PROVE  McpInv' /\ NewerSessionStays
  <1> USE McpAssumption DEF McpInv, Becomes, Now
  <1>0. asker[c] \in AskRecords
    BY DEF McpTypeOK, AskRecords
  <1>1. CASE \E reply \in {"gone", "ok", "failed"} :
                /\ reply = "gone" => asker[c].sid # NoSession /\ ~opened[asker[c].sid].lives
                /\ asker' = [asker EXCEPT ![c] = [asker[c] EXCEPT !.pc = "served", !.reply = reply,
                                                                !.got = NoSession]]
                /\ UNCHANGED opened
    <2>1. PICK reply \in {"gone", "ok", "failed"} :
                /\ reply = "gone" => asker[c].sid # NoSession /\ ~opened[asker[c].sid].lives
                /\ asker' = [asker EXCEPT ![c] = [asker[c] EXCEPT !.pc = "served", !.reply = reply,
                                                                !.got = NoSession]]
                /\ UNCHANGED opened
      BY <1>1
    <2> DEFINE n == [asker[c] EXCEPT !.pc = "served", !.reply = reply, !.got = NoSession]
    <2>2. n \in AskRecords
      <3>1. Len(opened) \in Nat /\ NoSession \in 0 .. Len(opened) /\ reply \in Replies
        BY LenProperties, <2>1 DEF McpTypeOK, Replies
      <3> QED
        BY <1>0, <3>1, ReplyType DEF AskRecords
    <2>3. UNCHANGED <<auth, turns, session, ready, holder>> /\ asker[c].pc = "sent"
      BY DEF Serve
    <2>4. MovesRightly(c, n)
      BY <1>0, <2>1, <2>3 DEF MovesRightly, McpTypeOK, SessionStaysHome, AskRecords
    <2> QED
      BY <2>1, <2>2, <2>3, <2>4, CallerMoves DEF McpTypeOK
  <1>2. CASE \E reply \in {"ok", "failed"} :
                /\ asker[c].what = "initialize"
                /\ opened' = Append(opened, [by |-> asker[c].auth, lives |-> TRUE])
                /\ asker' = [asker EXCEPT ![c] = [asker[c] EXCEPT !.pc = "served", !.reply = reply,
                                                                !.got = Len(opened')]]
    BY <1>2, OpensForHolder DEF Serve
  <1> QED
    BY <1>1, <1>2 DEF Serve

-----------------------------------------------------------------------------
(* TakeReply: the session moves to a newer one of its opener, or loses an  *)
(* id the endpoint has dropped.                                            *)
LEMMA ReplyTaken ==
    ASSUME McpInv, NEW c \in Askers, asker[c].pc = "served", TakeReply(asker[c])
    PROVE  /\ session' \in [id : 0 .. Len(opened), auth : Auths]
           /\ session'.id # NoSession => opened[session'.id].by = session'.auth
           /\ NewerSessionStays
  <1> USE McpAssumption DEF McpInv
  <1>0. /\ asker[c] \in AskRecords /\ Len(opened) \in Nat
        /\ session.id \in 0 .. Len(opened) /\ session.auth \in Auths
        /\ session = [id |-> session.id, auth |-> session.auth]
    BY LenProperties DEF McpTypeOK, AskRecords
  <1>1. CASE session' = session
    BY <1>0, <1>1 DEF NewerSessionStays, SessionIsOpeners
  <1>2. CASE session' = [id |-> asker[c].got, auth |-> asker[c].auth] /\ asker[c].got # NoSession
    BY <1>0, <1>2 DEF RepliesAreNewest, NewerSessionStays, AskRecords
  <1>3. CASE /\ asker[c].reply = "gone" /\ session = [id |-> asker[c].sid, auth |-> asker[c].auth]
             /\ session' = [session EXCEPT !.id = NoSession]
    BY <1>0, <1>3 DEF RefusedIsDropped, NewerSessionStays, AskRecords
  <1> QED
    BY <1>1, <1>2, <1>3 DEF TakeReply

LEMMA RepliesLand ==
    ASSUME McpInv, NEW c \in Askers, ReplyLands(c)
    PROVE  McpInv' /\ NewerSessionStays
  <1> USE McpAssumption DEF McpInv, Becomes, Now
  <1>0. /\ asker[c] \in AskRecords /\ Len(opened) \in Nat
        /\ asker[c].pc = "served" /\ UNCHANGED <<auth, turns, opened>>
    BY LenProperties DEF McpTypeOK, AskRecords, ReplyLands
  <1>1. /\ session' \in [id : 0 .. Len(opened), auth : Auths]
        /\ session'.id # NoSession => opened[session'.id].by = session'.auth
        /\ NewerSessionStays
    BY <1>0, ReplyTaken DEF ReplyLands
  <1>2. PICK pc \in {"idle", "calling"}, what \in Asks :
            /\ asker' = [asker EXCEPT ![c] = [NoAsk EXCEPT !.pc = pc, !.what = what]]
            /\ pc = "idle" => what = "call"
            /\ IF what = "initialized" THEN asker[c].what = "initialize" /\ UNCHANGED holder
               ELSE /\ what = "call"
                    /\ IF asker[c].what = "call" THEN UNCHANGED holder ELSE holder' = NoHolder
            /\ ready' \in BOOLEAN
    <2>1. asker[c].what \in Asks /\ ready \in BOOLEAN
      BY <1>0 DEF AskRecords, McpTypeOK
    <2>2. NoAsk = [NoAsk EXCEPT !.pc = "idle", !.what = "call"]
      BY NoAskType
    <2>3. CASE asker[c].what = "initialize" /\ asker[c].reply = "ok"
      BY <2>1, <2>3 DEF ReplyLands, Asks
    <2>4. CASE asker[c].what = "initialize" /\ asker[c].reply # "ok"
      BY <2>2, <2>4 DEF ReplyLands, Asks
    <2>5. CASE asker[c].what = "initialized"
      BY <2>5 DEF ReplyLands, Asks
    <2>6. CASE asker[c].what = "call"
      BY <2>1, <2>2, <2>6 DEF ReplyLands, Asks
    <2> QED
      BY <2>1, <2>3, <2>4, <2>5, <2>6 DEF Asks
  <1> DEFINE n == [NoAsk EXCEPT !.pc = pc, !.what = what]
  <1>a. PICK a \in Auths : n = [pc |-> pc, what |-> what, auth |-> a, sid |-> NoSession,
                                reply |-> "none", got |-> NoSession]
    BY NoAskBecomes, Zenon
  <1>b. n.sid = NoSession /\ n.got = NoSession /\ n.reply = "none" /\ n.pc = pc /\ n.what = what
    BY <1>a
  <1>c. pc \in {"idle", "calling"} /\ (pc = "idle" => what = "call")
    BY <1>2
  <1> HIDE DEF n
  <1>4. n \in AskRecords
    BY <1>0, <1>2, <1>a DEF AskRecords, AskerSteps, Asks, Replies
  <1>5. \A d \in Askers : asker'[d] = IF d = c THEN n ELSE asker[d]
    BY <1>2 DEF n, McpTypeOK
  <1>6. asker' \in [Askers -> AskRecords']
    BY <1>0, <1>2, <1>4 DEF n, McpTypeOK, AskRecords
  <1>7. \A d \in Askers :
            (holder' = d) <=> asker'[d].pc = "starting" \/ asker'[d].what # "call"
    BY <1>0, <1>2, <1>b, <1>5 DEF McpTypeOK
  <1>8. McpTypeOK'
    BY <1>0, <1>1, <1>2, <1>6, <1>7 DEF McpTypeOK, AskRecords
  <1>9. SessionStaysHome' /\ SessionIsOpeners' /\ NothingIsLeftOver'
    BY <1>0, <1>1, <1>b, <1>c, <1>5 DEF SessionStaysHome, SessionIsOpeners, NothingIsLeftOver
  <1>10. RepliesAreNewest' /\ RefusedIsDropped'
    BY <1>0, <1>b, <1>c, <1>5 DEF RepliesAreNewest, RefusedIsDropped
  <1> QED
    BY <1>1, <1>8, <1>9, <1>10

-----------------------------------------------------------------------------
LEMMA McpStepInv ==
    ASSUME McpInv, McpNext
    PROVE  McpInv' /\ NewerSessionStays
  <1>1. CASE \E c \in Askers : WantSession(c) \/ LockInit(c) \/ AskerStep(c) \/ Expires(c)
    BY <1>1, WantsAndLocks, PostsAndExpires, Serves, RepliesLand DEF AskerStep
  <1>2. CASE IdentityTurns
    <2>1. /\ UNCHANGED <<session, ready, holder, asker, opened>>
          /\ auth' \in Auths /\ turns' \in 0 .. MaxTurns
      BY <1>2, McpAssumption DEF IdentityTurns, McpInv, McpTypeOK
    <2> QED
      BY <2>1 DEF McpInv, McpTypeOK, SessionStaysHome, SessionIsOpeners, NothingIsLeftOver,
         RepliesAreNewest, RefusedIsDropped, NewerSessionStays, Now
  <1>3. CASE \E s \in DOMAIN opened : EndpointDrops(s)
    BY <1>3, EndpointDropsOne
  <1> QED
    BY <1>1, <1>2, <1>3 DEF McpNext

THEOREM McpInductive == McpSpec => []McpInv
  <1>1. McpInv /\ [McpNext]_mcpVars => McpInv'
    <2> SUFFICES ASSUME McpInv, UNCHANGED mcpVars PROVE McpInv'
      BY McpStepInv
    <2> QED
      BY DEF mcpVars, McpInv, McpTypeOK, SessionStaysHome, SessionIsOpeners,
         NothingIsLeftOver, RepliesAreNewest, RefusedIsDropped, Now
  <1> QED
    BY <1>1, InitMcpInv, PTL DEF McpSpec

(* HandshakesAreExclusive: the session, its callers and the endpoint keep  *)
(* their types, and initMu is held by the one caller in its handshake.     *)
THEOREM HandshakesAreExclusive == McpSpec => []McpTypeOK
  <1>1. McpInv => McpTypeOK
    BY DEF McpInv
  <1> QED
    BY <1>1, McpInductive, PTL

(* SessionAlwaysHome: no request is sent with another identity's session,  *)
(* and no late reply takes a newer session away.                           *)
THEOREM SessionAlwaysHome == McpSpec => SessionsStayHome
  <1>1. McpInv /\ McpInv' /\ [McpNext]_mcpVars => [SessionStaysHome' /\ NewerSessionStays]_mcpVars
    BY McpStepInv DEF McpInv
  <1> QED
    BY <1>1, McpInductive, PTL DEF McpSpec, SessionsStayHome

-----------------------------------------------------------------------------
(* TablesAlwaysKept: of all parts together, every table holds what was put *)
(* in, within its cap, and every lock is held by the one in its section.   *)
THEOREM TablesAlwaysKept == ServerSpec => []TablesAreKept
  <1>1. /\ TypeOK /\ ThrottleTypeOK /\ McpTypeOK /\ OrderIsTheEntries /\ FailuresAreKept
        => TablesAreKept
    BY DEF TablesAreKept, OrderIsTheEntries
  <1> QED
    BY <1>1, TypeCorrect, SlotIsExclusive, HandshakesAreExclusive, OrderAlwaysKept,
       FailuresAlwaysKept, PTL DEF ServerSpec

=============================================================================
