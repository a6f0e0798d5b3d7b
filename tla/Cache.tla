------------------------------- MODULE Cache -------------------------------
(***************************************************************************)
(* internal/cache: the process-wide TTL cache with its generation fence    *)
(* and single-flight Do.  A section run under c.mu is one action; a fetch, *)
(* the fenced write and the landing of a flight are separate steps of the  *)
(* leader, so a Rotate or an Invalidate can fall between any two of them.  *)
(*                                                                         *)
(* What a fetch returns matters here only by when it began, so a value is  *)
(* the era it was fetched in: the generation, and how many cache busts had *)
(* happened (a history count; the code keeps no such number).              *)
(***************************************************************************)
EXTENDS Naturals, Sequences, FiniteSets

CONSTANTS
    Callers,            \* goroutines calling Do
    CacheKeys,               \* cache keys
    Max,                \* cache.Max
    NoCaller, NoRow, Error,
    MaxGen, MaxBust     \* bounds on Rotate and Invalidate

ASSUME CacheAssumption ==
    /\ CacheKeys # {} /\ NoCaller \notin Callers
    /\ Max \in Nat \ {0}
    /\ MaxGen \in Nat /\ MaxBust \in Nat

Eras == [gen : Nat, bust : Nat]
Rows == [val : Eras, fresh : BOOLEAN]

ASSUME SentinelAssumption == NoRow \notin Rows /\ Error \notin Eras

VARIABLES
    era,        \* Cache.gen and the number of busts so far
    entries,    \* Cache.entries; fresh until the TTL runs out
    order,      \* its keys, oldest stamp first
    inflight,   \* Cache.inflight: the leader fetching a key, or NoCaller
    caller      \* where each goroutine is inside Do

cacheVars == <<era, entries, order, inflight, caller>>

Steps == {"idle", "waiting", "fetching", "setting", "landing", "done"}
CallerStates == [pc : Steps, key : CacheKeys, on : Callers \cup {NoCaller},
                 era : Eras, val : Eras \cup {Error}]

(* CacheTypeOK: only rows are cached, never an error (Cache.Do).            *)
CacheTypeOK ==
    /\ era \in Eras
    /\ entries \in [CacheKeys -> Rows \cup {NoRow}]
    /\ order \in Seq(CacheKeys)
    /\ inflight \in [CacheKeys -> Callers \cup {NoCaller}]
    /\ caller \in [Callers -> CallerStates]

Start == [gen |-> 0, bust |-> 0]
Idle == [pc |-> "idle", key |-> CHOOSE k \in CacheKeys : TRUE, on |-> NoCaller,
         era |-> Start, val |-> Error]
NoEntries == [k \in CacheKeys |-> NoRow]
NoFlights == [k \in CacheKeys |-> NoCaller]

CacheInit ==
    /\ era = Start
    /\ entries = NoEntries
    /\ order = <<>>
    /\ inflight = NoFlights
    /\ caller = [c \in Callers |-> Idle]

-----------------------------------------------------------------------------
IsHit(k) == entries[k] # NoRow /\ entries[k].fresh

Enter(c, k, pc, on, val) ==
    caller' = [caller EXCEPT ![c] = [pc |-> pc, key |-> k, on |-> on,
                                     era |-> era, val |-> val]]

\* Do, first critical section: a fresh entry answers at once,
Hit(c, k) ==
    /\ caller[c].pc = "idle"
    /\ IsHit(k)
    /\ Enter(c, k, "done", NoCaller, entries[k].val)
    /\ UNCHANGED <<era, entries, order, inflight>>

\* a running fetch is attached to,
Attach(c, k) ==
    /\ caller[c].pc = "idle"
    /\ ~IsHit(k)
    /\ inflight[k] # NoCaller
    /\ Enter(c, k, "waiting", inflight[k], Error)
    /\ UNCHANGED <<era, entries, order, inflight>>

\* and otherwise the caller leads, capturing the generation.
Lead(c, k) ==
    /\ caller[c].pc = "idle"
    /\ ~IsHit(k)
    /\ inflight[k] = NoCaller
    /\ Enter(c, k, "fetching", NoCaller, Error)
    /\ inflight' = [inflight EXCEPT ![k] = c]
    /\ UNCHANGED <<era, entries, order>>

FetchSucceeds(c) ==
    /\ caller[c].pc = "fetching"
    /\ caller' = [caller EXCEPT ![c].pc = "setting", ![c].val = caller[c].era]
    /\ UNCHANGED <<era, entries, order, inflight>>

\* An error, or a panic the deferred recover turns into one for the waiters.
FetchFails(c) ==
    /\ caller[c].pc = "fetching"
    /\ caller' = [caller EXCEPT ![c].pc = "landing", ![c].val = Error]
    /\ UNCHANGED <<era, entries, order, inflight>>

\* SetGen: dropped once the generation moved; evicts the oldest at the cap.
\* A key that is stamped again moves to the end: s without k, once in it.
Others(s, k) ==
    IF \A i \in DOMAIN s : s[i] # k THEN s
    ELSE LET p == CHOOSE i \in DOMAIN s : s[i] = k
         IN  [i \in 1 .. Len(s) - 1 |-> IF i < p THEN s[i] ELSE s[i + 1]]

\* Mutant: re-inserting a stored key leaves its old stamp behind.
InsertKeepsOldStamp(k, v) ==
    LET full == entries[k] = NoRow /\ Len(order) >= Max
        base == IF full THEN [entries EXCEPT ![Head(order)] = NoRow] ELSE entries
    IN /\ entries' = [base EXCEPT ![k] = [val |-> v, fresh |-> TRUE]]
       /\ order' = Append(IF full THEN Tail(order) ELSE order, k)

Insert(k, v) ==
    LET full == entries[k] = NoRow /\ Len(order) >= Max
        base == IF full THEN [entries EXCEPT ![Head(order)] = NoRow] ELSE entries
    IN /\ entries' = [base EXCEPT ![k] = [val |-> v, fresh |-> TRUE]]
       /\ order' = Append(Others(IF full THEN Tail(order) ELSE order, k), k)

\* Mutant: Set in place of SetGen, no generation compared.
SetUnfenced(c) ==
    /\ caller[c].pc = "setting"
    /\ Insert(caller[c].key, caller[c].val)
    /\ caller' = [caller EXCEPT ![c].pc = "landing"]
    /\ UNCHANGED <<era, inflight>>

SetGen(c) ==
    /\ caller[c].pc = "setting"
    /\ IF caller[c].era.gen = era.gen
         THEN Insert(caller[c].key, caller[c].val)
         ELSE UNCHANGED <<entries, order>>
    /\ caller' = [caller EXCEPT ![c].pc = "landing"]
    /\ UNCHANGED <<era, inflight>>

\* land: unregister this flight if it still is the registered one, then wake
\* every caller that attached to it with its result.
Land(c) ==
    /\ caller[c].pc = "landing"
    /\ inflight' = [inflight EXCEPT ![caller[c].key] =
                      IF @ = c THEN NoCaller ELSE @]
    /\ caller' = [d \in Callers |->
                    IF d = c \/ (caller[d].pc = "waiting" /\ caller[d].on = c)
                      THEN [caller[d] EXCEPT !.pc = "done", !.on = NoCaller,
                                             !.val = caller[c].val]
                      ELSE caller[d]]
    /\ UNCHANGED <<era, entries, order>>

Answer(c) ==
    /\ caller[c].pc = "done"
    /\ caller' = [caller EXCEPT ![c] = Idle]
    /\ UNCHANGED <<era, entries, order, inflight>>

-----------------------------------------------------------------------------
\* Mutant: the running fetches stay registered.
ClearKeepsFlights == entries' = NoEntries /\ order' = <<>> /\ UNCHANGED inflight

Clear == entries' = NoEntries /\ order' = <<>> /\ inflight' = NoFlights

Rotate ==
    /\ era.gen < MaxGen
    /\ era' = [era EXCEPT !.gen = @ + 1]
    /\ Clear
    /\ UNCHANGED caller

Invalidate ==
    /\ era.bust < MaxBust
    /\ era' = [era EXCEPT !.bust = @ + 1]
    /\ Clear
    /\ UNCHANGED caller

Expire(k) ==
    /\ IsHit(k)
    /\ entries' = [entries EXCEPT ![k].fresh = FALSE]
    /\ UNCHANGED <<era, order, inflight, caller>>

LeaderStep(c) == FetchSucceeds(c) \/ FetchFails(c) \/ SetGen(c) \/ Land(c)

CacheNext ==
    \/ \E c \in Callers, k \in CacheKeys : Hit(c, k) \/ Attach(c, k) \/ Lead(c, k)
    \/ \E c \in Callers : LeaderStep(c) \/ Answer(c)
    \/ Rotate \/ Invalidate
    \/ \E k \in CacheKeys : Expire(k)

CacheSpec == CacheInit /\ [][CacheNext]_cacheVars

(* A leader's fetch ends (upstream calls time out) and its goroutine runs  *)
(* on; nobody is obliged to call Do or to rotate.                          *)
CacheFairness == \A c \in Callers : WF_cacheVars(LeaderStep(c))

-----------------------------------------------------------------------------
(* CachedRowsAreCurrent: no entry was fetched under an earlier generation, *)
(* however late its fetch came back (SetGen's fence against Rotate).       *)
CachedRowsAreCurrent ==
    \A k \in CacheKeys : entries[k] # NoRow => entries[k].val.gen = era.gen

(* ArrivalSeesItsGeneration: a caller is answered with rows of the         *)
(* generation it arrived in, never with those of a fetch that an earlier   *)
(* tenant's caller had started (Rotate abandons the flights).              *)
ArrivalSeesItsGeneration ==
    \A c \in Callers :
        caller[c].pc = "done" /\ caller[c].val # Error
            => caller[c].val.gen = caller[c].era.gen

(* OneFetchPerEra: between two clears, at most one caller per key is       *)
(* fetching; a flight that lands late must not unregister its successor.   *)
OneFetchPerEra ==
    \A c, d \in Callers :
        /\ caller[c].pc = "fetching" /\ caller[d].pc = "fetching"
        /\ caller[c].key = caller[d].key /\ caller[c].era = caller[d].era
        => c = d

(* AnswersAreOfTheirEra: a caller is answered with rows of the generation  *)
(* it arrived in, and between two clears a key is fetched once at a time   *)
(* (Do and Rotate, cache.go).                                              *)
AnswersAreOfTheirEra == ArrivalSeesItsGeneration /\ OneFetchPerEra

(* OrderIsTheEntries: only rows are stored, and the eviction order lists   *)
(* exactly the stored keys, each once, and never more than the cap.        *)
OrderIsTheEntries ==
    /\ CacheTypeOK
    /\ Len(order) <= Max
    /\ {order[i] : i \in DOMAIN order} = {k \in CacheKeys : entries[k] # NoRow}
    /\ Cardinality({order[i] : i \in DOMAIN order}) = Len(order)

(* WaitersAreReleased: whoever waits on a flight is answered, also when    *)
(* the leader's fetch panics or the flight was abandoned by a Rotate.      *)
WaitersAreReleased ==
    \A c \in Callers : []<>(caller[c].pc # "waiting")
=============================================================================
