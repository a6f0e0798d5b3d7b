---------------------------- MODULE UnlockThrottle ----------------------------
(***************************************************************************)
(* The throttle before the vault's unlock (httpx/unlock_throttle.go): one   *)
(* slot for the key derivation, waited for with a time limit, and a lockout *)
(* of each client that grows with its consecutive failures.  An attempt     *)
(* asks for its lockout twice, before it waits for the slot and after.      *)
(***************************************************************************)
EXTENDS Naturals, FiniteSets, Functions

CONSTANTS
    Attempts,    \* requests to unlock
    Clients,
    ClientOf,    \* [Attempts -> Clients]: TrustedProxies.ClientIP
    NoAttempt,
    BaseDelay, MaxDelay,  \* unlockBaseDelay, unlockMaxDelay
    ForgetAfter, \* unlockForget
    MaxTracked,  \* unlockMaxTracked
    MaxNow       \* bound: the last moment

ASSUME ThrottleAssumption ==
    /\ ClientOf \in [Attempts -> Clients] /\ NoAttempt \notin Attempts
    /\ BaseDelay \in Nat \ {0} /\ MaxDelay \in Nat \ {0} /\ ForgetAfter \in Nat \ {0}
    /\ MaxTracked \in Nat \ {0} /\ MaxNow \in Nat
    /\ MaxDelay <= ForgetAfter   \* 30 seconds, 15 minutes

VARIABLES
    now,      \* the time
    slot,     \* sem: the attempt that holds the derive slot
    fails,    \* the failure table: tracked client -> [n, last]
    try,      \* where each attempt is
    wrong     \* per client (history): wrong attempts in a row, the last one's
              \* time, and whether the table has let go of it since

throttleVars == <<now, slot, fails, try, wrong>>

TrySteps == {"new", "queued", "admitted", "deriving", "failed", "opened", "releasing", "answered"}

ThrottleInit ==
    /\ now = 0 /\ slot = NoAttempt
    /\ fails = [c \in {} |-> [n |-> 0, last |-> 0]]
    /\ try = [a \in Attempts |-> "new"]
    /\ wrong = [c \in Clients |-> [n |-> 0, last |-> 0, lost |-> FALSE]]

-----------------------------------------------------------------------------
\* unlockBackoff: the n-th failure in a row locks its client out for this
\* long; its shift is one of six.
Backoff(n) ==
    IF n > 6 THEN MaxDelay
    ELSE LET d == BaseDelay * <<1, 2, 4, 8, 16, 32>>[n] IN IF d < MaxDelay THEN d ELSE MaxDelay

Tracked == DOMAIN fails
IsForgotten(c) == c \in Tracked /\ now - fails[c].last >= ForgetAfter
IsBlocked(c) ==
    c \in Tracked /\ ~IsForgotten(c) /\ now < fails[c].last + Backoff(fails[c].n)

\* blockedFor drops the client's entry when it is old enough to be forgotten.
Dropped(cs) ==
    /\ fails' = Restrict(fails, Tracked \ cs)
    /\ wrong' = [c \in Clients |-> [wrong[c] EXCEPT !.lost = @ \/ c \in cs]]
AskLockout(c) == Dropped(IF IsForgotten(c) THEN {c} ELSE {})

Goes(a, from, to) == try[a] = from /\ try' = [try EXCEPT ![a] = to]

\* The check before the wait, so that a locked out client never queues.
Arrive(a) ==
    /\ Goes(a, "new", IF IsBlocked(ClientOf[a]) THEN "answered" ELSE "queued")
    /\ AskLockout(ClientOf[a])
    /\ UNCHANGED <<now, slot>>

TakeSlot(a) ==
    /\ slot = NoAttempt /\ slot' = a
    /\ Goes(a, "queued", "admitted")
    /\ UNCHANGED <<now, fails, wrong>>

\* acquireSlot gives up after its time limit, or when its caller has gone.
GiveUpWaiting(a) == Goes(a, "queued", "answered") /\ UNCHANGED <<now, slot, fails, wrong>>

\* Mutant: the lockout is asked for before the wait only.
AdmitsWhoeverHoldsTheSlot(a) ==
    /\ Goes(a, "admitted", "deriving")
    /\ UNCHANGED <<now, slot, fails, wrong>>

\* The check with the slot in hand, which sees what its last holder recorded.
CheckAgain(a) ==
    /\ Goes(a, "admitted", IF IsBlocked(ClientOf[a]) THEN "releasing" ELSE "deriving")
    /\ AskLockout(ClientOf[a])
    /\ UNCHANGED <<now, slot>>

\* UnlockR answers, or panics, which counts as a failure.
Derive(a) ==
    /\ Goes(a, "deriving", "failed") \/ Goes(a, "deriving", "opened")
    /\ UNCHANGED <<now, slot, fails, wrong>>

\* evictLocked: at the cap, forgotten entries go, then the one that failed
\* longest ago.
Evicted ==
    IF Cardinality(Tracked) < MaxTracked THEN {}
    ELSE LET old == {c \in Tracked : IsForgotten(c)}
             left == Tracked \ old
         IN  IF Cardinality(left) < MaxTracked THEN old
             ELSE old \union {CHOOSE c \in left : \A d \in left : fails[c].last <= fails[d].last}

\* record: a failure joins the client's count; a success clears it.
Record(a) ==
    LET c == ClientOf[a]
        out == IF c \in Tracked THEN {} ELSE Evicted
        n == IF c \in Tracked THEN fails[c].n + 1 ELSE 1
        kept == Restrict(fails, Tracked \ out)
    IN  /\ UNCHANGED <<now, slot>>
        /\ \/ /\ Goes(a, "failed", "releasing")
              /\ fails' = [d \in DOMAIN kept \union {c} |->
                               IF d = c THEN [n |-> n, last |-> now] ELSE kept[d]]
              /\ wrong' = [d \in Clients |->
                    IF d = c
                    THEN [n |-> IF wrong[c].lost THEN 1 ELSE wrong[c].n + 1, last |-> now, lost |-> FALSE]
                    ELSE [wrong[d] EXCEPT !.lost = @ \/ d \in out]]
           \/ /\ Goes(a, "opened", "releasing")
              /\ fails' = Restrict(fails, Tracked \ {c})
              /\ wrong' = [wrong EXCEPT ![c] = [n |-> 0, last |-> 0, lost |-> FALSE]]

Release(a) ==
    /\ Goes(a, "releasing", "answered") /\ slot' = NoAttempt
    /\ UNCHANGED <<now, fails, wrong>>

TimeGoesOn == now < MaxNow /\ now' = now + 1 /\ UNCHANGED <<slot, fails, try, wrong>>

-----------------------------------------------------------------------------
AttemptStep(a) == CheckAgain(a) \/ Derive(a) \/ Record(a) \/ Release(a)

ThrottleNext ==
    \/ \E a \in Attempts : Arrive(a) \/ TakeSlot(a) \/ GiveUpWaiting(a) \/ AttemptStep(a)
    \/ TimeGoesOn

\* Some attempt's own step, or its wait running out, is not put off for ever;
\* an attempt has few of them, so none is left standing.
ThrottleFairness ==
    WF_throttleVars(\E a \in Attempts : AttemptStep(a) \/ GiveUpWaiting(a))

ThrottleSpec == ThrottleInit /\ [][ThrottleNext]_throttleVars /\ ThrottleFairness

-----------------------------------------------------------------------------
\* What the throttle and its attempts hold; the slot is held by the one
\* attempt that is between taking it and giving it back.
ThrottleTypeOK ==
    /\ now \in 0 .. MaxNow /\ try \in [Attempts -> TrySteps]
    /\ Tracked \subseteq Clients
    /\ \A c \in Tracked : fails[c] \in [n : Nat \ {0}, last : 0 .. now]
    /\ wrong \in [Clients -> [n : Nat, last : Nat, lost : BOOLEAN]]
    /\ \A a \in Attempts :
           (slot = a) <=> try[a] \in {"admitted", "deriving", "failed", "opened", "releasing"}

\* An attempt is made only when its client has served the lockout of its last
\* wrong one, however many attempts were waiting together, unless the table
\* has let go of that client (unlock_throttle.go 192-213).
NoAttemptInLockout ==
    [][\A a \in Attempts :
           LET w == wrong[ClientOf[a]]
           IN  try[a] # "deriving" /\ try'[a] = "deriving" /\ w.n > 0 /\ ~w.lost
                   => now >= w.last + Backoff(w.n)]_throttleVars

\* The table keeps to its cap, and what it holds of a client is what that
\* client did (unlock_throttle.go 294-360).
FailuresAreKept ==
    /\ Cardinality(Tracked) <= MaxTracked
    /\ \A c \in Clients :
           IF wrong[c].n > 0 /\ ~wrong[c].lost
           THEN c \in Tracked /\ fails[c] = [n |-> wrong[c].n, last |-> wrong[c].last]
           ELSE c \notin Tracked

\* Every attempt is answered and gives the slot back (unlock_throttle.go 205-243).
AttemptsAreAnswered ==
    []<>(\A a \in Attempts : try[a] \in {"new", "answered"})
=============================================================================
