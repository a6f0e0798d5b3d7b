--------------------------- MODULE PortalSession ---------------------------
(***************************************************************************)
(* What the account switcher promises, with the vault, the epoch and the   *)
(* mutexes hidden: at every moment one person is signed in, and every      *)
(* request goes out either under that person's own key or under a switch   *)
(* credential that very person minted for an account the portal lists for  *)
(* them.  A new person never inherits the last one's switch.               *)
(***************************************************************************)
CONSTANTS Keys, Accounts, NoKey, NoAccount, MemberOf

VARIABLES
    who,    \* whose key identifies the session, or NoKey
    cred    \* what requests are signed with: its minter and its account

OwnKey(k) == [by |-> k, acct |-> NoAccount]

Init ==
    /\ who \in Keys \cup {NoKey}
    /\ cred = OwnKey(who)

\* Another connection becomes active, the vault locks, or a key is replaced.
SignInAs(k) ==
    /\ who' = k
    /\ cred' = OwnKey(k)

SwitchTo(a) ==
    /\ who # NoKey
    /\ a \in MemberOf[who]
    /\ cred' = [by |-> who, acct |-> a]
    /\ UNCHANGED who

GoHome ==
    /\ cred' = OwnKey(who)
    /\ UNCHANGED who

Next ==
    \/ \E k \in Keys \cup {NoKey} : SignInAs(k)
    \/ \E a \in Accounts : SwitchTo(a)
    \/ GoHome

Spec == Init /\ [][Next]_<<who, cred>>
=============================================================================
