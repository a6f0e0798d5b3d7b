---------------------------- MODULE MCProvision ----------------------------
(***************************************************************************)
(* What is left for the record: Provision for two sites, of two subnets    *)
(* and of one, whose subnets share one reverse zone; and the audit log.    *)
(* They share nothing that is modelled: a behaviour follows one of them.   *)
(***************************************************************************)
EXTENDS Provision, AuditLog, TLC

CONSTANTS s1, s2, v1, t1, t2

MCRevOf == [n \in Slots |-> v1]
MCTemplate == s1 :> <<{"reverse"}, {"reverse", "host"}>> @@ s2 :> <<{"range", "reverse"}>>
MCSymmetry == Permutations(Builders) \cup Permutations(Slots)

\* Bound: two builds and one teardown, or one build and two teardowns to which
\* nothing goes wrong; the first to start is named t1.
InTurn ==
    /\ Cardinality({b \in Builders : build'[b].step # "idle"}
                    \cup {t \in Teardowns : down'[t].step # "idle"}) <= 3
    /\ down'[t2].step # "idle" => down'[t1].step # "idle" /\ wrong' = 0

VARIABLE scene   \* the part a behaviour follows

OneKey == CHOOSE k \in AuditKeys : TRUE

RecordsInit ==
    /\ scene \in {"site", "audit"}
    /\ Init /\ (scene = "audit" => portal = Customers({}))
    /\ AuditLogInit /\ (scene = "site" => keyAt = OneKey)

RecordsNext ==
    \/ scene = "site" /\ Next /\ InTurn /\ UNCHANGED <<scene, auditLogVars>>
    \/ scene = "audit" /\ AuditLogNext /\ UNCHANGED <<scene, vars>>

RecordsSpec == RecordsInit /\ [][RecordsNext]_<<scene, vars, auditLogVars>>
=============================================================================
