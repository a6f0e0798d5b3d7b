------------------------------- MODULE MCDesk -------------------------------
(***************************************************************************)
(* Instance of Desk for TLC: two runs, two requests at a time, one network *)
(* and the things that can be put in it.                                   *)
(***************************************************************************)
EXTENDS Desk, TLC

DeskSymmetry ==
    Permutations(Runs) \cup Permutations(Handlers) \cup Permutations(Addrs)
=============================================================================
