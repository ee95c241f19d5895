------------------------------ MODULE MCDaemon ------------------------------
(* Two daemons, one log that clients ask for in both shapes and a directory *)
(* with a name no log may have; one client of the owner's, one of a uid that *)
(* is let in and may use no log.                                             *)
EXTENDS Daemon

CONSTANTS p1, p2, mine, guest, jobs, stray

NoLists == [l \in Logs |-> {}]
JobsBothWays == {<<jobs, "plain">>, <<jobs, "reducible">>}

Symmetry == Permutations(Daemons)
=============================================================================
