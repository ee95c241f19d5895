----------------------------- MODULE MCLogActor -----------------------------
(* Small instances of LogActor for TLC. *)
EXTENDS LogActor_inv, LogActorFeed, TLC

\* A one-key cavlc object: Create needs the key absent, Delete needs it
\* present, the empty patch changes nothing.
StoreStates == {"absent", "present"}
StorePatches == {"create", "delete", "touch"}
StoreApply ==
    [p \in StorePatches |-> [s \in StoreStates |->
        CASE p = "create" /\ s = "absent"  -> "present"
          [] p = "delete" /\ s = "present" -> "absent"
          [] p = "touch"                   -> s
          [] OTHER                         -> "refused"]]

App(ps, d) == [kind |-> "append", patches |-> ps, durability |-> d, at |-> 0]
Read(k, v) == [kind |-> k, patches |-> <<>>, durability |-> 0, at |-> v]

\* Batches that conflict with each other, repeat, change nothing, or do not
\* decode, at both ends of the durability scale.
MixedCommands ==
    {App(<<"create">>, 1), App(<<"create">>, 2), App(<<"delete">>, 1),
     App(<<"touch">>, 2), App(<<"create", "junk">>, 1),
     Read("view", 0)}

\* Long batches, one whose second patch fails, and the reads that look at them.
FaultCommands ==
    {App(<<"create", "delete">>, 1), App(<<"touch", "create">>, 2),
     App(<<"delete">>, 1), App(<<"delete", "create">>, 2),
     App(<<>>, 2), Read("view_at", 1), Read("checkpoint", 0)}

Symmetry == Permutations(Req)
=============================================================================
