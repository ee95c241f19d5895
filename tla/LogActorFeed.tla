---------------------------- MODULE LogActorFeed ----------------------------
(***************************************************************************)
(* The actor implements Feed: seen through the ring, the watermark and the *)
(* retention floor, every step of LogActor is a step of Feed or none.      *)
(***************************************************************************)
EXTENDS LogActor

CONSTANTS
    MaxCommit,  \* bound on the records of one commit
    MaxLog      \* bound on the records of the log

ASSUME BoundsAssumption == MaxCommit \in Nat /\ MaxLog \in Nat

\* A log and a ring as a subscriber sees them.
PatchesOf(s) == [i \in DOMAIN s |-> s[i].patch]
See(e) == [version |-> e.version, patch |-> e.patch]
Shown(s) == [i \in DOMAIN s |-> See(s[i])]

\* What one commit may append.
Commits == UNION {[1..n -> Patches] : n \in 1..MaxCommit}

F == INSTANCE Feed WITH
        Batches <- Commits,
        Recoverable <- {<<>>},
        log <- PatchesOf(stored),
        ring <- Shown(ring),
        up <- pc \notin {"down", "replay", "refused"}

\* Feed bounds its log and its batches, the actor does not.
InBounds ==
    Len(stored) <= MaxLog /\ Len(records) <= MaxCommit /\ Len(residue) <= MaxCommit

\* What subscribers can see of a log changes only as Feed allows: a batch is in
\* the log, then in the ring, then under the watermark, whatever fails or is
\* isolated on the way; the floor only rises, and only over the whole log.
ImplementsFeed == F!FeedSpec
=============================================================================
