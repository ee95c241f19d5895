-------------------------------- MODULE Feed --------------------------------
(***************************************************************************)
(* What a log shows its subscribers: the records it has, the ring of the   *)
(* latest ones, the watermark they wait on and the retention floor.        *)
(*                                                                         *)
(* This is the part of LogActor a stream task can see, as an abstract      *)
(* specification: LogActorFeed shows that the actor implements it, and     *)
(* Subscription is built on it.                                            *)
(***************************************************************************)
EXTENDS Ring

CONSTANTS
    Batches,        \* what one commit may append, non-empty sequences of patches
    Recoverable,    \* the logs a daemon may find when it opens
    MaxLog          \* bound on the length of the log

ASSUME FeedAssumption ==
    /\ MaxLog \in Nat /\ <<>> \notin Batches
    /\ \A b \in Batches \cup Recoverable : b \in Seq({b[i] : i \in DOMAIN b})

VARIABLES
    log,            \* the patches of the log; the version of one is its index
    ring,
    published,      \* Shared.watermark
    floor,          \* Storage::oldest
    up              \* whether the actor is serving

feedVars == <<log, ring, published, floor, up>>

\* The entries of the versions in (from, to].
EntriesBetween(from, to) ==
    [i \in 1..(to - from) |-> [version |-> from + i, patch |-> log[from + i]]]

\* No commit is in progress: the actor only answers reads then.
Between == up /\ published = Len(log)
Pushed == ring # <<>> /\ ring[Len(ring)].version = Len(log)

FeedInit ==
    /\ log \in Recoverable
    /\ ring = <<>>
    /\ published = Len(log)
    /\ floor \in 1..(Len(log) + 1)
    /\ up = TRUE

\* Log::append: the batch is in the log before anyone can see it.
Commit ==
    /\ Between
    /\ \E batch \in Batches : Len(log \o batch) <= MaxLog /\ log' = log \o batch
    /\ UNCHANGED <<ring, published, floor, up>>

\* Actor::publish: the ring, then the watermark.
PushEntries ==
    /\ up
    /\ published < Len(log)
    /\ ~Pushed
    /\ ring' = RingPush(ring, EntriesBetween(published, Len(log)))
    /\ UNCHANGED <<log, published, floor, up>>

AnnounceWatermark ==
    /\ up
    /\ published < Len(log)
    /\ Pushed
    /\ published' = Len(log)
    /\ UNCHANGED <<log, ring, floor, up>>

\* A checkpoint reclaims records it covers, and it covers the whole log.
ReclaimTo ==
    /\ Between
    /\ \E f \in (floor + 1)..(Len(log) + 1) : floor' = f
    /\ UNCHANGED <<log, ring, published, up>>

\* The daemon stops, or again before it is serving.  Above the floor a suffix of
\* the log may be lost, and records of a commit in progress may turn out to be
\* there.
Stop ==
    /\ \E n \in (floor - 1)..Len(log), batch \in Batches \cup {<<>>} :
          log' = SubSeq(log, 1, n) \o batch
    /\ ring' = <<>> /\ published' = 0 /\ up' = FALSE
    /\ floor' = floor

Restart ==
    /\ ~up
    /\ published' = Len(log) /\ up' = TRUE
    /\ UNCHANGED <<log, ring, floor>>

FeedStep == Commit \/ PushEntries \/ AnnounceWatermark \/ ReclaimTo
FeedNext == FeedStep \/ Stop \/ Restart
FeedSpec == FeedInit /\ [][FeedNext]_feedVars
=============================================================================
