-------------------------------- MODULE Ring --------------------------------
(***************************************************************************)
(* The fan-out buffer of lug-server (ring.rs) as operators on a sequence   *)
(* of entries, each a record with a `version' and a `patch'.  The log actor *)
(* is its only writer (LogActor), the stream tasks are its readers         *)
(* (Subscription); both hold the lock for a whole push or read, so either  *)
(* is one step.                                                            *)
(***************************************************************************)
EXTENDS Naturals, Sequences

CONSTANT RingCapacity     \* Limits.ring

\* Ring::new raises a capacity of zero to one.
ASSUME RingCapacityAssumption == RingCapacity \in Nat \ {0}

\* Seeded bug: a full ring refuses the new entries.
RingPushRefuses(ring, batch) ==
    LET all == ring \o batch
    IN  IF Len(all) <= RingCapacity THEN all ELSE SubSeq(all, 1, RingCapacity)

\* `push' drops the front entry for each entry that does not fit, which
\* leaves the last RingCapacity entries of the old ring and the batch.
RingPush(ring, batch) ==
    LET all == ring \o batch
    IN  IF Len(all) <= RingCapacity
          THEN all
          ELSE SubSeq(all, Len(all) - RingCapacity + 1, Len(all))

\* Version of the front entry; 0 stands for None.
RingOldest(ring) == IF ring = <<>> THEN 0 ELSE ring[1].version

\* Read::TooOld: the cursor is below the oldest entry still held.
TooOld(ring, after) == ring # <<>> /\ after + 1 < RingOldest(ring)

\* `read_after' for a cursor that is not too old.  It finds the first entry
\* by index arithmetic on the front version, never by comparing versions.
\* `limit' is the smaller of the caller's limit and the number of entries
\* that max_bytes lets through, which is never less than one.
RingReadAfter(ring, after, limit) ==
    IF ring = <<>>
      THEN <<>>
      ELSE LET skip == after + 1 - RingOldest(ring)
               last == IF skip + limit < Len(ring) THEN skip + limit ELSE Len(ring)
           IN  SubSeq(ring, skip + 1, last)
=============================================================================
