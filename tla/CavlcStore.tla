----------------------------- MODULE CavlcStore -----------------------------
(***************************************************************************)
(* The versioned document store of crates/cavlc/src/mvcc.rs: one writer,   *)
(* immutable snapshots, a log of commits and private batches.              *)
(*                                                                         *)
(* A batch is held by a caller between operations, so it may meet a store  *)
(* that has moved on, was truncated, or was replaced by another store.     *)
(* The identity a store shares with its batches is an allocation that no   *)
(* other living store has, so a batch either is of this store or is not.   *)
(***************************************************************************)
EXTENDS Document

CONSTANTS Roots,          \* the JSON documents a store may start from
          Patches,        \* the patches a caller may submit
          Imports,        \* the versions a detached snapshot may claim
          VersionLimit,   \* the largest version (2^64 - 1 in the code)
          MaxPatches,     \* bound: patches in the log and the batch
          HoldAcrossTruncate   \* may a caller hold a batch over a truncate?

ASSUME StoreAssumption == /\ VersionLimit \in Nat \ {0}
                          /\ Imports \subseteq 0 .. VersionLimit
                          /\ MaxPatches \in Nat \ {0}
                          /\ HoldAcrossTruncate \in BOOLEAN

VARIABLES store,   \* base, snapshots and log
          batch    \* the outstanding batch, or NoBatch

vars == <<store, batch>>

NoBatch == [owner |-> "none"]
Snapshot(version, root) == [version |-> version, root |-> root]
Commit(version, patches) == [version |-> version, patches |-> patches]

Current(s) == Last(s.snapshots)

SnapshotAt(s, version) ==
    IF version < s.base \/ version - s.base >= Len(s.snapshots) THEN << >>
    ELSE <<s.snapshots[version - s.base + 1]>>

(* The commits of the half-open range (after, through], or <<>> for none:  *)
(* a one-element sequence holding them otherwise.                          *)
PatchesBetween(s, after, through) ==
    IF after > through \/ after < s.base \/ through - s.base > Len(s.log)
    THEN << >>
    ELSE <<SubSeq(s.log, after - s.base + 1, through - s.base)>>

StoreWith(snapshot) ==
    [base |-> snapshot.version, snapshots |-> <<snapshot>>, log |-> << >>]

Init ==
    /\ \E j \in Roots : /\ j.tag = "fields"
                       /\ store = StoreWith(Snapshot(0, FromJson(j)))
    /\ batch = NoBatch

-----------------------------------------------------------------------------
BeginBatch(s) ==
    [owner |-> "this", base |-> Current(s), working |-> Current(s).root,
     patches |-> << >>]

(* A failed patch leaves the batch as it was; so does one that changes     *)
(* nothing, which is not recorded either.                                  *)
Took(b, p, next) ==
    IF next.ok /\ ~next.same
    THEN [b EXCEPT !.working = next.value, !.patches = Append(@, p)]
    ELSE b

BatchApply(b, p) == Took(b, p, Apply(p, b.working))

(* MUTANT: the identity of the store is not compared.                      *)
VerdictForeign(s, b) ==
    CASE b.base.version # Current(s).version -> "Conflict"
      [] OTHER -> IF b.patches # << >> /\ Current(s).version = VersionLimit
                  THEN "VersionOverflow" ELSE "ok"

(* Why a batch is refused, or "ok".                                        *)
Verdict(s, b) ==
    CASE b.owner # "this" -> "ForeignBatch"
      [] b.owner = "this" /\ b.base.version # Current(s).version -> "Conflict"
      [] OTHER -> IF b.patches # << >> /\ Current(s).version = VersionLimit
                  THEN "VersionOverflow" ELSE "ok"

ApplyBatch(s, b) ==
    LET version == Current(s).version + 1
    IN  IF Verdict(s, b) # "ok" \/ b.patches = << >> THEN s
        ELSE [s EXCEPT !.log = Append(@, Commit(version, b.patches)),
                       !.snapshots = Append(@, Snapshot(version, b.working))]

(* Everything above a version goes; a version below the base or at the     *)
(* top is a no-op.                                                         *)
Truncated(s, version) ==
    LET keep == version - s.base
    IN  IF version < s.base \/ keep + 1 >= Len(s.snapshots) THEN s
        ELSE [s EXCEPT !.snapshots = SubSeq(@, 1, keep + 1),
                       !.log = SubSeq(@, 1, keep)]

(* Replay starts from version 0 and refuses a version out of order, an     *)
(* empty batch and a patch that fails or changes nothing.                  *)
Step(at, record, b) ==
    IF /\ at.ok
       /\ Current(at.store).version < VersionLimit
       /\ record.version = Current(at.store).version + 1
       /\ record.patches # << >>
       /\ b.patches = record.patches
    THEN [ok |-> TRUE, store |-> ApplyBatch(at.store, b)]
    ELSE [ok |-> FALSE, store |-> at.store]

ReplayOne(at, record) ==
    Step(at, record, FoldLeft(BatchApply, BeginBatch(at.store), record.patches))

Replay(initial, records) ==
    FoldLeft(ReplayOne,
             [ok |-> TRUE,
              store |-> StoreWith(Snapshot(0, FromJson(initial)))],
             records)

-----------------------------------------------------------------------------
RecordedIn(s) == FoldLeft(LAMBDA n, c : n + Len(c.patches), 0, s.log)
Room == RecordedIn(store)
          + (IF batch = NoBatch THEN 0 ELSE Len(batch.patches)) < MaxPatches

Begin ==
    /\ batch = NoBatch
    /\ batch' = BeginBatch(store)
    /\ UNCHANGED store

Stage(p) ==
    /\ batch # NoBatch
    /\ Room
    /\ batch' = BatchApply(batch, p)
    /\ UNCHANGED store

(* Publication consumes the batch, whatever the verdict.                   *)
Publish ==
    /\ batch # NoBatch
    /\ store' = ApplyBatch(store, batch)
    /\ batch' = NoBatch

Drop ==
    /\ batch # NoBatch
    /\ batch' = NoBatch
    /\ UNCHANGED store

(* Store::apply: a batch of one patch, begun and published at once; when   *)
(* the patch fails nothing is published.                                   *)
ApplyOne(p) ==
    /\ Room
    /\ store' = ApplyBatch(store, BatchApply(BeginBatch(store), p))
    /\ UNCHANGED batch

(* lug truncates only while it unwinds an append, when no batch is held.   *)
Truncate(version) ==
    /\ batch = NoBatch \/ HoldAcrossTruncate
    /\ Truncated(store, version) # store
    /\ store' = Truncated(store, version)
    /\ UNCHANGED batch

(* Another store takes the place of this one; a batch stays with the old.  *)
Replace(s) ==
    /\ store' = s
    /\ batch' = IF batch = NoBatch THEN batch ELSE [batch EXCEPT !.owner = "other"]

(* A store of its own, from a document; its root must be an object.        *)
FromValue(j) ==
    /\ j.tag = "fields"
    /\ Replace(StoreWith(Snapshot(0, FromJson(j))))

(* A detached snapshot is imported under a version taken on trust: any     *)
(* snapshot of the store may start a history of its own.  Bound: only      *)
(* while no batch is held; FromValue is the change of store a batch meets. *)
Resume(version) ==
    /\ batch = NoBatch
    /\ Replace(StoreWith(Snapshot(version, Current(store).root)))

(* The log is read back from its stored form into a store of its own.      *)
ReadBack(commit) ==
    Commit(commit.version, [i \in DOMAIN commit.patches |->
                              Parse(Serialize(commit.patches[i])).patch])

Rebuild(again) == again.ok /\ Replace(again.store)

ReplayAll ==
    Rebuild(Replay(ToJson(store.snapshots[1].root),
                   [i \in DOMAIN store.log |-> ReadBack(store.log[i])]))

Next ==
    \/ Begin
    \/ \E p \in Patches : Stage(p) \/ ApplyOne(p)
    \/ Publish
    \/ Drop
    \/ \E v \in 0 .. VersionLimit : Truncate(v)
    \/ \E j \in Roots : FromValue(j)
    \/ \E v \in Imports : Resume(v)
    \/ ReplayAll

Spec == Init /\ [][Next]_vars

-----------------------------------------------------------------------------
(* Snapshots and commits are numbered without gaps from the base, and a    *)
(* batch belongs to some store.                                            *)
TypeOK ==
    /\ Len(store.snapshots) = Len(store.log) + 1
    /\ \A i \in DOMAIN store.snapshots :
         store.snapshots[i].version = store.base + i - 1
    /\ \A i \in DOMAIN store.log : store.log[i].version = store.base + i
    /\ Current(store).version <= VersionLimit
    /\ batch.owner \in {"none", "this", "other"}

(* avl.rs: whatever sequence of creates, updates and deletes built it,     *)
(* every object in every snapshot and in the working state of a batch is   *)
(* an ordered, balanced tree whose cached heights and sizes are right.     *)
RootsHeld == {store.snapshots[i].root : i \in DOMAIN store.snapshots}
               \cup (IF batch = NoBatch THEN {} ELSE {batch.working})

RECURSIVE ObjectsIn(_)
ObjectsIn(v) ==
    IF ~IsObject(v) THEN {}
    ELSE {v} \cup UNION {ObjectsIn(n.value) : n \in NodesOf(v.map)}

TreesAreSound ==
    \A root \in RootsHeld : \A v \in ObjectsIn(root) :
        \A n \in NodesOf(v.map) : NodeIsSound(n)

(* patch.rs: the program's application of a patch, which threads a tree    *)
(* through three passes of keyed operations, succeeds exactly when the     *)
(* patch applies to the plain document, yields the document the reference  *)
(* gives, and keeps the root's identity exactly when nothing changed.      *)
(* Evaluated on stores without history, which take on every root.          *)
Plain == store.log = << >> /\ batch = NoBatch

Means(p, json, got) ==
    /\ got.ok = (Validate(p) /\ Applies(p, json))
    /\ got.ok => /\ ToJson(got.value) = Applied(p, json)
                 /\ got.same = (Applied(p, json) = json)

PatchesMeanWhatTheySay ==
    Plain => \A p \in Patches : Means(p, ToJson(Current(store).root),
                                      Apply(p, Current(store).root))

(* patch.rs, Patch::merge: two edits it accepts as independent give one    *)
(* patch that does what applying them one after the other does, in either  *)
(* order.                                                                  *)
Does(p, q, json) == Applies(p, json) /\ Applies(q, Applied(p, json))

Composes(m, p, q, json) ==
    m.ok => /\ Validate(m.patch)
            /\ Applies(m.patch, json) = Does(p, q, json)
            /\ Does(p, q, json) =>
                 /\ Does(q, p, json)
                 /\ Applied(m.patch, json) = Applied(q, Applied(p, json))
                 /\ Applied(m.patch, json) = Applied(p, Applied(q, json))

MergeIsComposition ==
    Plain => \A p, q \in Patches :
               Composes(Merge(p, q), p, q, ToJson(Current(store).root))

(* mvcc.rs: each snapshot is its predecessor with the patches of its own   *)
(* commit applied in order, and any range patches_between returns takes    *)
(* the snapshot at its lower bound to the one at its upper bound.          *)
HistoryIsFold ==
    \A after, through \in 0 .. VersionLimit :
        LET range == PatchesBetween(store, after, through)
            from  == SnapshotAt(store, after)
            to    == SnapshotAt(store, through)
        IN  /\ (range # << >>) = (after <= through /\ from # << >> /\ to # << >>)
            /\ range # << >> =>
                 AppliedAll(FlattenSeq([i \in DOMAIN range[1] |->
                                          range[1][i].patches]),
                            ToJson(from[1].root)) = ToJson(to[1].root)

(* mvcc.rs, Store::replay: the log of a store that began at version 0,     *)
(* written out and read back, rebuilds every snapshot; a log that lost a   *)
(* record below its last is refused.                                       *)
Documents(s) == [i \in DOMAIN s.snapshots |-> ToJson(s.snapshots[i].root)]

Rebuilds(again) == /\ again.ok
                   /\ again.store.log = store.log
                   /\ Documents(again.store) = Documents(store)

(* The records read back, without the i-th; all of them when i is 0.       *)
Without(i) == LET records == [j \in DOMAIN store.log |-> ReadBack(store.log[j])]
              IN  IF i = 0 THEN records ELSE RemoveAt(records, i)

ReplayRebuilds ==
    store.base = 0 =>
        \A i \in {0} \cup 1 .. Len(store.log) - 1 :
            LET Judge(again) == IF i = 0 THEN Rebuilds(again) ELSE ~again.ok
            IN  Judge(Replay(ToJson(store.snapshots[1].root), Without(i)))

(* The log of a store is its history: versions without gaps, each range of *)
(* commits leads from snapshot to snapshot, and replaying it rebuilds them. *)
(* A batch staged on anything but the version it is published on would     *)
(* show here.                                                              *)
HistoryIsTheLog == TypeOK /\ HistoryIsFold /\ ReplayRebuilds

(* mvcc.rs:131, "Outstanding batches based on a discarded version are      *)
(* rejected on publication, as always". Not so for a caller that holds a   *)
(* batch across a truncate after which the version it was based on is      *)
(* minted again: see the README.                                           *)
DiscardedNeverPublish ==
    [][Publish /\ store' # store => batch.base = Current(store)]_vars
=============================================================================
