------------------------------ MODULE LogActor ------------------------------
(***************************************************************************)
(* One log of the daemon: the actor that owns it (lug-server/actor.rs),    *)
(* the Log it drives (lug-core/log.rs) and the storage under it, the last  *)
(* as the contract of lug-core/storage.rs promises it.                     *)
(*                                                                         *)
(* Clients put commands into a bounded inbox.  The actor takes one command *)
(* and everything already queued behind it, gathers the appends into one   *)
(* batch, and commits the batch behind a single write and at most one      *)
(* sync; a read first commits the appends queued ahead of it.  A batch     *)
(* that fails is committed again one request at a time.  The process or    *)
(* the machine may stop at any point, after which the log is recovered     *)
(* from the checkpointed header and the records above it.                  *)
(*                                                                         *)
(* The fields `req' and `state' of a record, the fields `req' and `patch'  *)
(* of a view, and the variables `ahead', `cuts' and `opened' are history:  *)
(* no action reads them to decide anything.                                *)
(***************************************************************************)
EXTENDS Ring, FiniteSets

CONSTANTS
    Req,            \* client requests, each used at most once
    Commands,       \* the commands a client may send
    Patches,        \* what decodes as a patch of the structure
    Malformed,      \* what does not
    States,         \* values of the structure
    Zero,           \* the structure at version 0
    Rejected,       \* outcome of a patch the structure refuses
    Apply,          \* Apply[p][s]: the next state, or Rejected
    Reducible,      \* TRUE for a cavlc::Store, FALSE for a Noop
    BatchSize,      \* Limits.batch
    InboxCapacity,  \* Limits.inbox
    CheckpointEvery,\* records between automatic checkpoints, 0 for never
    Faults,         \* the storage calls that may fail
    CrashKinds,     \* how the program may stop
    MaxFaults,      \* bound on failures of storage calls
    MaxCrashes      \* bound on crashes

AllFaults == {"write", "cleanup", "sync", "header", "late_header", "open"}

ASSUME DataAssumption ==
    /\ Zero \in States
    /\ Rejected \notin States
    /\ Apply \in [Patches -> [States -> States \cup {Rejected}]]
    /\ Reducible \in BOOLEAN
    /\ Patches \cap Malformed = {}

ASSUME CommandsAssumption ==
    Commands \subseteq [kind : {"append", "view", "view_at", "checkpoint"},
                        patches : Seq(Patches \cup Malformed),
                        durability : 0..2,
                        at : Nat]

ASSUME LimitsAssumption ==
    /\ BatchSize \in Nat \ {0}
    /\ InboxCapacity \in Nat \ {0}
    /\ CheckpointEvery \in Nat
    /\ Faults \subseteq AllFaults
    /\ CrashKinds \subseteq {"process", "power"}
    /\ MaxFaults \in Nat
    /\ MaxCrashes \in Nat

VARIABLES
    cmd,        \* the command each request carries, once sent
    reply,      \* what each client has heard
    ahead,      \* history: the requests sent before each request
    inbox,      \* the mpsc channel into the actor
    pc,         \* where the actor is
    queue,      \* commands taken from the inbox, not yet drained
    taken,      \* patches among them
    batch,      \* decoded appends waiting to be committed
    jobs,       \* the requests of the commit in progress
    solo,       \* the requests `isolate' has yet to commit on their own
    at,         \* the patch the fold, and then Assign, is at: a job and a patch of it
    last,       \* the watermark when the commit began, then the last version seen
    views,      \* the views folded, one per patch
    records,    \* the records they minted
    offset,     \* where the views of the job begin
    acks,       \* the versions each job minted
    entries,    \* what will be fanned out, one per record
    claim,      \* the synced frontier the acknowledgements will report
    checkpointed,
    mem,        \* the structure: snapshots from version mem.base up
    watermark,
    synced,
    stored,     \* the records storage holds
    durable,    \* how many of them are on stable storage
    header,     \* the checkpoint: a version and the state at it
    floor,      \* Storage::oldest
    residue,    \* records a failed append could not erase
    ring,
    published,  \* Shared.watermark
    oldest,     \* Shared.oldest
    faults, crashes, cuts,
    opened      \* history: the last version this opening of the log found

clientVars == <<cmd, reply, ahead>>
actorVars  == <<queue, taken, batch, solo, checkpointed>>
commitVars == <<jobs, at, last, views, records, offset, acks, entries, claim>>
logVars    == <<mem, watermark, synced>>
storeVars  == <<stored, durable, header, floor, residue>>
sharedVars == <<ring, published, oldest>>
faultVars  == <<faults, crashes, cuts, opened>>
vars == <<clientVars, inbox, pc, actorVars, commitVars, logVars, storeVars,
          sharedVars, faultVars>>

Reply(status, versions, frontier, state) ==
    [status |-> status, versions |-> versions, synced |-> frontier, state |-> state]
Failure(code) == Reply(code, {}, 0, Zero)

\* Durability::Durable; Memory is 0 and Written is 1, as `rank' orders them.
Durable == 2

IsAppend(r) == cmd[r].kind = "append"

Version == mem.base + Len(mem.states) - 1
Current == mem.states[Len(mem.states)]

\* Seeded bug: a failed batch stays in memory.
TruncateNever(version) == mem

\* Reducible::truncate; a version at or above the current one changes nothing.
Truncate(version) ==
    IF version < mem.base \/ version >= Version
      THEN mem
      ELSE [mem EXCEPT !.states = SubSeq(@, 1, version - mem.base + 1)]

\* A Store keeps the versions from its base up, a Noop can name any of them.
Retained(version) ==
    version <= watermark /\ (Reducible => version >= mem.base)

\* A patch that leaves a Store as it was mints no version; a Noop mints one
\* for every patch.
Mints(p, s) == ~Reducible \/ Apply[p][s] # s

NoCommand == [kind |-> "none", patches |-> <<>>, durability |-> 0, at |-> 0]
FirstPatch == [job |-> 1, patch |-> 1]
Empty == [base |-> 0, states |-> <<Zero>>]

Init ==
    /\ cmd = [r \in Req |-> NoCommand]
    /\ reply = [r \in Req |-> Failure("unsent")]
    /\ ahead = [r \in Req |-> {}]
    /\ inbox = <<>> /\ queue = <<>> /\ batch = <<>> /\ jobs = <<>> /\ solo = <<>>
    /\ pc = "idle" /\ taken = 0 /\ checkpointed = 0
    /\ at = FirstPatch /\ last = 0 /\ claim = 0
    /\ views = <<>> /\ records = <<>> /\ offset = 0 /\ acks = <<>> /\ entries = <<>>
    /\ mem = Empty /\ watermark = 0 /\ synced = 0
    /\ stored = <<>> /\ durable = 0 /\ floor = 1 /\ residue = <<>>
    /\ header = [version |-> 0, state |-> Zero]
    /\ ring = <<>> /\ published = 0 /\ oldest = 1
    /\ faults = 0 /\ crashes = 0 /\ cuts = 0 /\ opened = 0

-----------------------------------------------------------------------------
(* Clients, the inbox, and gathering a run of commands. *)

\* A client sends a command; the channel makes it wait while full.
Submit(r, c) ==
    /\ reply[r].status = "unsent"
    /\ pc # "down"
    /\ Len(inbox) < InboxCapacity
    /\ cmd' = [cmd EXCEPT ![r] = c]
    /\ reply' = [reply EXCEPT ![r] = Failure("queued")]
    /\ ahead' = [ahead EXCEPT ![r] = {q \in Req : reply[q].status # "unsent"}]
    /\ inbox' = Append(inbox, r)
    /\ UNCHANGED <<pc, actorVars, commitVars, logVars, storeVars, sharedVars, faultVars>>

Take ==
    /\ inbox # <<>>
    /\ inbox' = Tail(inbox)
    /\ queue' = Append(queue, Head(inbox))
    /\ taken' = taken + Len(cmd[Head(inbox)].patches)
    /\ UNCHANGED <<clientVars, batch, solo, checkpointed, commitVars, logVars,
                   storeVars, sharedVars, faultVars>>

\* rx.recv().await
Receive == pc = "idle" /\ Take /\ pc' = "gather"

\* rx.try_recv() while the run holds fewer patches than the batch limit.
Gather == pc = "gather" /\ taken < BatchSize /\ Take /\ pc' = pc

Gathered ==
    /\ pc = "gather"
    /\ taken >= BatchSize \/ inbox = <<>>
    /\ pc' = "drain"
    /\ taken' = 0
    /\ UNCHANGED <<clientVars, inbox, queue, batch, solo, checkpointed, commitVars,
                   logVars, storeVars, sharedVars, faultVars>>

-----------------------------------------------------------------------------
(* Actor::drain. *)

Begin(js) ==
    /\ pc' = "fold"
    /\ jobs' = js
    /\ at' = FirstPatch
    /\ last' = watermark
    /\ views' = <<>> /\ records' = <<>> /\ entries' = <<>> /\ claim' = 0
    /\ offset' = 0 /\ acks' = [i \in DOMAIN js |-> {}]

DrainAppend ==
    /\ pc = "drain"
    /\ queue # <<>>
    /\ LET r == Head(queue)
           decodes == \A i \in DOMAIN cmd[r].patches : cmd[r].patches[i] \in Patches
       IN  /\ IsAppend(r)
           /\ queue' = Tail(queue)
           /\ batch' = IF decodes THEN Append(batch, r) ELSE batch
           /\ reply' = IF decodes THEN reply
                       ELSE [reply EXCEPT ![r] = Failure("rejected")]
    /\ UNCHANGED <<cmd, ahead, inbox, pc, taken, solo, checkpointed, commitVars,
                   logVars, storeVars, sharedVars, faultVars>>

\* The run is drained, or the next command is a read: commit what is gathered.
Flush ==
    /\ pc = "drain"
    /\ batch # <<>>
    /\ queue # <<>> => ~IsAppend(Head(queue))
    /\ Begin(batch)
    /\ batch' = <<>>
    /\ UNCHANGED <<clientVars, inbox, queue, taken, solo, checkpointed, logVars,
                   storeVars, sharedVars, faultVars>>

Drained ==
    /\ pc = "drain"
    /\ queue = <<>> /\ batch = <<>>
    /\ pc' = "idle"
    /\ UNCHANGED <<clientVars, inbox, actorVars, commitVars, logVars, storeVars,
                   sharedVars, faultVars>>

\* A read at the head of the queue with no append left ahead of it.
Reading(kinds) ==
    /\ pc = "drain"
    /\ queue # <<>> /\ batch = <<>>
    /\ cmd[Head(queue)].kind \in kinds
    /\ queue' = Tail(queue)

AnswerView ==
    /\ Reading({"view", "view_at"})
    /\ LET r == Head(queue)
           latest == cmd[r].kind = "view"
           v == IF latest THEN Version ELSE cmd[r].at
       IN  reply' = [reply EXCEPT ![r] =
               IF latest \/ Retained(v)
                 THEN Reply("ok", {v}, synced,
                            IF Reducible THEN mem.states[v - mem.base + 1] ELSE Zero)
                 ELSE Failure("out_of_range")]
    /\ UNCHANGED <<cmd, ahead, inbox, pc, taken, batch, solo, checkpointed, commitVars,
                   logVars, storeVars, sharedVars, faultVars>>

-----------------------------------------------------------------------------
(* Log::checkpoint over the storage contract, one disjunct per outcome. *)

Fault(f) == f \in Faults /\ faults < MaxFaults /\ faults' = faults + 1

\* Segments the header covers are dropped, never beyond the version after it.
Reclaim == \E f \in floor..(Version + 1) : floor' = f

\* Seeded bug: the header is published without the flush ahead of it.
CheckpointUnflushed ==
    /\ header' = [version |-> Version, state |-> Current]
    /\ Reclaim
    /\ synced' = watermark
    /\ UNCHANGED <<mem, watermark, stored, durable, residue, faults>>

Checkpoint ==
    /\ durable' = Len(stored)
    /\ header' = [version |-> Version, state |-> Current]
    /\ Reclaim
    /\ synced' = watermark
    /\ UNCHANGED <<mem, watermark, stored, residue, faults>>

\* Failed before the header is published; the flush ahead of it may have worked.
CheckpointRefused ==
    /\ Fault("header")
    /\ durable' \in {durable, Len(stored)}
    /\ UNCHANGED <<logVars, stored, header, floor, residue>>

\* The header is published and a later step fails: the directory sync, an
\* unlink, or the second flush.
CheckpointLate ==
    /\ Fault("late_header")
    /\ durable' = Len(stored)
    /\ header' = [version |-> Version, state |-> Current]
    /\ Reclaim
    /\ UNCHANGED <<logVars, stored, residue>>

AnswerCheckpoint ==
    /\ Reading({"checkpoint"})
    /\ \/ /\ Checkpoint
          /\ checkpointed' = watermark
          /\ reply' = [reply EXCEPT ![Head(queue)] = Reply("ok", {}, 0, Zero)]
       \/ /\ CheckpointRefused \/ CheckpointLate
          /\ checkpointed' = checkpointed
          /\ reply' = [reply EXCEPT ![Head(queue)] = Failure("storage")]
    /\ UNCHANGED <<cmd, ahead, inbox, pc, taken, batch, solo, commitVars, sharedVars,
                   crashes, cuts, opened>>

-----------------------------------------------------------------------------
(* Actor::commit and Actor::isolate around Log::append. *)

\* After a commit: the next request of an isolated batch, or back to `drain'.
Proceed ==
    IF solo # <<>>
      THEN Begin(<<Head(solo)>>) /\ solo' = Tail(solo)
      ELSE /\ pc' = "drain"
           /\ jobs' = <<>> /\ at' = FirstPatch /\ last' = watermark /\ claim' = 0
           /\ views' = <<>> /\ records' = <<>> /\ entries' = <<>>
           /\ offset' = 0 /\ acks' = <<>>
           /\ solo' = solo

\* Seeded bug: a batch that fails takes all its requests down.
IsolateNone(code) ==
    /\ reply' = [r \in Req |-> IF \E i \in DOMAIN jobs : jobs[i] = r
                                 THEN Failure(code) ELSE reply[r]]
    /\ Proceed

\* Seeded bug: only the first request of the failed batch is tried again.
IsolateFirst(code) ==
    IF Len(jobs) = 1
      THEN /\ reply' = [reply EXCEPT ![jobs[1]] = Failure(code)]
           /\ Proceed
      ELSE Begin(<<Head(jobs)>>) /\ UNCHANGED <<solo, reply>>

\* Log::append failed: one request hears of it, several are committed again
\* one by one.
Isolate(code) ==
    IF Len(jobs) = 1
      THEN /\ reply' = [reply EXCEPT ![jobs[1]] = Failure(code)]
           /\ Proceed
      ELSE /\ Begin(<<Head(jobs)>>)
           /\ solo' = Tail(jobs)
           /\ reply' = reply

\* Seeded bug: the batch takes the durability of its first job.
BatchDurabilityFirst == cmd[jobs[1]].durability

\* The batch takes the strongest durability any of its jobs asked for.
BatchDurability ==
    LET ranks == {cmd[jobs[i]].durability : i \in DOMAIN jobs}
    IN  CHOOSE d \in ranks : \A e \in ranks : e <= d

InBatch == pc = "fold" /\ at.job <= Len(jobs)
Job == jobs[at.job]
Remaining == at.patch <= Len(cmd[Job].patches)
Patch == cmd[Job].patches[at.patch]

\* One patch of the fold: stage, commit, and a record if it minted a version.
FoldPatch ==
    /\ InBatch
    /\ Remaining
    /\ Apply[Patch][Current] # Rejected
    /\ LET mints == Mints(Patch, Current)
           next == Apply[Patch][Current]
           version == IF mints THEN Version + 1 ELSE Version
       IN  /\ mem' = IF mints THEN [mem EXCEPT !.states = Append(@, next)] ELSE mem
           /\ records' = IF mints
                THEN Append(records, [version |-> version, patch |-> Patch, req |-> Job,
                                      state |-> next])
                ELSE records
           /\ views' = Append(views, [version |-> version, patch |-> Patch, req |-> Job])
    /\ at' = [at EXCEPT !.patch = @ + 1]
    /\ UNCHANGED <<clientVars, inbox, pc, actorVars, jobs, last, offset, acks, entries,
                   claim, watermark, synced, storeVars, sharedVars, faultVars>>

NextJob ==
    /\ InBatch
    /\ ~Remaining
    /\ at' = [job |-> at.job + 1, patch |-> 1]
    /\ UNCHANGED <<clientVars, inbox, pc, actorVars, jobs, last, views, records, offset,
                   acks, entries, claim, logVars, storeVars, sharedVars, faultVars>>

\* A refused patch takes the whole batch back out of memory.
RejectPatch ==
    /\ InBatch
    /\ Remaining
    /\ Apply[Patch][Current] = Rejected
    /\ mem' = Truncate(last)
    /\ Isolate("rejected")
    /\ UNCHANGED <<cmd, ahead, inbox, queue, taken, batch, checkpointed, watermark,
                   synced, storeVars, sharedVars, faultVars>>

\* Nothing minted means nothing to write, and nothing to sync either.
Folded ==
    /\ pc = "fold"
    /\ at.job > Len(jobs)
    /\ pc' = IF records = <<>> THEN "assign" ELSE "write"
    /\ at' = FirstPatch
    /\ UNCHANGED <<clientVars, inbox, actorVars, jobs, last, views, records, offset, acks,
                   entries, claim, logVars, storeVars, sharedVars, faultVars>>

\* A store refuses a batch that does not continue its own versions, and every
\* batch once a failed append left residue above the end.
Writable == residue = <<>> /\ records[1].version = Len(stored) + 1

Write ==
    /\ pc = "write"
    /\ Writable
    /\ stored' = stored \o records
    /\ watermark' = records[Len(records)].version
    /\ pc' = IF BatchDurability = Durable THEN "sync" ELSE "assign"
    /\ UNCHANGED <<clientVars, inbox, actorVars, commitVars, mem, synced, durable,
                   header, floor, residue, sharedVars, faultVars>>

\* storage.append fails: memory goes back to the watermark.  A store that
\* could not erase what it had written keeps the residue.
WriteFails ==
    /\ pc = "write"
    /\ \/ ~Writable /\ UNCHANGED <<faults, residue>>
       \/ Writable /\ Fault("write") /\ residue' = residue
       \/ Writable /\ Fault("cleanup") /\ residue' = records
    /\ mem' = Truncate(last)
    /\ Isolate("storage")
    /\ UNCHANGED <<cmd, ahead, inbox, queue, taken, batch, checkpointed, watermark,
                   synced, stored, durable, header, floor, sharedVars, crashes, cuts, opened>>

Sync ==
    /\ pc = "sync"
    /\ durable' = Len(stored)
    /\ synced' = watermark
    /\ pc' = "assign"
    /\ UNCHANGED <<clientVars, inbox, actorVars, commitVars, mem, watermark, stored,
                   header, floor, residue, sharedVars, faultVars>>

\* The records stay, in storage and in memory, and the batch fails all the same.
SyncFails ==
    /\ pc = "sync"
    /\ Fault("sync")
    /\ Isolate("storage")
    /\ UNCHANGED <<cmd, ahead, inbox, queue, taken, batch, checkpointed, logVars,
                   storeVars, sharedVars, crashes, cuts, opened>>

\* The views of the appended batch, handed out job by job: each job has as many
\* of them as patches, from a running offset on.  A version is new if it is
\* above every version seen so far; the job is told of it, and its patch is
\* fanned out under it.
Assign ==
    /\ pc = "assign" /\ at.job <= Len(jobs)
    /\ Remaining
    /\ LET version == views[offset + at.patch].version
       IN  IF version > last
             THEN /\ acks' = [acks EXCEPT ![at.job] = @ \cup {version}]
                  /\ entries' = Append(entries, [version |-> version, patch |-> Patch,
                                                 req |-> Job])
                  /\ last' = version
             ELSE UNCHANGED <<acks, entries, last>>
    /\ at' = [at EXCEPT !.patch = @ + 1]
    /\ UNCHANGED <<clientVars, inbox, pc, actorVars, jobs, views, records, offset, claim,
                   logVars, storeVars, sharedVars, faultVars>>

\* Seeded bug: the offset into the batch is not advanced from job to job.
NextShareStays ==
    /\ pc = "assign" /\ at.job <= Len(jobs)
    /\ ~Remaining
    /\ at' = [job |-> at.job + 1, patch |-> 1]
    /\ UNCHANGED <<clientVars, inbox, pc, actorVars, jobs, last, views, records, offset,
                   acks, entries, claim, logVars, storeVars, sharedVars, faultVars>>

NextShare ==
    /\ pc = "assign" /\ at.job <= Len(jobs)
    /\ ~Remaining
    /\ offset' = offset + Len(cmd[Job].patches)
    /\ at' = [job |-> at.job + 1, patch |-> 1]
    /\ UNCHANGED <<clientVars, inbox, pc, actorVars, jobs, last, views, records, acks,
                   entries, claim, logVars, storeVars, sharedVars, faultVars>>

\* Actor::publish, first the ring.  The frontier the acknowledgements carry is
\* read before it.
Push ==
    /\ pc = "assign" /\ at.job > Len(jobs)
    /\ claim' = synced
    /\ views' = <<>>
    /\ ring' = RingPush(ring, entries)
    /\ pc' = IF entries = <<>> THEN "acknowledge" ELSE "announce"
    /\ UNCHANGED <<clientVars, inbox, actorVars, jobs, at, last, records, offset, acks,
                   entries, logVars, storeVars, published, oldest, faultVars>>

\* Seeded bug: subscribers are shown the synced frontier.
AnnounceSynced ==
    /\ pc = "announce"
    /\ published' = synced
    /\ pc' = "floor"
    /\ UNCHANGED <<clientVars, inbox, actorVars, commitVars, logVars, storeVars, ring,
                   oldest, faultVars>>

\* Then the watermark subscribers wait on.
Announce ==
    /\ pc = "announce"
    /\ published' = watermark
    /\ pc' = IF CheckpointEvery > 0 /\ watermark - checkpointed >= CheckpointEvery
               THEN "checkpoint" ELSE "floor"
    /\ UNCHANGED <<clientVars, inbox, actorVars, commitVars, logVars, storeVars, ring,
                   oldest, faultVars>>

\* Then the automatic checkpoint, whose failure is only logged.
AutoCheckpoint ==
    /\ pc = "checkpoint"
    /\ \/ Checkpoint /\ checkpointed' = watermark
       \/ (CheckpointRefused \/ CheckpointLate) /\ checkpointed' = checkpointed
    /\ pc' = "floor"
    /\ UNCHANGED <<clientVars, inbox, queue, taken, batch, solo, commitVars, sharedVars,
                   crashes, cuts, opened>>

\* And the retention floor, once the checkpoint has moved it.
PublishFloor ==
    /\ pc = "floor"
    /\ oldest' = floor
    /\ pc' = "acknowledge"
    /\ UNCHANGED <<clientVars, inbox, actorVars, commitVars, logVars, storeVars, ring,
                   published, faultVars>>

\* One acknowledgement of the batch, in the order of its jobs.
Acknowledge ==
    /\ pc = "acknowledge"
    /\ reply' = [reply EXCEPT ![Head(jobs)] = Reply("ok", Head(acks), claim, Zero)]
    /\ IF Len(jobs) > 1
         THEN /\ jobs' = Tail(jobs) /\ acks' = Tail(acks)
              /\ UNCHANGED <<pc, solo, at, last, views, records, offset, entries, claim>>
         ELSE Proceed
    /\ UNCHANGED <<cmd, ahead, inbox, queue, taken, batch, checkpointed, logVars,
                   storeVars, sharedVars, faultVars>>

-----------------------------------------------------------------------------
(* Stopping and recovering. *)

\* Records whose bytes may have landed above the logical end of the store.
InFlight == IF residue # <<>> THEN residue
            ELSE IF pc = "write" THEN records ELSE <<>>

\* A contiguous prefix of what was in flight survives.  A power cut also drops
\* any suffix of what was not yet on stable storage.
Crash(kind) ==
    /\ pc # "down"
    /\ crashes < MaxCrashes
    /\ kind \in CrashKinds
    /\ crashes' = crashes + 1
    /\ LET written == stored \o InFlight
           least == IF kind = "power" THEN durable ELSE Len(stored)
       IN  \E n \in least..Len(written) : stored' = SubSeq(written, 1, n)
    /\ cuts' = IF kind = "power" THEN cuts + 1 ELSE cuts
    /\ residue' = <<>>
    /\ reply' = [r \in Req |-> IF reply[r].status = "queued" THEN Failure("lost")
                               ELSE reply[r]]
    /\ pc' = "down"
    /\ inbox' = <<>> /\ queue' = <<>> /\ batch' = <<>> /\ jobs' = <<>> /\ solo' = <<>>
    /\ taken' = 0 /\ checkpointed' = 0
    /\ at' = FirstPatch /\ last' = 0 /\ claim' = 0
    /\ views' = <<>> /\ records' = <<>> /\ offset' = 0 /\ acks' = <<>> /\ entries' = <<>>
    /\ mem' = Empty /\ watermark' = 0 /\ synced' = 0 /\ opened' = 0
    /\ ring' = <<>> /\ published' = 0 /\ oldest' = 0
    /\ UNCHANGED <<cmd, ahead, durable, header, floor, faults>>

\* Seeded bug: replay starts one record too early.
LoadRepeats ==
    /\ pc = "down"
    /\ mem' = [base |-> IF header.version = 0 THEN 0 ELSE header.version - 1,
               states |-> <<header.state>>]
    /\ durable' \in {durable, Len(stored)}
    /\ pc' = "replay"
    /\ UNCHANGED <<clientVars, inbox, actorVars, commitVars, watermark, synced, stored,
                   header, floor, residue, sharedVars, faultVars>>

\* Storage::load: the header, and every record above it.  Only `sync' promises
\* that records are on stable storage: recovery flushes a segment when there is
\* something to cut off its end, and otherwise leaves it as it was.
Load ==
    /\ pc = "down"
    /\ mem' = [base |-> header.version, states |-> <<header.state>>]
    /\ durable' \in {durable, Len(stored)}
    /\ pc' = "replay"
    /\ UNCHANGED <<clientVars, inbox, actorVars, commitVars, watermark, synced, stored,
                   header, floor, residue, sharedVars, faultVars>>

\* Storage that will not open leaves an actor that refuses every command.
LoadFails ==
    /\ pc = "down"
    /\ Fault("open")
    /\ pc' = "refused"
    /\ UNCHANGED <<clientVars, inbox, actorVars, commitVars, logVars, storeVars,
                   sharedVars, crashes, cuts, opened>>

\* A record that does not replay to its own version refuses the log.
Replayable(p) == Apply[p][Current] # Rejected /\ Mints(p, Current)

Replay ==
    /\ pc = "replay"
    /\ Version < Len(stored)
    /\ LET p == stored[Version + 1].patch
       IN  IF Replayable(p)
             THEN /\ mem' = [mem EXCEPT !.states = Append(@, Apply[p][Current])]
                  /\ pc' = pc
             ELSE mem' = mem /\ pc' = "refused"
    /\ UNCHANGED <<clientVars, inbox, actorVars, commitVars, watermark, synced,
                   storeVars, sharedVars, faultVars>>

\* Log::open is done; Actor::new publishes what it recovered.
Recovered ==
    /\ pc = "replay"
    /\ Version >= Len(stored)
    /\ watermark' = Version /\ synced' = Version /\ checkpointed' = Version
    /\ last' = Version
    /\ published' = Version
    /\ opened' = Version
    /\ oldest' = floor
    /\ pc' = "idle"
    /\ UNCHANGED <<clientVars, inbox, queue, taken, batch, solo, jobs, at, views, records,
                   offset, acks, entries, claim, mem, storeVars, ring, faults, crashes,
                   cuts>>

Refuse ==
    /\ pc = "refused"
    /\ inbox # <<>>
    /\ reply' = [reply EXCEPT ![Head(inbox)] = Failure("storage")]
    /\ inbox' = Tail(inbox)
    /\ UNCHANGED <<cmd, ahead, pc, actorVars, commitVars, logVars, storeVars,
                   sharedVars, faultVars>>

-----------------------------------------------------------------------------
\* Every client has its answer and none will ask again.
Quiet ==
    /\ \A r \in Req : reply[r].status \notin {"unsent", "queued"}
    /\ UNCHANGED vars

Drain == DrainAppend \/ Flush \/ Drained \/ AnswerView \/ AnswerCheckpoint
Fold == FoldPatch \/ NextJob \/ RejectPatch \/ Folded
Store == Write \/ WriteFails \/ Sync \/ SyncFails
Publish == Assign \/ NextShare \/ Push \/ Announce \/ AutoCheckpoint \/ PublishFloor \/ Acknowledge
Open == Replay \/ Recovered \/ Refuse
Actor == Receive \/ Gather \/ Gathered \/ Drain \/ Fold \/ Store \/ Publish \/ Open

Next ==
    \/ \E r \in Req, c \in Commands : Submit(r, c)
    \/ Actor
    \/ \E kind \in CrashKinds : Crash(kind)
    \/ Load
    \/ LoadFails
    \/ Quiet

Spec == Init /\ [][Next]_vars

\* A started daemon keeps polling its actors; nothing makes a client send, a
\* machine fail, or a stopped daemon start again.
FairSpec == Spec /\ WF_vars(Actor)
-----------------------------------------------------------------------------
(* Types. *)

Record == [version : Nat, patch : Patches, req : Req, state : States]
Entry == [version : Nat, patch : Patches, req : Req]
Statuses == {"unsent", "queued", "lost", "ok", "rejected", "storage", "out_of_range"}
Points == {"idle", "gather", "drain", "fold", "write", "sync", "assign", "announce",
           "checkpoint", "floor", "acknowledge", "down", "replay", "refused"}

ClientTypes ==
    /\ cmd \in [Req -> Commands \cup {NoCommand}]
    /\ reply \in [Req -> [status : Statuses, versions : SUBSET Nat, synced : Nat,
                          state : States]]
    /\ ahead \in [Req -> SUBSET Req]
ActorTypes ==
    /\ inbox \in Seq(Req) /\ queue \in Seq(Req) /\ batch \in Seq(Req) /\ solo \in Seq(Req)
    /\ pc \in Points
    /\ taken \in Nat /\ checkpointed \in Nat
CommitTypes ==
    /\ jobs \in Seq(Req)
    /\ at \in [job : Nat \ {0}, patch : Nat \ {0}]
    /\ last \in Nat /\ claim \in Nat
    /\ views \in Seq(Entry) /\ records \in Seq(Record) /\ entries \in Seq(Entry)
    /\ offset \in Nat /\ acks \in Seq(SUBSET Nat)
LogTypes ==
    /\ mem \in [base : Nat, states : Seq(States)] /\ mem.states # <<>>
    /\ watermark \in Nat /\ synced \in Nat
StoreTypes ==
    /\ stored \in Seq(Record) /\ residue \in Seq(Record)
    /\ durable \in Nat /\ floor \in Nat
    /\ header \in [version : Nat, state : States]
SharedTypes ==
    /\ ring \in Seq(Entry) /\ published \in Nat /\ oldest \in Nat
    /\ faults \in Nat /\ crashes \in Nat /\ cuts \in Nat /\ opened \in Nat

\* Every variable holds what the code's types let it hold; the structure always
\* has a current snapshot (Store::snapshot unwraps it).
TypeOK ==
    ClientTypes /\ ActorTypes /\ CommitTypes /\ LogTypes /\ StoreTypes /\ SharedTypes

-----------------------------------------------------------------------------
(* Memory, storage and the header agree. *)

StateAt(v) == IF v = 0 THEN Zero ELSE stored[v].state

\* Between batches memory stands exactly at the end of the log (log.rs, "memory
\* never leads the log"): a batch refused by the structure, by the write or by
\* the sync leaves it neither ahead nor behind, and every snapshot a view can
\* name is the one replaying the records gives.
MemoryMatchesLog ==
    /\ \A v \in 1..Len(stored) :
          /\ stored[v].version = v
          /\ Apply[stored[v].patch][StateAt(v - 1)] = stored[v].state
    /\ pc \in {"idle", "gather", "drain"} =>
          Version = Len(stored) /\ watermark = Len(stored)
    /\ pc \notin {"down", "refused"} =>
          \A v \in mem.base..Version :
             v <= Len(stored) => mem.states[v - mem.base + 1] = StateAt(v)

\* The header only covers records on stable storage (storage.rs,
\* Storage::write_header), holds the state they fold to, and licenses the
\* retention floor: no record above it has been dropped.
HeaderIsBacked ==
    /\ header.version <= durable /\ durable <= Len(stored)
    /\ header.state = StateAt(header.version)
    /\ floor <= header.version + 1

\* A log that storage can read always replays (Log::open): no sequence of
\* batches, failures and crashes leaves records the structure refuses or
\* mints under another version.
Reopens == pc = "refused" => "open" \in Faults

-----------------------------------------------------------------------------
(* What an acknowledgement means. *)

Acked(r) == IsAppend(r) /\ reply[r].status = "ok"
Recorded(r) == {v \in 1..Len(stored) : stored[v].req = r}

\* Durability (log.rs 5-17): an acknowledged version is in the log and is the
\* one this request minted, through any process crash; one acknowledged Durable
\* also survives every power cut.
AcksSurvive ==
    \A r \in Req :
        Acked(r) /\ (cmd[r].durability = Durable \/ cuts = 0) =>
            /\ reply[r].versions \subseteq Recorded(r)
            /\ cmd[r].durability = Durable => reply[r].versions \subseteq 1..durable

\* "Highest version on stable storage" (log.rs 103) holds of the records of this
\* process.  Log::open takes what it found for synced, and nothing has flushed
\* that for certain (see the README).
Backed(v) == v <= durable \/ v <= opened

\* The synced frontier a log keeps, and the one an acknowledgement or a view
\* reports, is never above what is on stable storage or was there when the log
\* was opened, whatever checkpoint or batch of another request moves it.
FrontierIsBacked ==
    /\ []Backed(synced)
    /\ [][\A r \in Req : reply'[r] # reply[r] => Backed(reply[r].synced)']_vars

\* An acknowledgement names every version its patches minted, once each: no
\* patch of it is in the log under a version the client was not told.
AckNamesAll == \A r \in Req : Acked(r) => Recorded(r) \subseteq reply[r].versions

\* Code::Storage promises that the append did not happen, Code::Rejected that
\* the structure refused it: neither leaves a record behind.
FailedLeavesNothing ==
    \A r \in Req : reply[r].status \in {"rejected", "storage"} => Recorded(r) = {}

-----------------------------------------------------------------------------
(* Fan-out. *)

Serving == pc \notin {"down", "replay", "refused"}

\* The ring holds consecutive versions.  Ring::read_after finds entries by their
\* distance from the front, so a hole would hand a subscriber the wrong records
\* as if none were missing.
RingHasNoHole == \A i \in DOMAIN ring : ring[i].version = ring[1].version + i - 1

\* Each entry of the ring carries the patch the log has for its version, and
\* between batches the ring and the watermark reach the end of the log.
RingMirrorsLog ==
    /\ RingHasNoHole
    /\ \A i \in DOMAIN ring :
          /\ ring[i].version \in 1..Len(stored)
          /\ ring[i].patch = stored[ring[i].version].patch
    /\ ring # <<>> /\ pc # "announce" => ring[Len(ring)].version = published
    /\ Serving /\ pc \in {"idle", "gather", "drain"} => published = Len(stored)

\* "Fan-out before acknowledgement" (actor.rs 235): a version a client has
\* heard of is already under the watermark subscribers read.
AckIsPublished ==
    \A r \in Req :
        Acked(r) /\ Serving /\ (cmd[r].durability = Durable \/ cuts = 0) =>
            \A v \in reply[r].versions : v <= published

\* What stream tasks read is the log: no hole, no foreign patch, nothing behind
\* what clients were told.
SubscribersSeeTheLog == RingMirrorsLog /\ AckIsPublished

-----------------------------------------------------------------------------
(* Reads and isolation. *)

Viewed(r) == cmd[r].kind \in {"view", "view_at"} /\ reply[r].status = "ok"

\* "A read must observe the appends queued ahead of it" (actor.rs 178): when a
\* view of the latest version is answered, every append sent before it has its
\* answer, and those acknowledged are part of the view.
ReadsSeeAppendsAhead ==
    \A r \in Req : Viewed(r) /\ cmd[r].kind = "view" =>
        \A q \in ahead[r] : IsAppend(q) =>
            /\ reply[q].status # "queued"
            /\ cuts = 0 => \A v \in reply[q].versions, w \in reply[r].versions : v <= w

\* "Nothing observable ever exists that the write-ahead log has not already
\* recorded" (log.rs 27): a view shows a recorded version and its state.
ViewsAreRecorded ==
    \A r \in Req : Viewed(r) /\ cuts = 0 =>
        \A v \in reply[r].versions :
            v <= Len(stored) /\ (Reducible => reply[r].state = StateAt(v))

\* What a client is told is true of the log, for each kind of answer: batching,
\* isolation, failures and the order of the queue never show in one.
AnswersAreTrue ==
    AckNamesAll /\ FailedLeavesNothing /\ ReadsSeeAppendsAhead /\ ViewsAreRecorded

\* Outcome of a request's own patches on a state, as one append would fold them.
Outcome(s, ps) ==
    LET f[n \in 0..Len(ps)] ==
            IF n = 0 THEN s
            ELSE IF f[n - 1] = Rejected THEN Rejected ELSE Apply[ps[n]][f[n - 1]]
    IN  f[Len(ps)]

Decodes(r) == \A i \in DOMAIN cmd[r].patches : cmd[r].patches[i] \in Patches

\* "One rejected patch must not take its batchmates down with it" (actor.rs
\* 243): a request is rejected only if its own patches fail, alone, on the
\* state the log is in.
OnlyTheGuiltyFail ==
    [][\A r \in Req :
         reply[r].status = "queued" /\ reply'[r].status = "rejected" =>
            ~Decodes(r) \/ Outcome(StateAt(Len(stored)), cmd[r].patches) = Rejected]_vars

\* Every command the inbox accepted is answered, or lost with the process: no
\* rejection, storage failure or isolation drops a reply.
Answered == \A r \in Req : reply[r].status = "queued" ~> reply[r].status # "queued"
=============================================================================
