# lug in TLA+

lug is a daemon that keeps write-ahead logs of versioned patches, folds them
into a data structure where a log has one, and streams them to subscribers.
This directory models it from the disk to the client: how a batch gets into a
log, what an acknowledgement means, what a crash leaves in the files, what a
subscriber hears, how the daemon starts and stops, and what the client library
makes of connections that come and go. TLC checks the models on small
instances; TLAPS proves the central invariants of the log, the streams, the
daemon and the HTTP transport for all of them.

## The system

| Component | State | Operations | Talks to |
|---|---|---|---|
| `lug-core` `Log` | structure, watermark, synced frontier | open, append, sync, checkpoint, views | `Reducible`, `Storage` |
| `lug-wal` `SegmentStore` | segment files, header, write handle, poison | append, rotate, sync, write_header, reclaim, load, read_after | file system |
| `lug-server` actor | inbox, log, ring, published watermark and floor | gather, drain, commit, isolate, publish, answer, catch up | sessions (mpsc), streams (ring, `watch`) |
| `ring` | the latest entries | push, read_after | actor writes, streams read |
| `session`, `stream` | stream table, credit, cursor, pending replies, outbox | dispatch, pump, subscribe, credit, cancel, close; push, park, catch up, end | client, actor |
| unix and HTTP transports | connection, one writer per connection, session table | accept, refuse, read, write, steer a stream | session, client |
| registry, startup, cores | open logs, lanes, socket path, data root | bind, discover, create, serve, checkpoint and stop | actors, file system |
| `lug-client` hub, pool, connection, subscription | slots, waiters, sinks, grants | dial, call, resend, forget, subscribe, grant, drop | transports |
| `lug-client` follower | cursor, store, published state, events | open, fold, recover, emit, retry, stop | hub |
| `cavlc` | AVL trees of snapshots, commits | stage, publish, truncate, apply and merge patches | `Log`, follower |

What is hard here: one batch carries several clients' requests and fails as a
whole; write, flush and publication are separate steps with their own failures;
a crash may come between any two system calls; stream tasks read the ring, the
watermark and the floor while the actor moves them; credit, cancel and End cross
each other on a connection; every queue is bounded and tasks wait for each
other's room; a caller gives up while its answer is on the way; two processes
share a data directory during a restart. PROJECT.json lists these hazards line
by line with the properties that cover them.

## Modules

| Module | Models |
|---|---|
| `Ring` | `ring.rs` as operators on a sequence |
| `LogActor` | `actor.rs`, `log.rs` and the contract of `storage.rs`: one log, its actor, its clients, crashes and recovery |
| `LogActor_inv` | the inductive invariants of `LogActor` |
| `LogActor_proofs`, `LogActor_answers` | the proofs about it: types, memory, storage and acknowledgements; ring and answers |
| `Feed` | abstract: what a log shows its subscribers (records, ring, watermark, floor) |
| `LogActorFeed` | the mapping under which `LogActor` implements `Feed` |
| `Subscription` | the subscriptions of one connection, composed with `Feed` |
| `Subscription_proofs` | the proofs about it |
| `SegmentStore` | `lug-wal`, one action per system call |
| `AvlMap` | `avl.rs`: insertion, removal and rotation on explicit trees |
| `Document` | `value.rs` and `patch.rs`: values, patches, their validation, application and merge |
| `CavlcStore` | `mvcc.rs`: the store of snapshots, commits and batches, over the two above |
| `Pipeline` | `session.rs`, `unix.rs` and the inboxes of the actors: a connection from its requests to its replies |
| `Pipeline_proofs` | the proofs about it |
| `Http` | both ends of the HTTP transport, from dial to death of a wire |
| `Http_proofs` | the proofs about it |
| `Daemon` | `lib.rs`, `registry.rs`, `storage.rs`, `cores.rs`, `acl.rs`, `unix.rs`: the life of the process and of its data root |
| `Client` | `hub.rs`, `pool.rs`, `conn.rs`, `sub.rs` over a server that answers |
| `Client_proofs` | the proofs about it |
| `Follower` | `follower.rs` over a log that grows, is reclaimed and may lose its tail |
| `Follower_proofs` | the proofs about it |
| `MC...` | the instances for TLC |

### LogActor

`pc` is where the actor stands in `Actor::run`: `idle`, `gather` (try_recv),
`drain`, then a commit: `fold` (the loop of `Log::append`, one patch per step),
`write`, `sync`, `assign` (the views back to their jobs by a running `offset`, one
a step), `announce`, `checkpoint`, `floor`, `acknowledge`. `acks` has the
versions each job will be told. `queue`, `batch`, `jobs` and `solo` are the commands
taken, the appends gathered, the commit in progress and what `isolate` has yet
to commit alone. `mem` is the structure: a base version and the snapshots from
there up, as `cavlc::Store` keeps them; a `Noop` is the same with
`Reducible = FALSE`. A patch is an element of `Patches` with a function `Apply`;
`Malformed` is what does not decode.

Storage is a sequence `stored`, of which the first `durable` are on stable
storage, a header, the floor, and the `residue` of an append that could not be
erased. Each call of it succeeds or, if its fault is in `Faults`, fails in the
ways the code distinguishes. A crash keeps a prefix of what was in flight; a
power cut also drops any suffix that is not durable. `Load` may find the records
flushed or not: nothing but `sync` promises it.

The fields `req` and `state` of a record, `req` and `patch` of a view, and
`ahead`, `cuts` and `opened` (the version the log was opened with) are history.
One step of the model covers code that holds no lock and awaits nothing in
between, except where a crash or a reader can tell the difference: ring,
watermark and floor are three steps because stream tasks see them.

### Feed and Subscription

`Feed` keeps only what a stream task can see. `LogActorFeed` maps the actor's
variables to it and TLC checks that each step is one of `Feed` or none, so
`Subscription` can build on `Feed` without the actor's internals.

`Subscription` has the client's view of each id, the requests on their way, the
session (one request at a time, its reply waiting for the outbox), the stream
table, the stream tasks and the bounded outbox. A task's `pc` follows
`stream.rs`: `viewing`, `loop`, `starved` (no credit), `waiting` (nothing to
push), `reading`, `asking` (catch-up at the actor), `dry`, `sending`, `exit`,
`ending`. Dropping the sender of the credit is the only cancel signal, as in
the code: `Open(t)` says whether the table still holds it. A client stands at the
cursor it asked for until a frame takes it further; a view that is older than that
cursor takes it nowhere, as the server goes on from the larger of the two.

### SegmentStore

A file is a prologue flag and a sequence of slots, one per record; `files` is
what reads see, `safe` what is on stable storage. `dirs` holds the directory as
it was last flushed and after every change since; a power cut picks one of
them, then lets each unflushed slot turn out old, new or torn. Directory
operations therefore reach the disk in order, as journalling file systems keep
them; nothing else about order is assumed, and in particular a flush of a file
does not flush its directory entry. A flush that succeeds covers everything
written before it, also after one that failed. A cut and its flush are two steps
wherever the code cuts a file, at the seal of a rotation and at the end of a
recovered segment, and so are zeroing and its flush: a process may be killed, or
the flush fail, in between.

`log`, `flushed` and `promise` are the caller's knowledge: what it appended,
what it was told is durable, and what the contract of `Storage::append` allows
a crash to leave. `RecoversAsPromised` is the justification of `Crash` and
`Load` in `LogActor`: the files keep the contract the actor is modelled on,
except in the cases listed under "What the checks show".

### AvlMap, Document, CavlcStore

`AvlMap` keeps the tree itself, heights and sizes included, and rotates it as
the code does. A `Document` is an atom or an object whose fields are such a
tree; a patch has creates, updates (a value or a patch below it) and deletes and
is validated, applied and merged as in `patch.rs`. The reference they are
checked against has no trees: `ToJson` is the plain nested map a document stands
for, `Applies` and `Applied` say what a patch means to one. `CavlcStore` has the store and at most one batch outstanding. Its
actions are `begin_batch`, `Batch::apply`, `apply_batch`, `apply`, `truncate`
and `resume`; `HoldAcrossTruncate` says whether a caller may hold a batch over a
truncation, which `Log` never does.

### Pipeline

One connection: requests on their way (`up`), the session's loop with one
request in `hand`, the inboxes of the logs, the queue of replies to come
(`pending`), the pump that awaits them in order, one stream task, the `outbox`,
the writer, the replies on their way (`down`) and what the client has `heard`.
Every queue has a capacity and every `send().await` waits for room. A
`Stranger` fills inboxes from elsewhere, actors in `Mortal` may stop with
commands unanswered, and a client may be deaf, half-close or vanish. What a
command does to its log is left to `LogActor`: here a log is the order of the
requests it recorded.

### Http

The client's wire is a pump task, a task for each call (`post`) and a reader for
each stream (`task`, with the frame it holds in `hand`), joined by `inbound`,
by `dead`, and by `sessions`, the watch a steering call waits on. The server has
the `table` of sessions, the SSE `body` of each, the stream task and its
`outbox`. `TurnAway` is the 401 of a bad token and the 500 of a server without
randomness for a session name; `StreamBreaks` and `CallBreaks` are a connection cut
at any point of head or body. Calls have bodies of a known length only; chunked
bodies are those of streams. With an outbox of one, a refused Subscribe waits for
room behind its own Welcome, before there is a body to read it: a `stuck` body.

### Daemon

A process goes through the phases `bound`, `starting` (discover and reopen),
`serving`, `stopping` (one checkpoint after the other), `unlinked` and
`stopped`, or is `dead`. `making` is the create that holds the registry's mutex,
at the directory, at its kind file or at the place on a core's lane; `reg` says
of each log whether it is absent, queued, spawned, open or refused; `disk` has
the directory of each log, its kind, its records and what its header covers;
`holder` is the directory lock of `SegmentStore`. `path` is the process the
socket path leads to: a second daemon may take it over while the first still
runs. Clients connect through it if the access list lets them and ask for
creation and appends. `Mishaps` names what may go wrong: failing system
calls, a full lane, kills, power cuts.

### Client

`slot` is the supervisor of a pool slot; `conn` the connection task with its
command queue, waiters, write queue and the wire in both directions; `call` a
caller with its attempt and its deadline; `sub` a consumer with its sink, window
and grants owed; `server` the other end of each subscription. An attempt has an
id of its own, so an answer to an abandoned attempt can be told apart. Deadlines
may pass at any moment. `LoseWire` takes the wire and any part of the frames not
read off it; what was sent may still be read by the server, a call then being
carried out unseen and a request of a stream meeting a session that is closing
(`ReadUnseen`).

### Follower

The task's `phase` follows `Task::run`, `session`, `fold`, `recover`; a fold
takes one record a step. A read that fails opens the stream again, ends the
session for a while or ends the follower, as its error is transient, retryable or
final. `held` is its private cursor, store and dropped events,
`state`, `versions` and `events` what it publishes, in the three steps the code
takes. A document is the sequence of patches folded into it, so the same version
of two histories can be told apart. `stream` is the server's task as far as
`Subscription` allows it to behave.

## Runs

| Run | Bounds | Checks |
|---|---|---|
| `log_store` | 3 requests of 6 commands, batches of 2, ring 2, 1 fault, 1 crash | `AnswersAreTrue`, `SubscribersSeeTheLog`, `Reopens`, `OnlyTheGuiltyFail`, `ImplementsFeed` |
| `log_faults` | 2 requests of 7 commands, batches of 4, every storage call may fail, 2 faults, 2 crashes, fair actor | `MemoryMatchesLog`, `HeaderIsBacked`, `AcksSurvive`, `FrontierIsBacked`, `Answered` |
| `segments` | 4 versions, batches of 2, segments of 2, any 2 faults, 2 crashes | `KeepsWhatWasAppended`, `OpensUnlessUnfinished`, `RecoversAsPromised` |
| `streams` | 1 id used twice, ring 1, log of 2, credit 2, outbox 1, 1 failure, cursors from before to beyond the log's end, fair tasks | `HearsTheLog`, `WithinCredit`, `FinalFreesTheId`, `Delivered`, `UnwantedStreamsEnd` |
| `cavlc` | 5 root keys and an object below one, 18 patches, 2 versions, batches of 2 | `TreesAreSound`, `PatchesMeanWhatTheySay`, `MergeIsComposition`, `HistoryIsTheLog` |
| `client` | 1 call with 1 resend, 1 stream of 2 records and window 1, 1 slot, 2 dials, queues of 1 | `ExchangesMatch`, `CreditIsConserved`, `CallsReturn`, `StreamsFlow`, `DroppedIsCancelled` |
| `follower` | log of 3 with and without a view, 1 power cut, 1 lost stream, sink 2, 1 event | `ShowsTheLog`, `EventsAreComplete`, `CatchesUp` |
| `daemon` | 2 processes, 2 clients, 1 log asked for in both shapes and a stray directory, 1 mishap of 4 kinds, 3 requests | `OneHistory`, `LogsOutliveRestart`, `StopCovers`, `NeverWedged` |
| `http` | 1 stream of 2 records, a grant, a cancel and a call, queues of 1, outbox 2, 1 broken connection | `SteeringIsSafe`, `NothingIsLost`, `WireSettles` |
| `pipeline` | 4 programs of 3 requests to 2 logs, one of which may stop; inbox and pump queue of 2, all else 1 | `OrderedExchange`, `Answered`, `ConnectionsEnd` |
| `failed_sync_reported` | 2 requests, 1 failing flush | `FailedLeavesNothing`, violated |
| `kind_lost` | 2 processes, 1 client, 1 power cut | `ReopensTheSameWay`, violated |

Several properties are conjunctions of named parts, each with its own comment
in the module: `AnswersAreTrue`, for instance, is about acknowledgements,
failures and the two ways a read can be wrong. Where a bundle begins with
`TypeOK` the types of the module are checked with it; those of `LogActor` are
proved.

Why these bounds are enough to be interesting. Three requests give a batch of
two that conflicts and a third that comes before, inside or after it; the
structure has a key that can be created and deleted, so any two patches may
conflict, and a patch that changes nothing. A ring of one or two entries
overflows with the second batch. Segments of two slots make the second or third
append rotate and a batch of two outgrow its file; two crashes allow a cut
after a recovery, two faults a failed append whose erasure also fails. An outbox
of one frame and one request on its way make every wait happen. Five keys build
trees of height three, in which a removal rebalances; one resend and two dials
let an answer of the first attempt race with the second; a follower's log of
three has a version before, at and after a gap; two processes are a restart that
overlaps; a connection of three requests has one executing, one waiting and one
not yet read. Requests of `log_store` and processes of `daemon` are
interchangeable, so their permutations are a symmetry of these runs, which check
no liveness of them; the runs with fairness use none.

Deadlock is checked where the program never comes to rest. The client, the
follower, the wire, the connection and the daemon do end, and their runs allow
it; that they do not end too early is what their liveness properties, and
`NeverWedged`, are for.

Every property has a seeded bug: an operator marked so, placed before the
definition it distorts, with which TLC finds the property violated.

### Fairness

Weak fairness throughout, of steps a tokio task takes when it can run: a task
that is woken is polled. Nothing is assumed of a client's wish to send, of
faults, crashes and restarts, or of a deadline passing, except where noted.

- `log_faults`: the actor as a whole.
- `streams`: publication, each stream task, the session, the writer, and a
  client that reads.
- `client`: the supervisors' reaction to a lost connection (not dialling), the
  connection tasks, callers, a consumer that polls, and a server that answers on
  a wire that lives.
- `follower`: the follower's task, the server's stream task, and a consumer
  that takes its events.
- `http`: the pump, the readers, the calls including the timer of a session wait,
  the server's sessions, and the hub's reading.
- `pipeline`: session, pump, writer, stream task and actors, and clients that are
  not deaf.
- `daemon`: none. `NeverWedged` says instead that whoever waits can be brought
  one step nearer, each such step being possible only finitely often.

## What the checks show

The properties of the passing runs hold in all of their instances. Two runs show
the code doing something else than it says:

- A failed flush is reported as `Code::Storage`, documented as "the append did
  not happen", with the records in the log (`failed_sync_reported`). A failed
  batch of several requests is committed again by `isolate`, so patches that
  still apply are recorded twice.
- The kind of a log is written and renamed without a flush: after a power cut a
  reducible log may come back as a plain one, and reopening it writes that down
  (`kind_lost`).

The following were met while modelling. Most are exclusions in a property or a
property a module keeps without a run, because it does not hold.

Log and storage:

- The records of a batch whose flush failed are never pushed into the ring
  (`actor.rs` 197), whose readers count on consecutive versions
  (`ring.rs` 63-69, against `lug-proto` `lib.rs` 150). `SubscribersSeeTheLog` is
  checked without failing flushes.
- A reducible stream opened with a cursor above the log's version hears the older
  view and then only what comes after the cursor (`stream.rs` 63): the records
  between are in neither, and `RecordsFollowTheView` does not hold. After a power
  cut a follower is in this position; `CatchesUp` sets it apart (`Shadowed`),
  and `HearsTheLog` speaks of what comes after the cursor.
- A process killed while a segment file has no prologue yet leaves a log that
  does not open: `AlwaysOpens` does not hold, `OpensUnlessUnfinished` does.
- A rotation that fails to seal its segment makes the next `sync` report success
  without a flush: `FlushedIsStable` holds only without it (`Covering`).
- A segment adopted by recovery before its directory entry was flushed can be
  lost with what is synced into it later (`Covering` again).
- Recovery flushes a segment only if there is something to cut off it (`lib.rs`
  301). It takes a file that already ends at its records as it is: one filled to
  its last slot, one cut by a rotation that was killed before its flush (346), or
  one cut by a recovery that was killed, or whose fsync failed, before its own
  (402). `Log::open` then sets `synced` to versions that a power cut can still
  take, against `log.rs` 103 ("Highest version on stable storage").
  `FrontierIsBacked` therefore lets a frontier stand at what the log was opened with, and
  `RecoversAsPromised` speaks of the records below the last segment and, if this
  recovery cut that segment and flushed it (`trimmed`), of all.
- In the last of these cases what the first recovery cut off is still on stable
  storage (`Leftover`), against `lib.rs` 398 ("so a second crash recovers to the
  same place"): after a power cut it comes back, behind or in place of records
  appended since. `Covering` excludes logs recovered from such a file.
- A failed unlink followed by a successful one leaves a gap between segment
  files and a log that does not open.
- `read_after` shows the residue of a poisoned store.
- A stream that fails sends End after an Error that was final, and the Ok of a
  grant may follow. A gap reported below the floor may span versions the ring
  still holds. A cancelled stream with credit goes on pushing until it has to
  wait.

cavlc:

- `truncate` promises that batches on a discarded version are refused. One that
  is held until the version has been minted again is published on it
  (`DiscardedNeverPublish` with `HoldAcrossTruncate = TRUE`). `Log` drops its
  batch before it truncates.

Client and follower:

- A sink is sized for the records of a window; gaps and views take its places
  too, so a well-behaved server can overrun a slow consumer (`NeverOverrun`,
  against `conn.rs` 194).
- A Forget that finds the command queue full is lost and its waiter stays until
  an answer comes or the connection ends.
- A follower whose events nobody takes stops at the first gap it has to announce
  and does not catch up (`Reader = FALSE`), while `follower.rs` 71-73 and its
  example do not ask for a reader. A dropped event is announced only with the
  next one.
- `Follower::json` is cached by version alone: after a power cut it may render
  the lost log (`CacheIsCurrent`). A cut during `recover` may fold old records
  onto a new view until the next one is adopted. A clean shutdown sends End, and
  followers then stop for good instead of reconnecting.

HTTP:

- A grant or cancel that crosses the end of its stream is answered with a 400,
  and a failed call ends the whole wire with every stream on it
  (`SteeringKeepsTheWire`); over a unix socket nothing would happen.
- The connection and the table entry of a stream that is over stay until the wire
  dies (`OnlySubscriptionsHold`).
- `limits.outbox` may be 1 (`config.rs` 77 does not check it). A refused Subscribe
  over GET then waits for its own outbox before anybody reads it, and its session
  stays in the table after the wire has died: with `Outbox = 1`, `DeathIsTotal` does
  not hold, which is why `WireSettles` asks for more than one. The safety
  properties and `CallsEnd` hold of both, and the proofs are for any outbox.
- A body without a length, or chunked and cut between two chunks, reads as
  ended. A call that hangs keeps `inbound` open after the wire is dead.

Connections:

- A client that closes its sending side and does not read keeps its permit for
  as long as it keeps the socket; `ConnectionsEnd` is about the others.
- A stream task that waits does not notice that its actor has stopped: the watch it
  waits on is kept by the task's own handle (`registry.rs` 19-26). It leaves when
  its credit is dropped with the connection, and `ConnectionsEnd` rests on that.

Daemon:

- A start that fails after the bind leaves the published path on a dead socket
  (`PathIsAlive`). A directory under the data root whose name is no log name, a
  `lost+found` for instance, makes every start fail; so does a core whose lane
  of 64 is full.
- A create that fails after `remember` leaves a log on disk that this process
  does not serve. A kill between the directory and its kind makes an
  unacknowledged log come back as a plain one.
- Where a restart overlaps with the old process, logs the old one holds are
  refused for the life of the new one, its shutdown unlinks the new socket, its
  last creates are unknown to the new one, and `remember` rewrites kinds without
  the log's lock. `ShapeOutlivesRestart` is about restarts that do not overlap.
- Connections go on appending behind the shutdown's checkpoint, which therefore
  covers what was acknowledged when the signal came and not more. The entry of a
  log in the data root is never flushed.

## Proofs

Proved for every value of the constants that satisfies the ASSUMEs of the
modules: any number of requests, commands, logs, processes and clients, any
structure, any limits; the theorems about streams have one more assumption, which
is stated with them. The invariants below were checked with TLC, as invariants
of the runs' instances, before they were proved.

### LogActor

| Theorem | Property | Faults excluded |
|---|---|---|
| `LogActor_proofs!TypeCorrect` | `TypeOK` | none |
| `LogActor_proofs!MemoryFollowsLog` | `MemoryMatchesLog` | none |
| `LogActor_proofs!HeaderBacked` | `HeaderIsBacked` | none |
| `LogActor_proofs!FrontierBacked` | `FrontierIsBacked` | none |
| `LogActor_proofs!AlwaysReopens` | `Reopens` | none |
| `LogActor_proofs!AcksHold` | `AcksSurvive` | none |
| `LogActor_answers!ReadsHold` | the two parts of `AnswersAreTrue` about reads | none |
| `LogActor_answers!SubscribersFollowLog` | `SubscribersSeeTheLog` | `sync` |
| `LogActor_answers!AnswersHold` | `AnswersAreTrue` | `sync`, `cleanup` |
| `LogActor_answers!FeedIsImplemented` | `ImplementsFeed` | `sync` |

The faults excluded are those under which the property is false. A flush that
fails after the write leaves records the actor neither publishes nor
acknowledges, and isolation may record them again (`failed_sync_reported`); a
failed write whose cleanup fails too leaves records a crash adopts although
their client was told that nothing happened. Everything else may fail.

None of these properties is inductive alone. Each rests on what the state looks
like in the middle of a commit, and the invariants say so:

- `IInv`, for memory and storage. `Bookkeeping`: whatever waits for the actor
  was sent, whatever is to be folded was decoded, a commit has a job and a write
  has a record. `Agreement`: the log is a chain (each record is what folding its
  patch into the state before it gives, under the next version) and stays one if
  a crash adopts the residue above its end; during a fold the log continued by
  the records folded so far is a chain too, and memory holds exactly its states,
  so `Truncate(last)` undoes a failed batch and a crash in the write leaves
  something that replays; elsewhere memory ends where the log ends, and in a
  replay it holds a prefix. `Backing`: the header and the durable prefix, the
  floor, and the synced frontier kept or about to be reported, which is on stable
  storage or no higher than what the log was opened with; nothing here assumes that
  recovery flushes. `Laid`: the views of a batch lie job by job, those of a job
  from the sum of the patches ahead of it up, and the running offset of `Assign`
  is where those of its job begin. A sum over a sequence would need induction, so
  `Laid` says that there is a sequence of partial sums (`Spread`), which each fold
  step extends by one.
- `AckInv` adds whose the versions are. `Minted`: the views still to be assigned
  climb to the end of the log in steps of at most one, and the entries assigned
  so far are the records from the start of the batch up; a patch that minted
  nothing repeats a version and gets no entry. `Allotted`: what a job is told of
  are records of this commit and its own, which follows from `Laid`: the view at
  the offset is the one its own patch produced. `Hardened`: past its sync, a batch with a durable job has
  all its records on stable storage.
- `ReadInv` adds the order. `Line` is everything that waits, in the order it will
  be answered: the jobs of the commit, what `isolate` has yet to commit, the
  batch, the queue, the inbox. Every step leaves it alone, appends to it, takes
  one request out with an answer, or empties it (a crash), so it stays in the
  order of sending (`InOrder`) and holds exactly the unanswered. When a view is
  answered it is at the front, hence everything sent ahead of it has its answer.
- `AnswerInv` adds `Accounted`: every record of the log was acknowledged under
  its version, or its request was lost with the process, or the commit under way
  is about to acknowledge it.
- `RingInv` adds `FannedOut`: the ring holds the records up to the watermark
  without a hole, and the watermark is the end of the log less what the commit
  under way has not announced.

The refinement maps the actor step by step: `Write` is `Commit` of `Feed`, `Push` is
`PushEntries`, `Announce` is `AnnounceWatermark`, a checkpoint that reclaims is
`ReclaimTo`, a crash is `Stop` and `Recovered` is `Restart`; everything else shows
subscribers nothing and is a stutter. It rests on `RingInv`, which says where the
watermark and the ring stand when each of these happens, and on `Fits` (the ring
is within its capacity and has what is about to be announced). `Feed` bounds its log
and its batches so that TLC can enumerate them, and the actor does not, so the theorem
is about the behaviours within the bounds, whatever they are: `Spec /\ []InBounds =>
ImplementsFeed`. Where a flush fails the records of the batch stay in the log
unannounced, which `Feed` has no step for; hence the same exclusion.

`LogActor_proofs` begins with the types alone, one lemma per action, since the
invariants need sequences and functions to be typed before they can speak of
them. Each action then has one step that it preserves the rest; `Next` is
split by its disjuncts and PTL closes the temporal step. The proofs cover a
`Noop` log (`Reducible = FALSE`), which no run instantiates.

### Daemon

`Daemon_proofs` proves `OneHistory` (`LogsHaveOneHistory`), `LogsOutliveRestart`
(`LogsAreFoundAgain`, its `TypeOK` included) and `StopCovers` (`StopsCover`), all
from one inductive invariant:

- `Control`: a create holds the mutex of a process that starts, for itself, or
  of one that serves, for a client; requests are on open connections, and those
  only to processes that serve;
- `Locked`: exactly the holder of a directory's lock has its log open, and it
  knows every record; a version that is recorded and not yet acknowledged is the
  holder's, and nobody else's;
- `Greatest`: acknowledged versions have a greatest one, so `LastAcked` means
  something however many there are;
- `Kept`: what discover listed is reopened one by one, and what a process owes is
  listed still, being reopened, or registered;
- `Kinded`: where processes do not overlap, off the logs a power cut blurred, the
  kind on disk is the shape of the log wherever it is registered, listed or in
  the making, and the one shape clients were told;
- `Covered`: what a stopping process owes is under a header, or on disk and still
  to be checkpointed.

### Http

`Http_proofs` proves `SteeringIsSafe` (`SteeringHolds`, its `TypeOK` included)
and `NothingIsLost` (`LossHolds`), for any streams, calls, channel and outbox
sizes, window, and bounds on records and breaks. The inductive invariant:

- `Once`: a request is on its way to the pump at most once, after the hub sent
  it and before the pump takes it, so a taken call was `queued` and a taken
  subscription has no reader yet;
- `Opened`: a body, its table entry, its session and its stream are in step; a
  session that was announced has a body that is open or dropped, and a dropped
  body has no stream, which is why a named call that finds no entry is late;
- `Steering`: a call has a name only after a session was found for it, one that
  wants a name goes out without it only when its wait expired, and one that has
  registered and looked in vain has no session to miss;
- `Bounded`: a stream is granted its window and one more by the one call that
  grants it; channels and outboxes keep their limits;
- `Counted`: the records in the outbox, in the reader's hand, on the wire and
  with the hub are at most those pushed, on a dead connection too; without this
  the equation of `NothingIsDropped` would not hold when a body opens.

Records are counted with `Cardinality`; `CountAppend`, `CountTail` and
`CountUnit` say what joining and leaving a channel does to the count, and
`FlowsOn` reduces every step of a live connection to one equation.

### Pipeline

`Pipeline_proofs` proves `OrderedExchange` (`ExchangeHolds`), with `TypeOK`,
`AnsweredOnce`, `RepliesInOrder` and `TakesEffectInOrder` in it, for any
connections and logs, any programs with at most one subscription each, and any
sizes of the queues. Three numbers of a connection carry the argument: the first
request its session has not taken (`Taken`), the first it has not dealt with
(`Passed`) and the first it has not given to an actor (`Issued`). None of them
ever falls.

- `LinedUp`: what waits in the socket, and what the session has in hand, are the
  latest requests, one after the other.
- `Ordered`: the pump's request, its queue and the session's request rise in this
  order, what the pump has sent is below all of them, and an answer stands at one
  place only. Replies of the session itself are not in order with the pump's, so
  they are only told apart.
- `Complete`: while the connection is written to, every request below `Passed` is with
  the pump, in its queue or answered. It fails at the moment the writer does,
  which is why `AnsweredOnce` speaks of connections with a writer.
- `Queued`, `Recorded`, `Decided`: at each log, what is recorded or answered was sent
  before what waits in the inbox, and what waits is unanswered and in order. An
  actor that stops answers nothing out of order because it empties its inbox.
- `Told`: what the pump sent is the answer the actor gave, which never changes.
- `Asking`: a stream has at most one question in an inbox, and has one only while it
  waits for it; a second stream of a connection would break this, so it rests on
  the one subscription a program has.

Each step is first reduced to what it does to a connection's line (`Moved`, one of
nine effects) and to the inboxes; order and completeness are proved from these
effects and not from the actions.

### Subscription

| Theorem of `Subscription_proofs` | Property |
|---|---|
| `HearingHolds` | `HearsTheLog`, its `TypeOK` included |
| `CreditHolds` | `WithinCredit` |
| `FreeingHolds` | `FinalFreesTheId` |

For any ids and any number of tasks, any ring, outbox and push limits, any credit
and any log `Feed` can show while its actor serves (a connection does not outlive
the daemon, so `Stop` and `Restart` of the feed are not steps of it). All three
assume `Final = {"end"}`: the client uses an id again after its End and not before.
The repository's client does not use one twice, its hub counts them up. A client that took an Error
to free its id, as `lug-proto` 27 lets it, could reuse the id while the End of the old
stream is still on its way, and would take that End for the new stream's.

The invariant relates five things that move by themselves: what the client has
heard, the outbox, the stream task, the session's table and the log.

- `Windowed`: the ring is a window of the log that ends at the watermark or, in the
  middle of a commit, at the log's end. A read of the ring and a catch-up at the
  actor are therefore both pieces of the log from the cursor up.
- `Registered`, `Living`: one task at most serves an id, the table knows it until
  it forgets it, and an id that is open at the client is asked for (`Waiting`),
  served, or over, in that order: a Subscribe is on its way only when nothing of an
  earlier stream is left.
- `Chained`: a `Walk` through the outbox takes the client from where it stands to
  where the task stands, and each frame is right at the place where it will be
  heard. A push extends the walk at its end, hearing a frame shortens it at its
  front, and the log only grows under it. This is what makes `Continues`, which looks only at the
  head of the outbox, inductive.
- `Reclaimed`: a gap covers only what was below the floor when it was written, and
  the floor never falls.
- `Credited`: the credit a task knows of and the grants still on their way are at
  most what the client sent; what the client heard, what is on its way and what the
  task holds are at most what it has used. With `used <= granted` (`Tasking`) this
  is `WithinCredit`.
- `Ended`: while nothing fails, nothing is on its way behind the End of a stream,
  neither a frame nor the answer to a request, because the session forgets the
  stream before the task says End and a cancelled client asks nothing more.

Steps are first reduced to what they do to one task and one queue (`AnyStep` and the
predicates before it); each part of the invariant is then proved from these effects
and not from the actions. Records and grants are counted with `Cardinality`.

### Follower

`Follower_proofs` proves `ShowsTheLog` (`ShownHolds`, its `TypeOK` included) and
`EventsAreComplete` (`EventsHold`), for logs, sinks and event queues of any
length, plain and reducible, and any number of lost streams and power cuts. A
follower sees the log only through frames that were sent before the log moved
on, so the inductive invariant is about all that is under way at once: the
sink, the batch being folded, the read being answered and the event being told.

- `Sessions`: between two sessions nothing is under way; a view is the first
  frame of its session and is taken before anything else; an error or an end is
  the last.
- `Suiting`: the follower follows records only of a plain log, and before it
  moves at all it has asked for what the log is. A reducible log without a view
  is still at 0 and has told nobody anything.
- `Eras`: what was sent, and what is held, since the last power cut is a prefix
  of the log. The follower is current from the moment it adopts a view that was
  sent after the cut; until then it may hold the lost history, which is why
  `ViewIsTheLog` says `held.era = cuts`.
- `Lengths`, `Linked`: a document is as long as the version it stands for; the
  frames of the sink, the records of a batch and the cursor of the stream follow
  each other without a hole, and a gap ends at or below the floor.
- `Caught`: a stream is past the log's end only while it has sent nothing but a
  view, since a client may subscribe beyond what a power cut left.
- `Exact`: a plain log is followed version by version; nothing can be skipped
  there without a gap.
- `Covered`: what was told (`Reach`) covers what is held. While events are noted
  as dropped, whatever comes next starts at or after the cursor (`NotBelow`), so
  the note never has to grow downwards past an event that was told; a gap of the
  server starts no later than what was told.
- `Forward`: the version shown is not ahead of the one held, and it is announced
  only behind its state; without power cuts neither goes back.

Neither property mentions the sink, yet neither holds of the next state without
these parts: a fold replaces the view by what the batch said, and an event is
told for versions that were linked before the cut.

### Client

`Client_proofs` proves `ExchangesMatch` (`ExchangesHold`, its `TypeOK` included)
and `CreditIsConserved` (`CreditHolds`), for any number of callers, consumers,
connections and resends, and any depth of the queues, window and log. A sink has
the capacity of its window, as `sub.rs` sizes it up to 4096 records; beyond that
its sink is smaller, which the model does not show. The assumption is `ClientAssumption`: ids of attempts are not ids of streams
(`next_id` counts both up), and the bounds are positive where the code clamps
them. Both properties need the same inductive invariant, `IInv`, because a
request is in a different place at every step: in a command queue, in `pending`,
sent, answered, or forgotten with its waiter still there.

- `Placed`: connections are dialled one after the other and are used up; a
  connection that is gone holds no command, waiter or frame, but what it sent may
  still be read.
- `Apart`, `Homes`: an exchange is opened once, in one queue of one connection,
  and that is the connection its caller or consumer has in hand.
- `Spent`, `Exchanged`: an attempt nobody has sent yet is known nowhere, so the
  id a resend takes is fresh; what was answered or carried out is on its way
  nowhere, also not on a dead connection. These two exclude that an abandoned
  attempt is carried out behind a refusal of it.
- `Answering`: a refusal a caller was told is final. That nothing was carried out
  is not inductive alone: no queue may still hold the attempt either.
- `Waiting`: each waiter, and each request in a command queue that will become
  one, is wanted or has its Forget behind it. A Forget in front of its request
  would leave the waiter for good, so the place in the queue matters.
- `Streaming`: the server knows nothing of a stream before its Subscribe is read;
  a frame or grant of it is on its way only afterwards, and a final frame only if
  it is over at the server or dropped at the client.
- `Listening`: while a stream is up at both ends its connection has a sink for
  it, so records delivered are neither lost nor charged to nobody.
- `Conserved`: the units of credit, wherever they are, are the window while the
  stream is up, and never more than it afterwards. `maybe_grant` therefore never
  asks for more than the window, which is what types the amounts.

What a queue holds of a stream's credit is the number of its `Units`, a set of
pairs of a place and a unit, and not a recursive sum: that it grows by a message's amount when the
message is appended, and shrinks by it when the message is taken, is then
a lemma about cardinalities (`SumAppend`, `SumTail`). Each action is reduced to
what it does to one queue and one exchange; the parts of the invariant are proved from that.

### Left to TLC

The liveness properties, which need fairness, and `NeverWedged`, which needs
ENABLED. `OnlyTheGuiltyFail`, whose reference outcome is a recursive function of
the request's patches, and what `AvlMap`, `Document` and `CavlcStore` compute:
both would need induction over data. Not proved for want of the work it takes:
`KeepsWhatWasAppended`, `OpensUnlessUnfinished` and `RecoversAsPromised` of
`SegmentStore`.

## Not modelled

- The TypeScript client: a second implementation of what `Client` and
  `Subscription` model, in another language with its own scheduling.
- The terminal interface, which renders a follower; the load generator and the
  demo.
- The codec's byte layout and the text of HTTP; configuration parsing; metrics
  and logging; the in-memory storage factory and `Discard`, which the daemon does
  not use.
- Time: deadlines pass at any moment, backoff is time in which nothing is
  dialled. Integers are unbounded: versions are u64 and the store refuses the
  last one (`VersionLimit` in `CavlcStore`).

## Plan

1. Proofs: stability in `SegmentStore`.
2. `SegmentStore` shown to implement the storage contract as an abstract
   specification that `LogActor` also uses.
3. The TypeScript client as a module of its own.
