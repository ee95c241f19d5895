------------------------------ MODULE Follower ------------------------------
(***************************************************************************)
(* A follower (lug-client/follower.rs): a log rebuilt in another process   *)
(* from a view and the records after it, across gaps, lost connections and *)
(* a server that comes back with a shorter log.                            *)
(*                                                                         *)
(* The task folds what its subscription brings, fetches the view again     *)
(* when records are missing, publishes each state to the renderers and     *)
(* then its version, and hands the events to a consumer through a bounded  *)
(* queue.  The server's side is the log, its retention floor and one       *)
(* stream task, which Subscription models in full.                         *)
(*                                                                         *)
(* A patch is named by the era it was appended in, the number of power     *)
(* cuts before it, so a document is the sequence of the patches folded     *)
(* into it and a record is the document it leads to.                       *)
(***************************************************************************)
EXTENDS Integers, Sequences, SequencesExt

CONSTANTS
    Kinds,       \* whether the log keeps a view: a subset of BOOLEAN
    Reader,      \* whether somebody reads the events
    EventCap,    \* capacity of the queue of events
    SinkCap,     \* frames of the subscription under way
    MaxLog,      \* bound: versions of the log
    MaxCuts,     \* bound: power cuts
    MaxLosses    \* bound: streams and reads that fail

ASSUME FollowerAssumption ==
    /\ Kinds \subseteq BOOLEAN /\ Reader \in BOOLEAN
    /\ EventCap \in Nat \ {0} /\ SinkCap \in Nat \ {0}
    /\ MaxLog \in Nat /\ MaxCuts \in Nat /\ MaxLosses \in Nat

VARIABLES
    reducible,  \* whether the log keeps a view
    log,        \* the log, as the document it folds to
    floor,      \* versions up to here are reclaimed
    stream,     \* the server's stream task
    sink,       \* frames on their way to the follower
    task,       \* where the follower's task is
    held,       \* its cursor, its store, its mode and the events it dropped
    state,      \* the published state
    versions,   \* the published version
    events,     \* the queue of events
    heard,      \* the version the consumer was last told about
    cached,     \* Follower.json
    cuts, losses

serverVars == <<reducible, log, floor, cuts>>
vars == <<serverVars, stream, sink, task, held, state, versions, events,
          heard, cached, losses>>

NoDoc == [held |-> FALSE, doc |-> <<>>]
Doc(d) == [held |-> TRUE, doc |-> d]
None == [from |-> 0, to |-> 0]
Event(kind, from, to) == [kind |-> kind, from |-> from, to |-> to]

Frame(kind, docs, from, to) == [kind |-> kind, docs |-> docs, from |-> from, to |-> to]
Notice(kind) == Frame(kind, <<>>, 0, 0)
(* "skipped" is auxiliary: the versions up to it that the log does not     *)
(* hold yet and that the stream will not push when it does.                *)
Stream(phase, cursor, skipped) ==
    [phase |-> phase, cursor |-> cursor, skipped |-> skipped]
NoStream == Stream("none", 0, 0)

Task(phase, batch, doc, era, from, to) ==
    [phase |-> phase, batch |-> batch, doc |-> doc, era |-> era, from |-> from, to |-> to]
At(phase) == Task(phase, <<>>, NoDoc, 0, 0, 0)

Init ==
    /\ reducible \in Kinds
    /\ log = <<>> /\ floor = 0 /\ cuts = 0 /\ losses = 0
    /\ stream = NoStream /\ sink = <<>>
    /\ task = At("opening")
    /\ held = [cursor |-> 0, store |-> NoDoc, mode |-> "reducible", dropped |-> None,
               era |-> 0]
    /\ state = [snapshot |-> NoDoc, version |-> 0, status |-> "reconnecting"]
    /\ versions = 0 /\ events = <<>> /\ heard = 0 /\ cached = NoDoc

-----------------------------------------------------------------------------
(* The server. *)

AppendPatch ==
    /\ Len(log) < MaxLog
    /\ log' = Append(log, cuts)
    /\ UNCHANGED <<reducible, floor, cuts, stream, sink, task, held, state,
                   versions, events, heard, cached, losses>>

(* A checkpoint and the reclaiming of segments behind it.                  *)
Reclaim ==
    /\ floor < Len(log)
    /\ floor' = Len(log)
    /\ UNCHANGED <<reducible, log, cuts, stream, sink, task, held, state,
                   versions, events, heard, cached, losses>>

Push(frame, cursor, skipped) ==
    /\ Len(sink) < SinkCap
    /\ sink' = Append(sink, frame)
    /\ stream' = Stream("live", cursor, skipped)
    /\ UNCHANGED <<serverVars, task, held, state, versions, events, heard,
                   cached, losses>>

Higher(a, b) == IF a > b THEN a ELSE b
Beyond(cursor) == IF cursor > Len(log) THEN cursor ELSE 0

(* The view, and the cursor no lower than it.                              *)
PushView ==
    /\ stream.phase = "viewing"
    /\ Push(Frame("View", <<log>>, cuts, 0),
            Higher(stream.cursor, Len(log)), Beyond(stream.cursor))

PushRecords(n) ==
    /\ stream.phase = "live"
    /\ stream.cursor >= floor /\ stream.cursor + n <= Len(log)
    /\ Push(Frame("Records", [i \in 1 .. n |-> SubSeq(log, 1, stream.cursor + i)], 0, 0),
            stream.cursor + n, stream.skipped)

PushGap ==
    /\ stream.phase = "live"
    /\ stream.cursor < floor
    /\ Push(Frame("Gap", <<>>, stream.cursor, floor), floor, stream.skipped)

(* The stream breaks, and the frames behind the break with it; or the      *)
(* server ends it as it stops.                                             *)
Broken(n, kind) ==
    /\ losses < MaxLosses /\ losses' = losses + 1
    /\ n <= Len(sink)
    /\ sink' = Append(SubSeq(sink, 1, n), Notice(kind))
    /\ stream' = NoStream

BreakStream(n, kind) ==
    /\ stream.phase # "none"
    /\ kind = "Lost" \/ n = Len(sink)
    /\ Broken(n, kind)
    /\ UNCHANGED <<serverVars, task, held, state, versions, events, heard, cached>>

(* The host loses power: what was not yet durable is gone from the log.    *)
PowerCut(n) ==
    /\ cuts < MaxCuts /\ cuts' = cuts + 1
    /\ n >= floor /\ n < Len(log)
    /\ log' = SubSeq(log, 1, n)
    /\ sink' = IF stream.phase = "none" THEN sink ELSE Append(sink, Notice("Lost"))
    /\ stream' = NoStream
    /\ UNCHANGED <<reducible, floor, task, held, state, versions, events,
                   heard, cached, losses>>

-----------------------------------------------------------------------------
(* What the follower shows. *)

(* The state first; the version follows in Tick.                           *)
Publish(h, status) ==
    /\ state' = [snapshot |-> h.store, version |-> h.cursor, status |-> status]
    /\ UNCHANGED versions

Tick ==
    /\ task.phase \in {"ticking", "retrying", "stopping"}
    /\ versions' = state.version
    /\ task' = At(IF task.phase = "ticking" THEN "listening"
                  ELSE IF task.phase = "retrying" THEN "opening" ELSE "stopped")
    /\ UNCHANGED <<serverVars, stream, sink, held, state, events, heard, cached, losses>>

(* adopt: the view replaces the store and the cursor moves to it.          *)
Adopted(h, d, era) == [h EXCEPT !.cursor = Len(d), !.store = Doc(d), !.era = era]

(* The events before the first view are nobody's loss.                     *)
Baseline(d) == IF held.store.held THEN heard ELSE Len(d)

-----------------------------------------------------------------------------
(* Events: a gap waits for room, a record does not. *)

Room(q) == Len(q) < EventCap
Lower(a, b) == IF a < b THEN a ELSE b

Widened(from) == IF held.dropped = None THEN from ELSE Lower(held.dropped.from, from)

(* Emitting a gap: the task waits with what it does afterwards.            *)
Emitting(from, to, d, era) ==
    Task("emitting", <<>>, d, era, Widened(from), to)

SendGap ==
    /\ task.phase = "emitting" /\ Room(events)
    /\ events' = Append(events, Event("Gap", task.from, task.to))
    /\ IF task.doc.held
       THEN held' = Adopted(held, task.doc.doc, task.era)
       ELSE UNCHANGED held
    /\ Publish(held', "live")
    /\ task' = At("ticking")
    /\ UNCHANGED <<serverVars, stream, sink, heard, cached, losses>>

(* What a dropped record adds to: the range already lost, or its own.      *)
Lost(d, v) == [from |-> IF d = None THEN v - 1 ELSE d.from, to |-> v]

(* Emitting a record: the lost range is announced first, if there is room. *)
Emitted(q, d, v) ==
    LET announced == IF d # None /\ Room(q)
                     THEN Append(q, Event("Gap", d.from, d.to)) ELSE q
        left == IF Room(q) THEN None ELSE d
    IN  IF left = None /\ Room(announced)
        THEN [events |-> Append(announced, Event("Record", v - 1, v)), dropped |-> None]
        ELSE [events |-> announced, dropped |-> Lost(left, v)]

(* The consumer takes an event.                                            *)
Consume ==
    /\ Reader /\ events # <<>>
    /\ heard' = Head(events).to
    /\ events' = Tail(events)
    /\ UNCHANGED <<serverVars, stream, sink, task, held, state, versions, cached, losses>>

(* A renderer asks for the view as JSON, which is built once per version.  *)
Render ==
    /\ state.snapshot.held
    /\ cached' = IF cached.held /\ Len(cached.doc) = Len(state.snapshot.doc)
                 THEN cached ELSE state.snapshot
    /\ UNCHANGED <<serverVars, stream, sink, task, held, state, versions,
                   events, heard, losses>>

-----------------------------------------------------------------------------
(* The task. *)

(* A subscription from the cursor.  The last one is dropped with its sink. *)
Open ==
    /\ task.phase = "opening"
    /\ task' = At("listening")
    /\ IF held.mode = "reducible" /\ ~reducible
       THEN sink' = <<Notice("NotReducible")>> /\ stream' = NoStream
       ELSE /\ sink' = <<>>
            /\ stream' = IF held.mode = "reducible"
                         THEN Stream("viewing", held.cursor, 0)
                         ELSE Stream("live", held.cursor, Beyond(held.cursor))
    /\ UNCHANGED <<serverVars, held, state, versions, events, heard, cached, losses>>

(* The log is not there, or not for this user: the follower will stop.     *)
Refuse ==
    /\ task.phase = "opening"
    /\ losses < MaxLosses /\ losses' = losses + 1
    /\ task' = At("listening")
    /\ sink' = <<Notice("Fatal")>> /\ stream' = NoStream
    /\ UNCHANGED <<serverVars, held, state, versions, events, heard, cached>>

Taking(kind) ==
    /\ task.phase = "listening"
    /\ sink # <<>> /\ Head(sink).kind = kind
    /\ UNCHANGED <<serverVars, cached, losses>>

Took == sink' = Tail(sink) /\ UNCHANGED stream
(* The session is over, and dropping its frames cancels the stream.        *)
Left == sink' = <<>> /\ stream' = NoStream

(* A log without a view is followed by its records.                        *)
TakeNotReducible ==
    /\ Taking("NotReducible")
    /\ held' = [held EXCEPT !.mode = "records"]
    /\ task' = At("opening") /\ Left
    /\ UNCHANGED <<state, versions, events, heard>>

(* MUTANT: the view of a reconnect is adopted without a word.              *)
TakeViewQuietly ==
    /\ Taking("View") /\ Took
    /\ LET d == Head(sink).docs[1]
       IN  /\ held' = Adopted(held, d, Head(sink).from)
           /\ Publish(held', "live")
           /\ heard' = Baseline(d)
           /\ task' = At("ticking")
    /\ UNCHANGED events

(* A view ahead of the cursor announces the gap it closes, then replaces   *)
(* the store.                                                              *)
TakeView ==
    /\ Taking("View") /\ Took
    /\ LET d == Head(sink).docs[1]
       IN  IF held.store.held /\ Len(d) > held.cursor
           THEN /\ task' = Emitting(held.cursor, Len(d), Doc(d), Head(sink).from)
                /\ held' = [held EXCEPT !.dropped = None]
                /\ UNCHANGED <<state, versions, heard>>
           ELSE /\ held' = Adopted(held, d, Head(sink).from)
                /\ Publish(held', "live")
                /\ heard' = Baseline(d)
                /\ task' = At("ticking")
    /\ UNCHANGED events

TakeRecords ==
    /\ Taking("Records") /\ Took
    /\ task' = Task("folding", Head(sink).docs, NoDoc, 0, 0, 0)
    /\ UNCHANGED <<held, state, versions, events, heard>>

(* recover: a plain log skips the gap, a view is fetched again.            *)
Recovering(from, to) ==
    IF held.mode = "records"
    THEN /\ held' = [held EXCEPT !.cursor = to, !.dropped = None]
         /\ task' = Emitting(from, to, NoDoc, held.era)
    ELSE /\ task' = Task("reading", <<>>, NoDoc, 0, from, to)
         /\ UNCHANGED held

TakeGap ==
    /\ Taking("Gap") /\ Took
    /\ Recovering(Head(sink).from, Head(sink).to)
    /\ UNCHANGED <<state, versions, events, heard>>

(* The session ended: for good, or to be opened again after a while.       *)
Fails(status, phase) ==
    /\ Publish(held, status)
    /\ task' = At(phase) /\ Left
    /\ UNCHANGED <<held, events, heard>>

TakeEnding ==
    \/ Taking("Lost") /\ Fails("reconnecting", "retrying")
    \/ Taking("End") /\ Fails("ended", "stopping")
    \/ Taking("Fatal") /\ Fails("failed", "stopping")

-----------------------------------------------------------------------------
(* fold: one record of the batch at a time. *)

Next1 == Head(task.batch)
Folding == /\ task.phase = "folding" /\ task.batch # <<>>
           /\ UNCHANGED <<serverVars, cached, losses>>
Popped == [task EXCEPT !.batch = Tail(@)]

(* Replayed: the cursor is already past it.                                *)
FoldOld ==
    /\ Folding /\ Len(Next1) <= held.cursor
    /\ task' = Popped
    /\ UNCHANGED <<stream, sink, held, state, versions, events, heard>>

(* MUTANT: a jump in versions is folded like the next record.              *)
IsNextAny(d) == Len(d) > held.cursor

IsNext(d) == Len(d) = held.cursor + 1

(* A jump: the rest of the batch is dropped and the view fetched again.    *)
FoldJump ==
    /\ Folding /\ Len(Next1) > held.cursor /\ ~IsNext(Next1)
    /\ Recovering(held.cursor, Len(Next1) - 1)
    /\ UNCHANGED <<stream, sink, state, versions, events, heard>>

(* The patch is applied to the store, if there is one, and emitted.        *)
Applied == IF held.store.held THEN Doc(Append(held.store.doc, Last(Next1))) ELSE NoDoc

FoldNext ==
    /\ Folding /\ IsNext(Next1)
    /\ LET e == Emitted(events, held.dropped, Len(Next1))
       IN  /\ events' = e.events
           /\ held' = [held EXCEPT !.cursor = Len(Next1), !.dropped = e.dropped,
                                   !.store = Applied]
    /\ task' = Popped
    /\ UNCHANGED <<stream, sink, state, versions, heard>>

(* A patch applied to a document it was not made for may be refused, which *)
(* stops the follower, or mint no version, which ends the session.         *)
FoldMisfit ==
    /\ Folding /\ IsNext(Next1)
    /\ held.store.held /\ held.store.doc # Front(Next1)
    /\ Fails("failed", "stopping") \/ Fails("reconnecting", "retrying")

FoldDone ==
    /\ task.phase = "folding" /\ task.batch = <<>>
    /\ Publish(held, "live")
    /\ task' = At("ticking")
    /\ UNCHANGED <<serverVars, stream, sink, held, events, heard, cached, losses>>

-----------------------------------------------------------------------------
(* hub.read, over whatever connection there is, while the sink fills. *)

ReadReply ==
    /\ task.phase = "reading"
    /\ IF Len(log) < task.to
       THEN task' = At("opening") /\ Left /\ UNCHANGED held
       ELSE /\ task' = Emitting(task.from, Len(log), Doc(log), held.era)
            /\ held' = [held EXCEPT !.dropped = None]
            /\ UNCHANGED <<stream, sink>>
    /\ UNCHANGED <<serverVars, state, versions, events, heard, cached, losses>>

(* MUTANT: a failed read is taken for a recovered gap.                     *)
ReadFailsOnward ==
    /\ task.phase = "reading"
    /\ losses < MaxLosses /\ losses' = losses + 1
    /\ task' = At("listening")
    /\ UNCHANGED <<serverVars, stream, sink, held, state, versions, events, heard, cached>>

(* A transient failure opens the stream again at once; another ends the     *)
(* session, for good or to be opened after a while.                        *)
ReadFails ==
    /\ task.phase = "reading"
    /\ losses < MaxLosses /\ losses' = losses + 1
    /\ \/ /\ task' = At("opening") /\ Left
          /\ UNCHANGED <<held, state, versions, events, heard>>
       \/ Fails("reconnecting", "retrying")
       \/ Fails("failed", "stopping")
    /\ UNCHANGED <<serverVars, cached>>

(* The last handle is dropped, which the task notices where it waits.      *)
DropFollower ==
    /\ task.phase \in {"listening", "emitting"}
    /\ task' = At("stopped") /\ Left
    /\ UNCHANGED <<serverVars, held, state, versions, events, heard, cached, losses>>

-----------------------------------------------------------------------------
TaskStep ==
    \/ Open \/ TakeNotReducible \/ TakeView \/ TakeRecords \/ TakeGap \/ TakeEnding
    \/ FoldOld \/ FoldJump \/ FoldNext \/ FoldMisfit \/ FoldDone
    \/ SendGap \/ ReadReply \/ Tick

StreamStep == PushView \/ PushGap \/ \E n \in 1 .. 2 : PushRecords(n)

Next ==
    \/ TaskStep \/ StreamStep \/ Consume \/ Render
    \/ AppendPatch \/ Reclaim \/ Refuse \/ ReadFails \/ DropFollower
    \/ \E n \in 0 .. SinkCap : \E kind \in {"Lost", "End"} : BreakStream(n, kind)
    \/ \E n \in 0 .. MaxLog : PowerCut(n)

(* The tasks of both sides are scheduled; the consumer reads if there is   *)
(* one.  Appends, losses and drops are nobody's promise.                   *)
Fairness == WF_vars(TaskStep) /\ WF_vars(StreamStep) /\ WF_vars(Consume)

Spec == Init /\ [][Next]_vars /\ Fairness

-----------------------------------------------------------------------------
(* Queues are within their capacity and versions within the log's bound.   *)
TypeOK ==
    /\ Len(log) <= MaxLog /\ floor \in 0 .. Len(log)
    /\ Len(sink) <= SinkCap + 1
    /\ Len(events) <= EventCap
    /\ stream.phase \in {"none", "viewing", "live"} /\ stream.cursor \in 0 .. MaxLog
    /\ held.mode \in {"reducible", "records"}
    /\ state.version \in 0 .. MaxLog /\ versions \in 0 .. MaxLog
    /\ heard \in 0 .. MaxLog

(* follower.rs, fold and adopt: a published view is the log up to its      *)
(* version, whatever gaps, replays, reads and reconnects built it.  Until  *)
(* the first view sent after a power cut, it may be of the lost log.       *)
ViewIsTheLog ==
    /\ state.snapshot.held => state.version = Len(state.snapshot.doc)
    /\ state.snapshot.held /\ held.era = cuts => IsPrefix(state.snapshot.doc, log)

(* follower.rs, emit: the consumer is told of every version in turn; what  *)
(* it is not given is inside a gap that starts no later than where it is.  *)
EndBefore(i) == IF i = 1 THEN heard ELSE events[i - 1].to

NoSilentJump == \A i \in DOMAIN events : events[i].from <= EndBefore(i)

(* follower.rs:468, "recovery must announce its gap before a renderer can  *)
(* see the replacement view": the published view is never ahead of what    *)
(* was queued for the consumer, noted as dropped or is being announced.    *)
EventsCoverTheView ==
    \/ state.version <= EndBefore(Len(events) + 1)
    \/ state.version <= held.dropped.to
    \/ task.phase = "emitting" /\ state.version <= task.to
    \/ task.phase = "stopped"

(* follower.rs:464, "A renderer awakened by the version must find the      *)
(* matching view": a version is shown only once its state is, and only a   *)
(* log that became shorter makes them differ the other way for a moment.   *)
VersionNamesView ==
    /\ versions # state.version => task.phase \in {"ticking", "retrying", "stopping"}
    /\ versions > state.version => cuts > 0

(* What a follower shows is the log, in each of the places it is shown.    *)
ShowsTheLog == TypeOK /\ ViewIsTheLog /\ VersionNamesView

(* Its events tell a consumer of every version it is shown.                *)
EventsAreComplete == NoSilentJump /\ EventsCoverTheView

(* follower.rs:71, "It survives the connection dying": while it runs, the  *)
(* follower reaches the log it follows.  Where the log lost versions that  *)
(* the stream's cursor is past, it only does so with the versions after    *)
(* the cursor (stream.rs:63).                                              *)
Following == task.phase # "stopped"
Shadowed == Len(log) <= stream.skipped
Shows(n) == state.version = n /\ (reducible => state.snapshot = Doc(log))

CatchesUp ==
    \A n \in 1 .. MaxLog :
        Following /\ Len(log) = n ~> ~Following \/ Len(log) # n \/ Shadowed \/ Shows(n)

(* follower.rs:101, "The current view as JSON, built once per version": a  *)
(* view asked for at the version of the state is the view of that state.   *)
(* Not so after a power cut took versions back and others were minted in   *)
(* their place: see the README.                                            *)
CacheIsCurrent ==
    cached.held /\ state.snapshot.held /\ Len(cached.doc) = Len(state.snapshot.doc)
      => cached = state.snapshot
=============================================================================
