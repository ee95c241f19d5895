---------------------------- MODULE Subscription ----------------------------
(***************************************************************************)
(* The subscriptions of one connection: the session that opens, credits    *)
(* and cancels them (lug-server/session.rs), one stream task for each      *)
(* (stream.rs), and the bounded outbox through which everything goes back  *)
(* to the client.  The log behind them is Feed.                            *)
(*                                                                         *)
(* A stream task pushes what its credit allows from the ring, asks the     *)
(* actor for what the ring no longer holds, and parks when it has no       *)
(* credit or nothing to push.  Dropping the sender of its credit is the    *)
(* only signal that it is cancelled.                                       *)
(***************************************************************************)
EXTENDS Feed, FiniteSets

CONSTANTS
    Ids,            \* stream ids
    MaxTasks,       \* bound on the subscriptions opened
    Subscriptions,  \* what a client may ask for: a cursor, a mode, a credit
    PushLimit,      \* Limits.push
    OutboxCapacity, \* Limits.outbox
    MaxRequests,    \* bound on the requests on their way to the session
    MaxCredit,      \* bound on the credit of a subscription
    MaxFailures,    \* bound on the questions the actor fails to answer
    Final           \* the frames after which the client takes an id to be free

ASSUME SubscriptionAssumption ==
    /\ MaxTasks \in Nat /\ MaxRequests \in Nat \ {0} /\ MaxFailures \in Nat
    /\ Subscriptions \subseteq [from : Nat, mode : {"records", "reducible"}, credit : Nat]
    /\ PushLimit \in Nat \ {0} /\ OutboxCapacity \in Nat \ {0} /\ MaxCredit \in Nat
    /\ Final \subseteq {"end", "error"}

VARIABLES
    client,     \* per id: what the client takes the stream to be
    requests,   \* from the client, in order
    pending,    \* the reply the session is waiting to put into the outbox
    table,      \* Session.streams: the task registered under each id, or 0
    task,       \* the stream tasks
    out,        \* the outbox, read by the connection's only writer
    reading,    \* whether the session still reads requests
    writing,    \* whether the writer still takes frames
    opened,     \* subscriptions asked for
    failures

sessionVars == <<client, requests, pending, table, out, reading>>
vars == <<feedVars, sessionVars, task, writing, opened, failures>>

Tasks == 1..MaxTasks
None == 0

Frame(kind, id, from, to, entries) ==
    [kind |-> kind, id |-> id, from |-> from, to |-> to, entries |-> entries]
Plain(kind, id) == Frame(kind, id, 0, 0, <<>>)

\* Before a task is spawned and after it is done it holds nothing.
Unborn == [id |-> None, pc |-> "unborn", mode |-> "records", cursor |-> 0, used |-> 0,
           granted |-> 0, seenFlow |-> 0, seenMark |-> 0,
           frame |-> Plain("end", None), then |-> "done"]

Closed == [phase |-> "free", pos |-> 0, credit |-> 0, got |-> 0, cancelled |-> FALSE]

Init ==
    /\ FeedInit
    /\ client = [id \in Ids |-> Closed]
    /\ requests = <<>> /\ out = <<>>
    /\ pending = [spawn |-> None, frames |-> <<>>]
    /\ table = [id \in Ids |-> None]
    /\ task = [t \in Tasks |-> Unborn]
    /\ reading = TRUE /\ writing = TRUE
    /\ opened = 0 /\ failures = 0

Smaller(a, b) == IF a < b THEN a ELSE b
Larger(a, b) == IF a > b THEN a ELSE b

-----------------------------------------------------------------------------
(* The client. *)

Ask(id, r) ==
    /\ reading
    /\ Len(requests) < MaxRequests
    /\ requests' = Append(requests, r)
    /\ UNCHANGED <<feedVars, pending, table, task, out, reading, writing, failures>>

Request(kind, id, sub) == [kind |-> kind, id |-> id, sub |-> sub]
NoSub == [from |-> 0, mode |-> "records", credit |-> 0]

OpenStream(id, sub) ==
    /\ client[id].phase = "free"
    /\ opened < MaxTasks
    /\ opened' = opened + 1
    /\ Ask(id, Request("subscribe", id, sub))
    /\ client' = [client EXCEPT ![id] =
                     [phase |-> "open", pos |-> sub.from, credit |-> sub.credit,
                      got |-> 0, cancelled |-> FALSE]]

GrantMore(id) ==
    /\ client[id].phase = "open" /\ ~client[id].cancelled
    /\ client[id].credit < MaxCredit
    /\ Ask(id, Request("credit", id, [NoSub EXCEPT !.credit = 1]))
    /\ client' = [client EXCEPT ![id].credit = @ + 1]
    /\ opened' = opened

CancelStream(id) ==
    /\ client[id].phase = "open" /\ ~client[id].cancelled
    /\ Ask(id, Request("cancel", id, NoSub))
    /\ client' = [client EXCEPT ![id].cancelled = TRUE]
    /\ opened' = opened

\* The writer feeds the socket and the client reads the next frame of it. A
\* view older than the cursor it asked to start from takes it nowhere.
Hear ==
    /\ writing
    /\ out # <<>>
    /\ LET f == Head(out)
           c == client[f.id]
           moved == CASE f.kind = "view"    -> [c EXCEPT !.pos = Larger(@, f.to)]
                      [] f.kind = "gap"     -> [c EXCEPT !.pos = f.to]
                      [] f.kind = "records" -> [c EXCEPT !.pos = f.to,
                                                         !.got = @ + Len(f.entries)]
                      [] OTHER              -> c
       IN  client' = [client EXCEPT ![f.id] = IF f.kind \in Final THEN Closed ELSE moved]
    /\ out' = Tail(out)
    /\ UNCHANGED <<feedVars, requests, pending, table, task, reading, writing, opened, failures>>

-----------------------------------------------------------------------------
(* The session: one request at a time, each reply waiting for the outbox. *)

\* The next request, taken while no reply is waiting.
Taking(kind) ==
    /\ reading /\ pending.frames = <<>>
    /\ requests # <<>> /\ Head(requests).kind = kind
    /\ requests' = Tail(requests)
    /\ UNCHANGED <<feedVars, client, out, reading, writing, opened, failures>>

Owe(frame) == pending' = [spawn |-> None, frames |-> <<frame>>]

\* A new stream is registered before its Ok is in the outbox, and starts after.
Subscribe ==
    /\ Taking("subscribe")
    /\ LET id == Head(requests).id
           sub == Head(requests).sub
       IN  IF table[id] # None
             THEN Owe(Plain("error", id)) /\ UNCHANGED <<table, task>>
             ELSE \E t \in Tasks :
                    /\ task[t].pc = "unborn" /\ \A u \in Tasks : u < t => task[u].pc # "unborn"
                    /\ table' = [table EXCEPT ![id] = t]
                    /\ task' = [task EXCEPT ![t] =
                          [Unborn EXCEPT !.id = id, !.pc = "spawning", !.mode = sub.mode,
                                         !.cursor = sub.from, !.granted = sub.credit,
                                         !.seenFlow = sub.credit]]
                    /\ pending' = [spawn |-> t, frames |-> <<Plain("ok", id)>>]

\* Session::grant
Grant ==
    /\ Taking("credit")
    /\ LET id == Head(requests).id
           t == table[id]
       IN  IF t = None
             THEN Owe(Plain("error", id)) /\ task' = task
             ELSE /\ task' = [task EXCEPT ![t].granted = @ + Head(requests).sub.credit]
                  /\ Owe(Plain("ok", id))
    /\ table' = table

\* Session::cancel; the task answers as it unwinds.
Cancel ==
    /\ Taking("cancel")
    /\ LET id == Head(requests).id
       IN  IF table[id] = None
             THEN Owe(Plain("error", id)) /\ table' = table
             ELSE table' = [table EXCEPT ![id] = None] /\ pending' = pending
    /\ task' = task

Started(t) == IF task[t].mode = "reducible" THEN "viewing" ELSE "loop"

\* The reply goes out, or is dropped with the writer; then the stream starts.
ReplySent ==
    /\ pending.frames # <<>>
    /\ \/ writing /\ Len(out) < OutboxCapacity /\ out' = out \o pending.frames
       \/ ~writing /\ out' = out
    /\ task' = IF pending.spawn = None THEN task
               ELSE [task EXCEPT ![pending.spawn].pc = Started(pending.spawn)]
    /\ pending' = [spawn |-> None, frames |-> <<>>]
    /\ UNCHANGED <<feedVars, client, requests, table, reading, writing, opened, failures>>

\* The client goes away: Session::close cancels every stream.
Close ==
    /\ reading
    /\ pending.frames = <<>>
    /\ reading' = FALSE
    /\ requests' = <<>>
    /\ table' = [id \in Ids |-> None]
    /\ UNCHANGED <<feedVars, client, pending, task, out, writing, opened, failures>>

\* The socket fails under the writer, which drops the outbox.
WriterStops ==
    /\ writing
    /\ writing' = FALSE
    /\ out' = <<>>
    /\ UNCHANGED <<feedVars, client, requests, pending, table, task, reading, opened,
                   failures>>

-----------------------------------------------------------------------------
(* A stream task. *)

At(t, pc) == task[t].pc = pc
Goto(t, pc) == task' = [task EXCEPT ![t].pc = pc]
Open(t) == table[task[t].id] = t

\* What the tasks leave alone.
TaskFrame == UNCHANGED <<feedVars, client, requests, pending, reading, writing, opened>>
Internal == TaskFrame /\ UNCHANGED <<table, out, failures>>

\* Then(t, frame, pc): wait to send the frame, and go on at pc.
Then(t, frame, pc, cursor, used) ==
    task' = [task EXCEPT ![t].pc = "sending", ![t].frame = frame, ![t].then = pc,
                         ![t].cursor = cursor, ![t].used = used]

\* Seeded bug: once there is credit, only the push limit bounds a push.
AllowanceIgnored(t) == PushLimit

Allowance(t) == Smaller(task[t].seenFlow - task[t].used, PushLimit)

\* The top of the loop: the credit, then the watermark.
Look(t) ==
    /\ At(t, "loop")
    /\ task' = [task EXCEPT
          ![t].seenFlow = task[t].granted,
          ![t].seenMark = IF task[t].used >= task[t].granted THEN @ ELSE published,
          ![t].pc = IF task[t].used >= task[t].granted THEN "starved"
                    ELSE IF task[t].cursor >= published THEN "waiting"
                    ELSE "reading"]
    /\ Internal

\* Seeded bug: a task that waits for records only watches its credit.
WakeOnCredit(t) ==
    /\ task[t].pc \in {"starved", "waiting"}
    /\ task[t].granted # task[t].seenFlow
    /\ Goto(t, "loop")
    /\ Internal

\* A parked task wakes when credit or the watermark moved.
Wake(t) ==
    /\ \/ task[t].pc \in {"starved", "waiting"} /\ task[t].granted # task[t].seenFlow
       \/ task[t].pc \in {"waiting", "dry"} /\ published # task[t].seenMark
    /\ Goto(t, "loop")
    /\ Internal

\* Seeded bug: a task that waits for records does not watch its credit.
LeaveStarved(t) ==
    /\ At(t, "starved")
    /\ task[t].granted = task[t].seenFlow
    /\ ~Open(t)
    /\ Goto(t, "exit")
    /\ Internal

\* Or leaves when nobody can grant it credit any more.
Leave(t) ==
    /\ task[t].pc \in {"starved", "waiting"}
    /\ task[t].granted = task[t].seenFlow
    /\ ~Open(t)
    /\ Goto(t, "exit")
    /\ Internal

Push(t, entries) ==
    LET last == entries[Len(entries)].version
    IN  Then(t, Frame("records", task[t].id, task[t].cursor, last, entries), "loop",
             last, task[t].used + Len(entries))

\* The ring serves the cursor, up to the allowance or the size of a frame; or
\* it does not, and the actor is asked.
ReadRing(t) ==
    /\ At(t, "reading")
    /\ LET entries(n) == RingReadAfter(ring, task[t].cursor, n)
       IN  IF TooOld(ring, task[t].cursor) \/ entries(1) = <<>>
             THEN Goto(t, "asking")
             ELSE \E n \in 1..Allowance(t) : Push(t, entries(n))
    /\ Internal

\* Storage::read_after, for a cursor at or above the floor.
StoredAfter(after, limit) == EntriesBetween(after, Smaller(after + limit, Len(log)))

\* Actor::catch_up.  Storage that keeps every record from its floor up never
\* skips ahead of the cursor, nor runs dry below the watermark.
CatchUp(after, limit) ==
    CASE after + 1 < floor ->
           [kind |-> "gap", to |-> floor - 1, entries |-> <<>>]
      [] after + 1 >= floor /\ after < Len(log) ->
           [kind |-> "records", to |-> 0, entries |-> StoredAfter(after, limit)]
      [] OTHER -> [kind |-> "empty", to |-> 0, entries |-> <<>>]

\* The actor answers between two commits.
AnswerCatchUp(t) ==
    /\ At(t, "asking")
    /\ Between
    /\ LET answer == CatchUp(task[t].cursor, Allowance(t))
       IN  CASE answer.kind = "empty"   -> Goto(t, "dry")
             [] answer.kind = "records" -> Push(t, answer.entries)
             [] answer.kind = "gap"     ->
                  Then(t, Frame("gap", task[t].id, task[t].cursor, answer.to, <<>>), "loop",
                       answer.to, task[t].used)
    /\ Internal

\* Seeded bug: records the view already holds are pushed again.
AnswerViewTwice(t) ==
    /\ At(t, "viewing")
    /\ Between
    /\ Then(t, Frame("view", task[t].id, 0, Len(log), <<>>), "loop", task[t].cursor,
            task[t].used)
    /\ Internal

\* The preamble of a reducible stream.
AnswerView(t) ==
    /\ At(t, "viewing")
    /\ Between
    /\ Then(t, Frame("view", task[t].id, 0, Len(log), <<>>), "loop",
            Larger(task[t].cursor, Len(log)), task[t].used)
    /\ Internal

\* The actor fails or is gone: an Error, and the stream is over.
AnswerFails(t) ==
    /\ task[t].pc \in {"viewing", "asking"}
    /\ failures < MaxFailures
    /\ failures' = failures + 1
    /\ Then(t, Plain("error", task[t].id), "exit", task[t].cursor, task[t].used)
    /\ TaskFrame /\ UNCHANGED <<table, out>>

\* A frame waits for room in the outbox; without a writer the stream is over.
Send(t) ==
    /\ At(t, "sending")
    /\ \/ writing /\ Len(out) < OutboxCapacity /\ out' = Append(out, task[t].frame)
          /\ Goto(t, task[t].then)
       \/ ~writing /\ out' = out /\ Goto(t, "exit")
    /\ TaskFrame /\ UNCHANGED <<table, failures>>

\* Seeded bug: a stream that ends by itself stays registered.
ForgetNothing(t) ==
    /\ At(t, "exit")
    /\ Goto(t, "ending")
    /\ Internal

\* Session::forget, whoever is registered under the id by now.
Forget(t) ==
    /\ At(t, "exit")
    /\ table' = [table EXCEPT ![task[t].id] = None]
    /\ Goto(t, "ending")
    /\ TaskFrame /\ UNCHANGED <<out, failures>>

SendEnd(t) ==
    /\ At(t, "ending")
    /\ \/ writing /\ Len(out) < OutboxCapacity /\ out' = Append(out, Plain("end", task[t].id))
       \/ ~writing /\ out' = out
    /\ task' = [task EXCEPT ![t] = [Unborn EXCEPT !.pc = "done"]]
    /\ TaskFrame /\ UNCHANGED <<table, failures>>

Run(t) ==
    \/ Look(t) \/ Wake(t) \/ Leave(t) \/ ReadRing(t) \/ Send(t) \/ Forget(t) \/ SendEnd(t)
    \/ AnswerCatchUp(t) \/ AnswerView(t)

-----------------------------------------------------------------------------
Server == Subscribe \/ Grant \/ Cancel \/ ReplySent
Publishing == PushEntries \/ AnnounceWatermark

\* The connection is gone and every stream with it.
Over ==
    /\ ~reading /\ \A t \in Tasks : task[t].pc \in {"unborn", "done"}
    /\ UNCHANGED vars

Next ==
    \/ FeedStep /\ UNCHANGED <<sessionVars, task, writing, opened, failures>>
    \/ \E id \in Ids, sub \in Subscriptions : OpenStream(id, sub)
    \/ \E id \in Ids : GrantMore(id) \/ CancelStream(id)
    \/ Hear
    \/ Server
    \/ Close
    \/ WriterStops
    \/ \E t \in Tasks : Run(t) \/ AnswerFails(t)
    \/ Over

Spec == Init /\ [][Next]_vars

\* Every task of the daemon that can run does; a client that is there reads.
\* Nothing makes a client ask, or a producer append.
FairSpec ==
    /\ Spec
    /\ WF_vars(Publishing /\ UNCHANGED <<sessionVars, task, writing, opened, failures>>)
    /\ WF_vars(Hear) /\ WF_vars(Server)
    /\ \A t \in Tasks : WF_vars(Run(t))

-----------------------------------------------------------------------------
(* Properties. *)

Kinds == {"ok", "error", "end", "view", "records", "gap"}
Places == {"unborn", "spawning", "viewing", "loop", "starved", "waiting", "dry",
           "reading", "asking", "sending", "exit", "ending", "done"}

\* Every variable holds what the code's types let it hold.
TypeOK ==
    /\ \A id \in Ids : /\ client[id].phase \in {"free", "open"}
                       /\ client[id].pos \in Nat
                       /\ table[id] \in Tasks \cup {None}
    /\ \A t \in Tasks : task[t].pc \in Places /\ task[t].used \in Nat
    /\ \A i \in DOMAIN out : out[i].kind \in Kinds /\ out[i].id \in Ids
    /\ Len(out) <= OutboxCapacity /\ Len(requests) <= MaxRequests
    /\ published <= Len(log) /\ floor \in 1..(Len(log) + 1)

\* "Contiguous and in version order" (proto 150): whatever frame a client hears
\* next continues where it stands, with the patches the log has; what is missing
\* is announced by a gap that starts there.  No switch between the ring, the
\* actor and the view preamble skips or repeats a version.  A client stands at the
\* cursor it asked to start from until something takes it further: of a reducible
\* stream asked for from beyond the log's end this says that the records continue
\* the cursor, not that they join on to the view (RecordsFollowTheView).
Continues ==
    out # <<>> =>
        LET f == Head(out)
            pos == client[f.id].pos
        IN  /\ f.kind = "records" =>
                  /\ f.entries # <<>>
                  /\ \A i \in DOMAIN f.entries : /\ f.entries[i].version = pos + i
                                                 /\ f.entries[i].patch = log[pos + i]
            /\ f.kind = "gap" => f.from = pos /\ f.to > pos

\* "Versions in (from, to] are gone" (proto 161): a gap only covers what storage
\* no longer holds.
GapIsReclaimed ==
    \A i \in DOMAIN out : out[i].kind = "gap" => out[i].to < floor

\* A subscriber hears the log: every version in turn, short of the reclaimed.
HearsTheLog == TypeOK /\ Continues /\ GapIsReclaimed

\* "A materialized View first, then the records after it" (proto 60).  Not so where
\* the view is older than the cursor: the records between the two are neither in the
\* view nor pushed after it.
RecordsFollowTheView ==
    \A i, j \in DOMAIN out :
        /\ i < j /\ out[i].kind = "view" /\ out[j].kind = "records" /\ out[i].id = out[j].id
        /\ \A k \in (i + 1)..(j - 1) : out[k].id # out[i].id
        => out[j].entries[1].version = out[i].to + 1

\* Records on their way to the client under an id, among the frames of s.
Parcel(s, i) == {i} \X DOMAIN s[i].entries
Carried(s, id) == Cardinality(UNION {Parcel(s, i) : i \in {j \in DOMAIN s : s[j].id = id}})

\* "Records the server may push before waiting for more credit" (proto 97): what
\* a client has heard and what is in the outbox for it never exceed the credit it
\* has sent.
WithinCredit ==
    \A id \in Ids : client[id].phase = "open" =>
        client[id].got + Carried(out, id) <= client[id].credit

\* An id the client was told is free can be used again at once: its Subscribe
\* is never refused because the old stream is still registered.
IdsAreReusable ==
    [][\A id \in Ids :
          requests # <<>> /\ Head(requests).kind = "subscribe" /\ Head(requests).id = id
             /\ Len(requests') < Len(requests) /\ reading'
          => table[id] = None]_vars

\* "The stream is closed; the id may be reused" (proto 168): after End the client
\* hears nothing more for that id until it uses it again, however its grants and
\* its cancel crossed the records on their way.  A stream that fails by itself
\* does not keep to that: its End follows an Error that is final too (proto 27),
\* and the Ok of a grant may come after both.
FinalIsFinal == failures = 0 /\ out # <<>> => client[Head(out).id].phase = "open"

\* A final frame sets its id free for both sides, whatever is still on its way.
FinalFreesTheId == []FinalIsFinal /\ IdsAreReusable

\* The client is there, wants the stream and has sent credit for more.
Streaming(id) ==
    /\ reading /\ writing
    /\ client[id].phase = "open" /\ ~client[id].cancelled
    /\ client[id].got < client[id].credit

\* Every published version reaches a subscriber that has credit for it, as a
\* record, in a view, or under a gap: no park of the stream task (on credit, on
\* the watermark, after an empty catch-up) misses its wakeup. A stream whose
\* catch-up storage fails is excused.
Delivered ==
    \A id \in Ids, v \in 1..MaxLog :
        v <= published /\ Streaming(id) ~> client[id].pos >= v \/ ~Streaming(id) \/ failures > 0

\* A cancelled stream ends: the client hears a final frame, unless the
\* connection is lost or storage fails a read.
CancelEnds ==
    \A id \in Ids : client[id].cancelled ~> ~client[id].cancelled \/ ~reading \/ ~writing \/ failures > 0

\* When the connection goes, so does every stream task it had.
StreamsStop ==
    \A t \in Tasks : ~reading ~> task[t].pc \in {"unborn", "done"}

\* A stream that is no longer wanted goes away, wherever its task is parked.
UnwantedStreamsEnd == CancelEnds /\ StreamsStop
=============================================================================
