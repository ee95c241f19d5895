------------------------------ MODULE Pipeline ------------------------------
(* A connection from end to end: the client's requests, the session that     *)
(* dispatches them (lug-server/src/session.rs), the inboxes of the log        *)
(* actors, the pump that awaits their replies, the stream task, the outbox,   *)
(* the writer (lug-server/src/unix.rs) and the way back. Every queue on the   *)
(* way is bounded and every sender waits for room; connections share the      *)
(* actors, with each other and with a stranger.                               *)
(*                                                                            *)
(* A connection subscribes at most once, with credit for Credit records and   *)
(* no more.                                                                   *)
(* What an actor does with a command is one step (LogActor has the detail).   *)
(* `up' stands for everything a request waits in on its way to the session,   *)
(* `down' for everything a frame waits in once it was written.                *)
EXTENDS Naturals, Sequences, SequencesExt

CONSTANTS
    Conns,      \* connections
    Stranger,   \* stands for all other users of the logs
    Logs,
    Mortal,     \* logs whose actor may stop
    Programs,   \* the sequences of requests a client may send
    Credit,     \* records a subscription is good for
    Up, Down,   \* requests, frames the two directions of a socket hold
    Inbox,      \* limits.inbox
    Pending,    \* limits.pending
    Outbox,     \* limits.outbox
    MaxStrange  \* bound: commands of the stranger

Ops == {"append", "read", "subscribe", "ping", "refused", "junk"}

ASSUME PipelineAssumption ==
    /\ Stranger \notin Conns /\ Mortal \subseteq Logs
    /\ Programs \subseteq Seq(Ops \X Logs)
    /\ \A q \in Programs : \A m, n \in DOMAIN q :
          q[m][1] = "subscribe" /\ q[n][1] = "subscribe" => m = n
    /\ Credit \in Nat /\ MaxStrange \in Nat
    /\ {Up, Down, Inbox, Pending, Outbox} \subseteq Nat \ {0}

VARIABLES
    program,    \* the requests of each client
    deaf,       \* the clients that never read what they are sent
    next,       \* the request each client sends next
    life,       \* "open", "shut" (it sends no more) or "gone" (it reads no more either)
    up,
    hand,       \* what the session is doing, with which request
    pending,    \* requests whose replies the pump has not come to
    pump,       \* the request whose reply it awaits
    outbox, writer, down,
    heard,      \* the frames the client has read
    inbox, alive,
    log,        \* the requests each log has recorded
    answer,     \* the reply to each request, once its actor gave it
    stream,     \* the stream task of each connection
    strange     \* commands the stranger has sent

client == <<program, deaf, next, life, heard>>
session == <<hand, pending, pump>>
way == <<up, outbox, writer, down>>
actor == <<inbox, alive, log, answer>>
vars == <<client, session, way, actor, stream, strange>>

-----------------------------------------------------------------------------
Requests(c) == DOMAIN program[c]
Op(c, n) == program[c][n][1]
LogOf(c, n) == program[c][n][2]

(* `of' tells who put a frame in the outbox. *)
Frame(of, n, kind, at) == [of |-> of, n |-> n, kind |-> kind, at |-> at]
Unanswered == [kind |-> "none", at |-> 0]
Dropped == [kind |-> "dropped", at |-> 0]
Idle == 0
NoStream == [at |-> "none", log |-> 0, sent |-> 0]
Reading == [at |-> "read", n |-> Idle, kind |-> "none"]
Finished == [at |-> "over", n |-> Idle, kind |-> "none"]

Init ==
    /\ program \in [Conns -> Programs] /\ deaf \in SUBSET Conns
    /\ next = [c \in Conns |-> 1] /\ life = [c \in Conns |-> "open"]
    /\ heard = [c \in Conns |-> <<>>]
    /\ hand = [c \in Conns |-> Reading] /\ pending = [c \in Conns |-> <<>>]
    /\ pump = [c \in Conns |-> [on |-> TRUE, n |-> Idle]]
    /\ up = [c \in Conns |-> <<>>] /\ down = [c \in Conns |-> <<>>]
    /\ outbox = [c \in Conns |-> <<>>] /\ writer = [c \in Conns |-> TRUE]
    /\ inbox = [l \in Logs |-> <<>>] /\ alive = [l \in Logs |-> TRUE]
    /\ log = [l \in Logs |-> <<>>]
    /\ answer = [c \in Conns |-> [n \in Requests(c) |-> Unanswered]]
    /\ stream = [c \in Conns |-> NoStream] /\ strange = 0

-----------------------------------------------------------------------------
(* The client *)

ClientSend(c) ==
    /\ life[c] = "open" /\ next[c] \in Requests(c) /\ Len(up[c]) < Up
    /\ up' = [up EXCEPT ![c] = Append(@, next[c])]
    /\ next' = [next EXCEPT ![c] = @ + 1]
    /\ UNCHANGED <<program, deaf, life, heard, session, outbox, writer, down, actor, stream, strange>>

ClientRead(c) ==
    /\ c \notin deaf /\ life[c] # "gone" /\ down[c] # <<>>
    /\ heard' = [heard EXCEPT ![c] = Append(@, Head(down[c]))]
    /\ down' = [down EXCEPT ![c] = Tail(@)]
    /\ UNCHANGED <<program, deaf, next, life, session, up, outbox, writer, actor, stream, strange>>

(* It closes its sending side, or goes away altogether; what it had sent is *)
(* still there to be read.                                                  *)
Shut(c) ==
    /\ life[c] = "open"
    /\ life' = [life EXCEPT ![c] = "shut"]
    /\ UNCHANGED <<program, deaf, next, heard, session, way, actor, stream, strange>>

Vanish(c) ==
    /\ life[c] # "gone"
    /\ life' = [life EXCEPT ![c] = "gone"]
    /\ down' = [down EXCEPT ![c] = <<>>]
    /\ UNCHANGED <<program, deaf, next, heard, session, up, outbox, writer, actor, stream, strange>>

-----------------------------------------------------------------------------
(* Session::dispatch *)

OutboxRoom(c) == Len(outbox[c]) < Outbox

(* A frame goes into the outbox when there is room, and nowhere once the *)
(* writer is gone.                                                       *)
Send(c, f) ==
    \/ writer[c] /\ OutboxRoom(c) /\ outbox' = [outbox EXCEPT ![c] = Append(@, f)]
    \/ ~writer[c] /\ UNCHANGED outbox

Replying(n, kind) == [at |-> "reply", n |-> n, kind |-> kind]
Dispatched(c, n) ==
    IF Op(c, n) \in {"append", "read"}
    THEN [at |-> "command", n |-> n, kind |-> "none"]
    ELSE Replying(n, IF Op(c, n) = "ping" THEN "pong"
                     ELSE IF Op(c, n) = "subscribe" THEN "ok" ELSE "error")

Take(c) ==
    /\ hand[c].at = "read" /\ up[c] # <<>>
    /\ hand' = [hand EXCEPT ![c] = Dispatched(c, Head(up[c]))]
    /\ up' = [up EXCEPT ![c] = Tail(@)]
    /\ UNCHANGED <<client, pending, pump, outbox, writer, down, actor, stream, strange>>

(* The session answers by itself. A subscription is answered before its      *)
(* stream starts; a frame that does not decode is the last the session reads. *)
Reply(c) ==
    /\ hand[c].at = "reply"
    /\ LET n == hand[c].n IN
           /\ Send(c, Frame("session", n, hand[c].kind, 0))
           /\ hand' = [hand EXCEPT ![c] =
                 IF Op(c, n) = "junk" THEN Finished ELSE Reading]
           /\ stream' = IF Op(c, n) = "subscribe"
                 THEN [stream EXCEPT ![c] = [at |-> "loop", log |-> LogOf(c, n), sent |-> 0]]
                 ELSE stream
    /\ UNCHANGED <<client, pending, pump, up, writer, down, actor, strange>>

(* MUTANT of Enqueued: reads are served first. *)
EnqueuedReadsFirst(q, m) == IF Op(m[1], m[2]) = "read" THEN <<m>> \o q ELSE Append(q, m)

Enqueued(q, m) == Append(q, m)

(* commands.send waits for the actor's inbox, or finds that it is gone. *)
Command(c) ==
    /\ hand[c].at = "command"
    /\ LET n == hand[c].n  l == LogOf(c, n) IN
         \/ /\ alive[l] /\ Len(inbox[l]) < Inbox
            /\ inbox' = [inbox EXCEPT ![l] = Enqueued(@, <<c, n>>)]
            /\ hand' = [hand EXCEPT ![c].at = "pending"]
         \/ /\ ~alive[l]
            /\ hand' = [hand EXCEPT ![c] = Replying(n, "error")]
            /\ UNCHANGED inbox
    /\ UNCHANGED <<client, pending, pump, way, alive, log, answer, stream, strange>>

Await(c) ==
    \/ /\ pump[c].on /\ Len(pending[c]) < Pending
       /\ pending' = [pending EXCEPT ![c] = Append(@, hand[c].n)]
       /\ hand' = [hand EXCEPT ![c] = Reading]
    \/ /\ ~pump[c].on
       /\ hand' = [hand EXCEPT ![c] = Replying(hand[c].n, "error")]
       /\ UNCHANGED pending

(* The reply is left to the pump, which may have stopped. *)
Hand(c) ==
    /\ hand[c].at = "pending"
    /\ Await(c)
    /\ UNCHANGED <<client, pump, way, actor, stream, strange>>

(* The end of the requests: serve closes and drops the session. *)
Over(c) == hand[c].at = "over"
Close(c) ==
    /\ hand[c].at = "read" /\ up[c] = <<>> /\ life[c] # "open"
    /\ hand' = [hand EXCEPT ![c].at = "over"]
    /\ UNCHANGED <<client, pending, pump, way, actor, stream, strange>>

-----------------------------------------------------------------------------
(* pump *)

(* MUTANT of Settled: a reply whose sender was dropped is waited for. *)
SettledByReply(c, n) == answer[c][n] \notin {Unanswered, Dropped}

Settled(c, n) == answer[c][n] # Unanswered

Oldest(q) == 1

PumpTake(c) ==
    /\ pump[c].on /\ pump[c].n = Idle /\ pending[c] # <<>>
    /\ LET i == Oldest(pending[c]) IN
         /\ pump' = [pump EXCEPT ![c].n = pending[c][i]]
         /\ pending' = [pending EXCEPT ![c] = RemoveAt(@, i)]
    /\ UNCHANGED <<client, hand, way, actor, stream, strange>>

PumpSend(c) ==
    /\ pump[c].on /\ pump[c].n # Idle /\ Settled(c, pump[c].n)
    /\ LET n == pump[c].n IN Send(c, Frame("pump", n, answer[c][n].kind, answer[c][n].at))
    /\ pump' = [pump EXCEPT ![c] = [on |-> writer[c], n |-> Idle]]
    /\ pending' = IF writer[c] THEN pending ELSE [pending EXCEPT ![c] = <<>>]
    /\ UNCHANGED <<client, hand, up, writer, down, actor, stream, strange>>

PumpEnd(c) ==
    /\ pump[c].on /\ pump[c].n = Idle /\ pending[c] = <<>> /\ Over(c)
    /\ pump' = [pump EXCEPT ![c].on = FALSE]
    /\ UNCHANGED <<client, hand, pending, way, actor, stream, strange>>

-----------------------------------------------------------------------------
(* write *)

(* A write waits for room in the socket, and fails once the client is gone. *)
Write(c) ==
    /\ writer[c] /\ outbox[c] # <<>>
    /\ \/ /\ life[c] # "gone" /\ Len(down[c]) < Down
          /\ down' = [down EXCEPT ![c] = Append(@, Head(outbox[c]))]
          /\ outbox' = [outbox EXCEPT ![c] = Tail(@)]
          /\ UNCHANGED writer
       \/ /\ life[c] = "gone"
          /\ writer' = [writer EXCEPT ![c] = FALSE]
          /\ outbox' = [outbox EXCEPT ![c] = <<>>]
          /\ UNCHANGED down
    /\ UNCHANGED <<client, session, up, actor, stream, strange>>

(* Every sender of the outbox is gone, and what it held is written. *)
WriterEnd(c) ==
    /\ writer[c] /\ outbox[c] = <<>>
    /\ Over(c) /\ ~pump[c].on /\ stream[c].at \in {"none", "ended"}
    /\ writer' = [writer EXCEPT ![c] = FALSE]
    /\ UNCHANGED <<client, session, up, outbox, down, actor, stream, strange>>

-----------------------------------------------------------------------------
(* The actors. A oneshot takes a reply whether or not anybody waits for it. *)

Asks(m) == m[2] = Idle
Serve(l) ==
    /\ alive[l] /\ inbox[l] # <<>>
    /\ inbox' = [inbox EXCEPT ![l] = Tail(@)]
    /\ LET m == Head(inbox[l])  c == m[1]  n == m[2] IN
         \/ /\ Asks(m)
            /\ stream' = [stream EXCEPT ![c].at = "push"]
            /\ UNCHANGED <<log, answer>>
         \/ /\ c = Stranger
            /\ log' = [log EXCEPT ![l] = Append(@, m)]
            /\ UNCHANGED <<answer, stream>>
         \/ /\ c # Stranger /\ ~Asks(m) /\ Op(c, n) = "append"
            /\ log' = [log EXCEPT ![l] = Append(@, m)]
            /\ answer' = [answer EXCEPT ![c][n] = [kind |-> "ack", at |-> Len(log[l]) + 1]]
            /\ UNCHANGED stream
         \/ /\ c # Stranger /\ ~Asks(m) /\ Op(c, n) = "read"
            /\ answer' = [answer EXCEPT ![c][n] = [kind |-> "view", at |-> Len(log[l])]]
            /\ UNCHANGED <<log, stream>>
    /\ UNCHANGED <<client, session, way, alive, strange>>

(* Another connection's append waits for the same inbox. *)
Strange(l) ==
    /\ strange < MaxStrange /\ alive[l] /\ Len(inbox[l]) < Inbox
    /\ strange' = strange + 1
    /\ inbox' = [inbox EXCEPT ![l] = Append(@, <<Stranger, 1>>)]
    /\ UNCHANGED <<client, session, way, alive, log, answer, stream>>

(* The actor stops, and what is in its inbox is dropped with its senders. *)
ActorStops(l) ==
    /\ l \in Mortal /\ alive[l]
    /\ alive' = [alive EXCEPT ![l] = FALSE]
    /\ inbox' = [inbox EXCEPT ![l] = <<>>]
    /\ answer' = [c \in Conns |-> [n \in Requests(c) |->
                    IF Contains(inbox[l], <<c, n>>) THEN Dropped ELSE answer[c][n]]]
    /\ stream' = [c \in Conns |-> IF Contains(inbox[l], <<c, Idle>>)
                                  THEN [stream[c] EXCEPT !.at = "fail"] ELSE stream[c]]
    /\ UNCHANGED <<client, session, way, log, strange>>

-----------------------------------------------------------------------------
(* The stream task *)

Streaming(c, at) == stream[c].at = at
Moves(c, at) == stream' = [stream EXCEPT ![c].at = at]
Due(c) == Streaming(c, "loop") /\ stream[c].sent < Credit /\ stream[c].sent < Len(log[stream[c].log])

(* From the ring, *)
StreamReads(c) ==
    /\ Due(c)
    /\ Moves(c, "push")
    /\ UNCHANGED <<client, session, way, actor, strange>>

(* or from storage by way of the actor. *)
StreamAsks(c) ==
    /\ Due(c)
    /\ LET l == stream[c].log IN
         \/ /\ alive[l] /\ Len(inbox[l]) < Inbox
            /\ inbox' = [inbox EXCEPT ![l] = Append(@, <<c, Idle>>)]
            /\ Moves(c, "asked")
         \/ /\ ~alive[l] /\ Moves(c, "fail")
            /\ UNCHANGED inbox
    /\ UNCHANGED <<client, session, way, alive, log, answer, strange>>

StreamPushes(c) ==
    /\ Streaming(c, "push")
    /\ Send(c, Frame("stream", 0, "record", stream[c].sent + 1))
    /\ stream' = [stream EXCEPT ![c].at = IF writer[c] THEN "loop" ELSE "last", ![c].sent = @ + 1]
    /\ UNCHANGED <<client, session, up, writer, down, actor, strange>>

(* The actor did not answer: the stream says so before it ends. *)
StreamFails(c) ==
    /\ Streaming(c, "fail")
    /\ Send(c, Frame("stream", 0, "error", 0))
    /\ Moves(c, "last")
    /\ UNCHANGED <<client, session, up, writer, down, actor, strange>>

(* MUTANT of Cancelled: closing a session leaves its streams alone. *)
CancelledNever(c) == FALSE

(* A task with nothing to push parks, and leaves when the session's close   *)
(* drops its flow. An actor that stops leaves it parked: the sender of the  *)
(* watermark it waits on is in the Shared its own handle holds on to.        *)
Cancelled(c) == Over(c)
StreamLeaves(c) ==
    /\ Streaming(c, "loop") /\ ~Due(c)
    /\ Cancelled(c)
    /\ Moves(c, "last")
    /\ UNCHANGED <<client, session, way, actor, strange>>

StreamEnds(c) ==
    /\ Streaming(c, "last")
    /\ Send(c, Frame("stream", 0, "end", stream[c].sent))
    /\ Moves(c, "ended")
    /\ UNCHANGED <<client, session, up, writer, down, actor, strange>>

-----------------------------------------------------------------------------
Dispatch(c) == Take(c) \/ Reply(c) \/ Command(c) \/ Hand(c) \/ Close(c)
Pump(c) == PumpTake(c) \/ PumpSend(c) \/ PumpEnd(c)
Writer(c) == Write(c) \/ WriterEnd(c)
StreamTask(c) == StreamReads(c) \/ StreamAsks(c) \/ StreamPushes(c) 
                 \/ StreamFails(c) \/ StreamLeaves(c) \/ StreamEnds(c)

Next ==
    \/ \E c \in Conns :
          \/ ClientSend(c) \/ ClientRead(c) \/ Shut(c) \/ Vanish(c)
          \/ Dispatch(c) \/ Pump(c) \/ Writer(c) \/ StreamTask(c)
    \/ \E l \in Logs : Serve(l) \/ Strange(l) \/ ActorStops(l)

(* The runtime polls every task that can go on, and a client that is not  *)
(* deaf reads what it is sent. What is sent in all is bounded, so that no  *)
(* task can be kept from a permit for good.                                *)
Fairness ==
    /\ \A c \in Conns :
          /\ WF_vars(ClientRead(c)) /\ WF_vars(Dispatch(c)) /\ WF_vars(Pump(c))
          /\ WF_vars(Writer(c)) /\ WF_vars(StreamTask(c))
    /\ \A l \in Logs : WF_vars(Serve(l))

Spec == Init /\ [][Next]_vars /\ Fairness

-----------------------------------------------------------------------------
(* Properties *)

TypeOK ==
    /\ \A c \in Conns :
          /\ next[c] \in 1..(Len(program[c]) + 1)
          /\ life[c] \in {"open", "shut", "gone"}
          /\ hand[c].at \in {"read", "reply", "command", "pending", "over"}
          /\ Len(up[c]) <= Up /\ Len(down[c]) <= Down
          /\ Len(pending[c]) <= Pending /\ Len(outbox[c]) <= Outbox
          /\ stream[c].at \in {"none", "loop", "asked", "push", "fail", "last", "ended"}
          /\ stream[c].sent <= Credit
    /\ \A l \in Logs : Len(inbox[l]) <= Inbox

(* What a client has been sent, in the order it reads it. *)
Sent(c) == heard[c] \o down[c] \o outbox[c]
ByPump(c, k) == Sent(c)[k].of = "pump"

(* session.rs:227, of the pump: replies of actors reach a client in the order *)
(* it issued the requests, whichever log and however long each took.          *)
RepliesInOrder ==
    \A c \in Conns : \A i, j \in DOMAIN Sent(c) :
        i < j /\ ByPump(c, i) /\ ByPump(c, j) => Sent(c)[i].n < Sent(c)[j].n

(* Where request n, or the answer to it, is: in the socket, with the session, *)
(* the pump or its queue, or sent.                                            *)
Among(s, n) == {i \in DOMAIN s : s[i] = n}
Places(c, n) ==
    ({"up"} \X Among(up[c], n)) \cup ({"hand"} \X Among(<<hand[c].n>>, n))
    \cup ({"pending"} \X Among(pending[c], n)) \cup ({"pump"} \X Among(<<pump[c].n>>, n))
    \cup ({"sent"} \X {k \in DOMAIN Sent(c) : Sent(c)[k].of # "stream" /\ Sent(c)[k].n = n})

(* No request is answered twice, and while its connection is written to none  *)
(* goes missing between the socket, the session, the pump and the outbox.     *)
AnsweredOnce ==
    \A c \in Conns : \A n \in 1..(next[c] - 1) :
        /\ \A x, y \in Places(c, n) : x = y
        /\ writer[c] /\ life[c] # "gone" => Places(c, n) # {}

(* One connection's requests to a log take effect in the order it sent them:  *)
(* its appends are recorded in order, once each, an acknowledgement names the *)
(* very record, and a view holds every append the same connection sent before *)
(* it.                                                                        *)
TakesEffectInOrder ==
    /\ \A l \in Logs : \A i, j \in DOMAIN log[l] :
          i < j /\ log[l][i][1] = log[l][j][1] /\ log[l][i][1] # Stranger => log[l][i][2] < log[l][j][2]
    /\ \A c \in Conns : \A k \in DOMAIN Sent(c) :
          LET f == Sent(c)[k]  l == LogOf(c, f.n) IN ByPump(c, k) =>
          /\ f.kind = "ack" => f.at \in DOMAIN log[l] /\ log[l][f.at] = <<c, f.n>>
          /\ f.kind = "view" =>
                \A i \in DOMAIN log[l] : log[l][i][1] = c /\ log[l][i][2] < f.n => i <= f.at

(* A connection is one ordered exchange, whatever runs behind it.             *)
OrderedExchange == TypeOK /\ AnsweredOnce /\ RepliesInOrder /\ TakesEffectInOrder

(* session.rs:4-6, "Nothing here blocks on another stream": a client that     *)
(* reads hears the answer to everything it sent, its own starved streams,     *)
(* other users of the same logs, stopped actors and queues of one place       *)
(* notwithstanding; also when it has closed its sending side. What it sent    *)
(* behind a frame that does not decode is never read.                         *)
Heard(c, n) == \E k \in DOMAIN heard[c] : heard[c][k].of # "stream" /\ heard[c][k].n = n
Behind(c, n) == \E m \in 1..(n - 1) : Op(c, m) = "junk"
HeardAll(c) == \A n \in 1..(next[c] - 1) : Heard(c, n) \/ Behind(c, n)
Answered == \A c \in Conns : c \notin deaf /\ ~HeardAll(c) ~> HeardAll(c) \/ life[c] = "gone"

(* unix.rs:144-148: a connection that is over lets go of everything, its       *)
(* permit last: the session, the pump, the streams and the writer all end,     *)
(* unless the client holds on to a socket it does not read.                    *)
Released(c) == Over(c) /\ ~pump[c].on /\ ~writer[c] /\ stream[c].at \in {"none", "ended"}
ConnectionsEnd ==
    \A c \in Conns : life[c] = "gone" \/ (life[c] = "shut" /\ c \notin deaf) ~> Released(c)
=============================================================================
