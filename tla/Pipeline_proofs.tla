--------------------------- MODULE Pipeline_proofs ---------------------------
(* Proofs about Pipeline: a connection is one ordered exchange.              *)
EXTENDS Pipeline, SequenceTheorems, TLAPS

Kinds == {"none", "pong", "ok", "error", "dropped", "ack", "view", "record", "end"}
Frames == [of : {"session", "pump", "stream"}, n : Nat, kind : Kinds, at : Nat]
Replies == [kind : {"none", "dropped", "ack", "view"}, at : Nat]
Commands == (Conns \cup {Stranger}) \X Nat
Hands == [at : {"read", "reply", "command", "pending", "over"}, n : Nat, kind : Kinds]
Streams == [at : {"none", "loop", "asked", "push", "fail", "last", "ended"},
            log : Logs \cup {0}, sent : Nat]

ClientTypes ==
    /\ program \in [Conns -> Programs] /\ next \in [Conns -> Nat]
    /\ life \in [Conns -> {"open", "shut", "gone"}] /\ heard \in [Conns -> Seq(Frames)]
SessionTypes ==
    /\ hand \in [Conns -> Hands] /\ pending \in [Conns -> Seq(Nat)]
    /\ pump \in [Conns -> [on : BOOLEAN, n : Nat]]
WayTypes ==
    /\ up \in [Conns -> Seq(Nat)] /\ down \in [Conns -> Seq(Frames)]
    /\ outbox \in [Conns -> Seq(Frames)] /\ writer \in [Conns -> BOOLEAN]
AnswerTypes ==
    /\ answer = [c \in Conns |-> answer[c]]
    /\ \A c \in Conns : answer[c] \in [Requests(c) -> Replies]
ActorTypes ==
    /\ inbox \in [Logs -> Seq(Commands)] /\ log \in [Logs -> Seq(Commands)]
    /\ AnswerTypes
Typed ==
    /\ ClientTypes /\ SessionTypes /\ WayTypes /\ ActorTypes
    /\ stream \in [Conns -> Streams]

\* Every queue keeps its limit, a stream its credit.
Limited ==
    /\ \A c \in Conns :
          /\ Len(up[c]) <= Up /\ Len(down[c]) <= Down
          /\ Len(pending[c]) <= Pending /\ Len(outbox[c]) <= Outbox
          /\ stream[c].sent <= Credit
          /\ stream[c].at \in {"asked", "push"} => stream[c].sent < Credit
    /\ \A l \in Logs : Len(inbox[l]) <= Inbox

-----------------------------------------------------------------------------
\* How far the session has come: the first request it has not taken, the first it
\* has not dealt with, the first it has not given to an actor.
Taken(c) == next[c] - Len(up[c])
Busy(c) == hand[c].at \in {"reply", "command", "pending"}
Passed(c) == IF Busy(c) THEN Taken(c) - 1 ELSE Taken(c)
Issued(c) == IF hand[c].at = "command" THEN Taken(c) - 1 ELSE Taken(c)

\* The requests in the socket and the one in the session are the latest, in order.
LinedUp(c) ==
    /\ next[c] \in 1..(Len(program[c]) + 1) /\ Taken(c) >= 1
    /\ \A i \in DOMAIN up[c] : up[c][i] = Taken(c) + i - 1
    /\ hand[c].n = (IF Busy(c) THEN Taken(c) - 1 ELSE Idle)
    /\ Busy(c) => Taken(c) > 1

\* What the pump waits for is in order, behind what it has sent and before what
\* the session has in hand; an answer is sent once.
Answers(c, k) == Sent(c)[k].of # "stream"
Ordered(c) ==
    /\ pump[c].n < Passed(c)
    /\ \A i \in DOMAIN pending[c] : pump[c].n < pending[c][i] /\ pending[c][i] < Passed(c)
    /\ \A i, j \in DOMAIN pending[c] : i < j => pending[c][i] < pending[c][j]
    /\ \A k \in DOMAIN Sent(c) : Answers(c, k) =>
          /\ Sent(c)[k].n \in 1..(Passed(c) - 1) /\ Sent(c)[k].n # pump[c].n
          /\ \A i \in DOMAIN pending[c] : Sent(c)[k].n # pending[c][i]
    /\ \A j, k \in DOMAIN Sent(c) :
          Answers(c, j) /\ Answers(c, k) /\ Sent(c)[j].n = Sent(c)[k].n => j = k
    /\ \A k \in DOMAIN Sent(c) : ByPump(c, k) =>
          /\ pump[c].n # Idle => Sent(c)[k].n < pump[c].n
          /\ \A i \in DOMAIN pending[c] : Sent(c)[k].n < pending[c][i]
    /\ \A j, k \in DOMAIN Sent(c) :
          j < k /\ ByPump(c, j) /\ ByPump(c, k) => Sent(c)[j].n < Sent(c)[k].n

\* As long as the connection is written to, every request the session has dealt with
\* is with the pump or answered.
Complete(c) ==
    writer[c] /\ life[c] # "gone" =>
        \A n \in 1..(Passed(c) - 1) :
            \/ n = pump[c].n
            \/ \E i \in DOMAIN pending[c] : pending[c][i] = n
            \/ \E k \in DOMAIN Sent(c) : Answers(c, k) /\ Sent(c)[k].n = n

-----------------------------------------------------------------------------
\* A request of c, in an inbox or a log.
Of(m, c) == m[1] = c /\ m[2] # Idle

\* Requests wait at the actor they are for, unanswered, in the order of sending.
Queued(c) ==
    \A l \in Logs :
        /\ \A i \in DOMAIN inbox[l] : Of(inbox[l][i], c) =>
              /\ inbox[l][i][2] \in Requests(c) /\ inbox[l][i][2] < Issued(c)
              /\ LogOf(c, inbox[l][i][2]) = l /\ answer[c][inbox[l][i][2]] = Unanswered
        /\ \A i, j \in DOMAIN inbox[l] :
              i < j /\ Of(inbox[l][i], c) /\ Of(inbox[l][j], c) => inbox[l][i][2] < inbox[l][j][2]

\* What is recorded was sent before what waits, and is in the order of sending.
Recorded(c) ==
    \A l \in Logs :
        /\ \A i \in DOMAIN log[l] : log[l][i][1] = c =>
              /\ log[l][i][2] < Issued(c)
              /\ \A j \in DOMAIN inbox[l] : Of(inbox[l][j], c) => log[l][i][2] < inbox[l][j][2]
        /\ \A i, j \in DOMAIN log[l] :
              i < j /\ log[l][i][1] = c /\ log[l][j][1] = c => log[l][i][2] < log[l][j][2]

\* What is answered was sent before what waits at the same actor, and is true.
Decided(c) ==
    \A n \in Requests(c) : answer[c][n] # Unanswered =>
        LET l == LogOf(c, n)  a == answer[c][n] IN
        /\ n < Issued(c)
        /\ \A j \in DOMAIN inbox[l] : Of(inbox[l][j], c) => n < inbox[l][j][2]
        /\ a.kind = "ack" => a.at \in DOMAIN log[l] /\ log[l][a.at] = <<c, n>>
        /\ a.kind = "view" =>
              \A i \in DOMAIN log[l] : log[l][i][1] = c /\ log[l][i][2] < n => i <= a.at

\* What the pump sends is what the actor answered.
Told(c) ==
    \A k \in DOMAIN Sent(c) : ByPump(c, k) =>
        /\ Sent(c)[k].n \in Requests(c) /\ answer[c][Sent(c)[k].n] # Unanswered
        /\ answer[c][Sent(c)[k].n] = [kind |-> Sent(c)[k].kind, at |-> Sent(c)[k].at]

\* A stream asks an actor once at a time; it is there since its subscription was
\* answered, so a connection never starts a second one.
Asking(c) ==
    /\ \A l \in Logs : \A i \in DOMAIN inbox[l] : inbox[l][i] = <<c, Idle>> =>
          /\ stream[c].at = "asked"
          /\ \A l2 \in Logs : \A j \in DOMAIN inbox[l2] : inbox[l2][j] = <<c, Idle>> => l2 = l /\ j = i
    /\ stream[c].at # "none" =>
          /\ stream[c].log \in Logs
          /\ \E m \in 1..(Passed(c) - 1) : Op(c, m) = "subscribe"
Strangers ==
    \A l \in Logs : \A i \in DOMAIN inbox[l] : inbox[l][i][1] = Stranger => inbox[l][i][2] # Idle

Exchange(c) == LinedUp(c) /\ Ordered(c) /\ Complete(c)
Effects(c) == Queued(c) /\ Recorded(c) /\ Decided(c) /\ Told(c)
Inv ==
    /\ Typed /\ Limited /\ Strangers
    /\ \A c \in Conns : Exchange(c) /\ Effects(c) /\ Asking(c)

-----------------------------------------------------------------------------
(* Types *)

\* The pump takes the oldest.
LEMMA OldestFirst ==
    ASSUME NEW q \in Seq(Nat), q # <<>>
    PROVE  RemoveAt(q, Oldest(q)) = Tail(q) /\ q[Oldest(q)] = Head(q) /\ Head(q) \in Nat
  <1>1. /\ SubSeq(q, 1, 1 - 1) = <<>> /\ SubSeq(q, 1 + 1, Len(q)) = Tail(q)
        /\ Tail(q) \in Seq(Nat)
    OBVIOUS
  <1>2. <<>> \o Tail(q) = Tail(q)
    BY <1>1
  <1>. QED
    BY <1>1, <1>2 DEF RemoveAt, Oldest

\* An inbox with one more command.
LEMMA EnqueueTypes ==
    ASSUME ActorTypes, NEW l, NEW m \in Commands, inbox' = [inbox EXCEPT ![l] = Append(@, m)]
    PROVE  inbox' \in [Logs -> Seq(Commands)]
  <1>1. inbox \in [Logs -> Seq(Commands)]
    BY DEF ActorTypes
  <1>2. CASE l \in Logs
    <2>1. inbox[l] \in Seq(Commands)
      BY <1>1, <1>2
    <2>2. Append(inbox[l], m) \in Seq(Commands)
      BY <2>1
    <2>. QED
      BY <1>1, <2>2
  <1>3. CASE l \notin Logs
    BY <1>1, <1>3
  <1>. QED
    BY <1>2, <1>3

\* A frame is put in the outbox, or lost with the writer.
LEMMA SendTypes ==
    ASSUME WayTypes, NEW c \in Conns, NEW f \in Frames, Send(c, f)
    PROVE  outbox' \in [Conns -> Seq(Frames)]
  <1>1. outbox[c] \in Seq(Frames) /\ outbox \in [Conns -> Seq(Frames)]
    BY DEF WayTypes
  <1>2. Append(outbox[c], f) \in Seq(Frames)
    BY <1>1
  <1>. QED
    BY <1>1, <1>2 DEF Send

\* A connection that has sent nothing yet, and logs that are empty.
LEMMA TypedInit == Init => Typed
  <1>. SUFFICES ASSUME Init PROVE Typed
    OBVIOUS
  <1>1. ClientTypes /\ SessionTypes /\ WayTypes
    BY DEF Init, ClientTypes, SessionTypes, WayTypes, Hands, Kinds, Reading, Idle
  <1>2. ActorTypes
    BY DEF Init, ActorTypes, AnswerTypes, Unanswered, Replies
  <1>3. stream \in [Conns -> Streams]
    BY DEF Init, Streams, NoStream
  <1>. QED
    BY <1>1, <1>2, <1>3 DEF Typed

\* What the client and the session do.
LEMMA TypedClient ==
    ASSUME Typed, NEW c \in Conns, Busy(c) => hand[c].n \in Requests(c),
           ClientSend(c) \/ ClientRead(c) \/ Shut(c) \/ Vanish(c) \/ Dispatch(c)
    PROVE  Typed'
  <1>. USE DEF Typed, vars, client, session, way, actor
  <1>1. program \in [Conns -> Programs] /\ Programs \subseteq Seq(Ops \X Logs)
    BY PipelineAssumption DEF ClientTypes
  <1>2. CASE ClientSend(c)
    <2>1. next' \in [Conns -> Nat] /\ up' \in [Conns -> Seq(Nat)]
      BY <1>2 DEF ClientSend, ClientTypes, WayTypes
    <2>. QED
      BY <1>2, <2>1 DEF ClientSend, ClientTypes, SessionTypes, WayTypes, ActorTypes, AnswerTypes, Requests
  <1>3. CASE ClientRead(c)
    <2>1. /\ Head(down[c]) \in Frames /\ Tail(down[c]) \in Seq(Frames)
          /\ heard[c] \in Seq(Frames)
      BY <1>3 DEF ClientRead, WayTypes, ClientTypes
    <2>2. heard' \in [Conns -> Seq(Frames)] /\ down' \in [Conns -> Seq(Frames)]
      BY <1>3, <2>1 DEF ClientRead, ClientTypes, WayTypes
    <2>. QED
      BY <1>3, <2>2 DEF ClientRead, ClientTypes, SessionTypes, WayTypes, ActorTypes, AnswerTypes, Requests
  <1>4. CASE Shut(c)
    BY <1>4 DEF Shut, ClientTypes, SessionTypes, WayTypes, ActorTypes, AnswerTypes, Requests
  <1>5. CASE Vanish(c)
    <2>1. down' \in [Conns -> Seq(Frames)]
      BY <1>5 DEF Vanish, WayTypes
    <2>. QED
      BY <1>5, <2>1 DEF Vanish, ClientTypes, SessionTypes, WayTypes, ActorTypes, AnswerTypes, Requests
  <1>6. CASE Take(c)
    <2>1. Head(up[c]) \in Nat /\ Tail(up[c]) \in Seq(Nat)
      BY <1>6 DEF Take, WayTypes
    <2>2. Dispatched(c, Head(up[c])) \in Hands
      BY <2>1 DEF Dispatched, Replying, Hands, Kinds
    <2>3. hand' \in [Conns -> Hands] /\ up' \in [Conns -> Seq(Nat)]
      BY <1>6, <2>1, <2>2 DEF Take, SessionTypes, WayTypes
    <2>. QED
      BY <1>6, <2>3 DEF Take, ClientTypes, SessionTypes, WayTypes, ActorTypes, AnswerTypes, Requests
  <1>7. CASE Reply(c)
    <2>. DEFINE n == hand[c].n
    <2>1. hand[c] \in Hands /\ Reading \in Hands /\ Finished \in Hands
      BY DEF SessionTypes, Hands, Reading, Finished, Kinds, Idle
    <2>2. Frame("session", n, hand[c].kind, 0) \in Frames
      BY <2>1 DEF Frame, Frames, Hands
    <2>3. outbox' \in [Conns -> Seq(Frames)]
      BY <1>7, <2>2, SendTypes DEF Reply
    <2>4. hand' \in [Conns -> Hands]
      BY <1>7, <2>1 DEF Reply, SessionTypes
    <2>5. stream' \in [Conns -> Streams]
      <3>1. CASE Op(c, n) = "subscribe"
        <4>1. stream' = [stream EXCEPT ![c] = [at |-> "loop", log |-> LogOf(c, n), sent |-> 0]]
          BY <1>7, <3>1 DEF Reply
        <4>2. program[c] \in Seq(Ops \X Logs) /\ n \in DOMAIN program[c]
          BY <1>1, <1>7 DEF Reply, Busy, Requests
        <4>3. LogOf(c, n) \in Logs
          BY <4>2 DEF LogOf
        <4>. QED
          BY <4>1, <4>3 DEF Streams
      <3>. QED
        BY <1>7, <3>1 DEF Reply
    <2>. QED
      BY <1>7, <2>3, <2>4, <2>5 DEF Reply, ClientTypes, SessionTypes, WayTypes, ActorTypes, AnswerTypes, Requests
  <1>8. CASE Command(c)
    <2>. DEFINE n == hand[c].n
                l == LogOf(c, n)
    <2>1. hand[c] \in Hands /\ n \in Nat /\ <<c, n>> \in Commands
      BY DEF SessionTypes, Hands, Commands
    <2>2. /\ \A at \in {"pending"} : [hand EXCEPT ![c].at = at] \in [Conns -> Hands]
          /\ [hand EXCEPT ![c] = Replying(n, "error")] \in [Conns -> Hands]
      BY <2>1 DEF SessionTypes, Hands, Replying, Kinds
    <2>3. hand' \in [Conns -> Hands]
      BY <1>8, <2>2 DEF Command
    <2>4. inbox' \in [Logs -> Seq(Commands)]
      <3>1. CASE alive[l] /\ inbox' = [inbox EXCEPT ![l] = Enqueued(@, <<c, n>>)]
        <4>1. inbox' = [inbox EXCEPT ![l] = Append(@, <<c, n>>)]
          BY <3>1 DEF Enqueued
        <4>. QED
          BY <2>1, <4>1, EnqueueTypes
      <3>2. CASE UNCHANGED inbox
        BY <3>2 DEF ActorTypes
      <3>. QED
        BY <1>8, <3>1, <3>2 DEF Command
    <2>. QED
      BY <1>8, <2>3, <2>4 DEF Command, ClientTypes, SessionTypes, WayTypes, ActorTypes, AnswerTypes, Requests
  <1>9. CASE Hand(c)
    <2>1. hand[c] \in Hands /\ hand[c].n \in Nat /\ Reading \in Hands
          /\ Replying(hand[c].n, "error") \in Hands
      BY DEF SessionTypes, Hands, Reading, Replying, Kinds, Idle
    <2>2. pending[c] \in Seq(Nat)
      BY DEF SessionTypes
    <2>3. Append(pending[c], hand[c].n) \in Seq(Nat)
      BY <2>1, <2>2
    <2>4. hand' \in [Conns -> Hands] /\ pending' \in [Conns -> Seq(Nat)]
      BY <1>9, <2>1, <2>3 DEF Hand, Await, SessionTypes
    <2>. QED
      BY <1>9, <2>4 DEF Hand, ClientTypes, SessionTypes, WayTypes, ActorTypes, AnswerTypes, Requests
  <1>10. CASE Close(c)
    <2>1. hand' \in [Conns -> Hands]
      BY <1>10 DEF Close, SessionTypes, Hands
    <2>. QED
      BY <1>10, <2>1 DEF Close, ClientTypes, SessionTypes, WayTypes, ActorTypes, AnswerTypes, Requests
  <1>. QED
    BY <1>2, <1>3, <1>4, <1>5, <1>6, <1>7, <1>8, <1>9, <1>10 DEF Dispatch

\* What the pump, the writer and the stream task do.
LEMMA TypedServer ==
    ASSUME Typed, NEW c \in Conns, pump[c].n # Idle => pump[c].n \in Requests(c),
           Pump(c) \/ Writer(c) \/ StreamTask(c)
    PROVE  Typed'
  <1>. USE DEF Typed, vars, client, session, way, actor
  <1>1. /\ pump[c] \in [on : BOOLEAN, n : Nat] /\ pending[c] \in Seq(Nat)
        /\ outbox[c] \in Seq(Frames) /\ down[c] \in Seq(Frames) /\ stream[c] \in Streams
    BY DEF SessionTypes, WayTypes
  <1>2. CASE PumpTake(c)
    <2>1. /\ pump' = [pump EXCEPT ![c].n = Head(pending[c])]
          /\ pending' = [pending EXCEPT ![c] = Tail(pending[c])]
          /\ Head(pending[c]) \in Nat /\ Tail(pending[c]) \in Seq(Nat)
      <3>. DEFINE q == pending[c]
      <3>1. q \in Seq(Nat) /\ q # <<>>
        BY <1>1, <1>2 DEF PumpTake
      <3>2. /\ pump' = [pump EXCEPT ![c].n = q[Oldest(q)]]
            /\ pending' = [pending EXCEPT ![c] = RemoveAt(q, Oldest(q))]
        BY <1>2 DEF PumpTake
      <3>3. Tail(q) \in Seq(Nat)
        BY <3>1
      <3>. QED
        BY <3>1, <3>2, <3>3, OldestFirst
    <2>2. pump' \in [Conns -> [on : BOOLEAN, n : Nat]] /\ pending' \in [Conns -> Seq(Nat)]
      BY <2>1 DEF SessionTypes
    <2>. QED
      BY <1>2, <2>2 DEF PumpTake, ClientTypes, SessionTypes, WayTypes, ActorTypes, AnswerTypes, Requests
  <1>3. CASE PumpSend(c)
    <2>. DEFINE n == pump[c].n
                a == answer[c][n]
                f == Frame("pump", n, a.kind, a.at)
    <2>1. outbox' \in [Conns -> Seq(Frames)]
      <3>1. a \in Replies
        BY <1>3 DEF ActorTypes, AnswerTypes, PumpSend
      <3>2. f \in Frames
        BY <1>1, <3>1 DEF Frame, Frames, Replies, Kinds
      <3>. HIDE DEF f
      <3>3. Send(c, f)
        BY <1>3 DEF PumpSend, f
      <3>. QED
        BY <3>2, <3>3, SendTypes
    <2>2. pump' \in [Conns -> [on : BOOLEAN, n : Nat]] /\ pending' \in [Conns -> Seq(Nat)]
      BY <1>3 DEF PumpSend, SessionTypes, WayTypes, Idle
    <2>. QED
      BY <1>3, <2>1, <2>2 DEF PumpSend, ClientTypes, SessionTypes, WayTypes, ActorTypes, AnswerTypes, Requests
  <1>4. CASE PumpEnd(c)
    <2>1. pump' \in [Conns -> [on : BOOLEAN, n : Nat]]
      BY <1>4 DEF PumpEnd, SessionTypes
    <2>. QED
      BY <1>4, <2>1 DEF PumpEnd, ClientTypes, SessionTypes, WayTypes, ActorTypes, AnswerTypes, Requests
  <1>5. CASE Write(c)
    <2>1. /\ Head(outbox[c]) \in Frames /\ Tail(outbox[c]) \in Seq(Frames)
      BY <1>1, <1>5 DEF Write
    <2>2. Append(down[c], Head(outbox[c])) \in Seq(Frames) /\ <<>> \in Seq(Frames)
      BY <1>1, <2>1
    <2>3. /\ outbox' \in [Conns -> Seq(Frames)] /\ down' \in [Conns -> Seq(Frames)]
          /\ writer' \in [Conns -> BOOLEAN]
      BY <1>5, <2>1, <2>2 DEF Write, WayTypes
    <2>. QED
      BY <1>5, <2>3 DEF Write, ClientTypes, SessionTypes, WayTypes, ActorTypes, AnswerTypes, Requests
  <1>6. CASE WriterEnd(c)
    BY <1>6 DEF WriterEnd, ClientTypes, SessionTypes, WayTypes, ActorTypes, AnswerTypes, Requests
  <1>7. \A at \in {"push", "asked", "fail", "last", "ended"} :
            Moves(c, at) => stream' \in [Conns -> Streams]
    BY DEF Moves, Streams
  <1>8. CASE StreamReads(c)
    <2>1. stream' \in [Conns -> Streams]
      BY <1>7, <1>8 DEF StreamReads
    <2>. QED
      BY <1>8, <2>1 DEF StreamReads, ClientTypes, SessionTypes, WayTypes, ActorTypes, AnswerTypes, Requests
  <1>9. CASE StreamAsks(c)
    <2>1. stream' \in [Conns -> Streams]
      BY <1>7, <1>9 DEF StreamAsks
    <2>2. <<c, Idle>> \in Commands
      BY DEF Commands, Idle
    <2>3. inbox' \in [Logs -> Seq(Commands)]
      <3>1. CASE UNCHANGED inbox
        BY <3>1 DEF ActorTypes
      <3>. QED
        BY <1>9, <2>2, <3>1, EnqueueTypes DEF StreamAsks
    <2>. QED
      BY <1>9, <2>1, <2>3 DEF StreamAsks, ClientTypes, SessionTypes, WayTypes, ActorTypes, AnswerTypes, Requests
  <1>10. CASE StreamPushes(c)
    <2>1. Frame("stream", 0, "record", stream[c].sent + 1) \in Frames
      BY <1>1 DEF Frame, Frames, Streams, Kinds
    <2>2. outbox' \in [Conns -> Seq(Frames)]
      BY <1>10, <2>1, SendTypes DEF StreamPushes
    <2>3. stream' \in [Conns -> Streams]
      BY <1>1, <1>10 DEF StreamPushes, Streams
    <2>. QED
      BY <1>10, <2>2, <2>3 DEF StreamPushes, ClientTypes, SessionTypes, WayTypes, ActorTypes, AnswerTypes, Requests
  <1>11. CASE StreamFails(c)
    <2>1. Frame("stream", 0, "error", 0) \in Frames
      BY DEF Frame, Frames, Kinds
    <2>2. outbox' \in [Conns -> Seq(Frames)] /\ stream' \in [Conns -> Streams]
      BY <1>7, <1>11, <2>1, SendTypes DEF StreamFails
    <2>. QED
      BY <1>11, <2>2 DEF StreamFails, ClientTypes, SessionTypes, WayTypes, ActorTypes, AnswerTypes, Requests
  <1>12. CASE StreamLeaves(c)
    <2>1. stream' \in [Conns -> Streams]
      BY <1>7, <1>12 DEF StreamLeaves
    <2>. QED
      BY <1>12, <2>1 DEF StreamLeaves, ClientTypes, SessionTypes, WayTypes, ActorTypes, AnswerTypes, Requests
  <1>13. CASE StreamEnds(c)
    <2>1. Frame("stream", 0, "end", stream[c].sent) \in Frames
      BY <1>1 DEF Frame, Frames, Streams, Kinds
    <2>2. outbox' \in [Conns -> Seq(Frames)] /\ stream' \in [Conns -> Streams]
      BY <1>7, <1>13, <2>1, SendTypes DEF StreamEnds
    <2>. QED
      BY <1>13, <2>2 DEF StreamEnds, ClientTypes, SessionTypes, WayTypes, ActorTypes, AnswerTypes, Requests
  <1>. QED
    BY <1>2, <1>3, <1>4, <1>5, <1>6, <1>8, <1>9, <1>10, <1>11, <1>12, <1>13
       DEF Pump, Writer, StreamTask

\* What the actors do.
LEMMA TypedActor ==
    ASSUME Typed, NEW l \in Logs, Serve(l) \/ Strange(l) \/ ActorStops(l),
           \A c \in Conns, n \in Nat : (\E i \in DOMAIN inbox[l] : inbox[l][i] = <<c, n>>) /\ n # Idle
                                    => n \in Requests(c)
    PROVE  Typed'
  <1>. USE DEF Typed, vars, client, session, way, actor
  <1>1. inbox[l] \in Seq(Commands) /\ log[l] \in Seq(Commands)
    BY DEF ActorTypes
  <1>2. CASE Serve(l)
    <2>. DEFINE m == Head(inbox[l])
                c == m[1]
                n == m[2]
    <2>1. m \in Commands /\ Tail(inbox[l]) \in Seq(Commands) /\ inbox[l][1] = m /\ 1 \in DOMAIN inbox[l]
      BY <1>1, <1>2 DEF Serve
    <2>2. Append(log[l], m) \in Seq(Commands) /\ Len(log[l]) \in Nat
      BY <1>1, <2>1
    <2>3. m = <<c, n>> /\ n \in Nat /\ c \in Conns \cup {Stranger}
      BY <2>1 DEF Commands
    <2>4. inbox' \in [Logs -> Seq(Commands)] /\ log' \in [Logs -> Seq(Commands)]
      <3>1. log' = [log EXCEPT ![l] = Append(@, m)] \/ log' = log
        BY <1>2 DEF Serve
      <3>2. inbox' = [inbox EXCEPT ![l] = Tail(inbox[l])]
        BY <1>2 DEF Serve
      <3>. QED
        BY <2>1, <2>2, <3>1, <3>2 DEF ActorTypes
    <2>5. AnswerTypes'
      <3>1. UNCHANGED program
        BY <1>2 DEF Serve
      <3>2. CASE UNCHANGED answer
        BY <3>1, <3>2 DEF ActorTypes, AnswerTypes, Requests
      <3>3. ASSUME NEW a \in Replies, c \in Conns, n \in Requests(c), answer' = [answer EXCEPT ![c][n] = a]
            PROVE  AnswerTypes'
        BY <3>1, <3>3 DEF ActorTypes, AnswerTypes, Requests
      <3>4. CASE UNCHANGED answer \/ (c # Stranger /\ n # Idle /\ \E a \in Replies : answer' = [answer EXCEPT ![c][n] = a])
        BY <2>1, <2>3, <3>2, <3>3, <3>4
      <3>5. \A kind \in {"ack", "view"} : /\ [kind |-> kind, at |-> Len(log[l]) + 1] \in Replies
                                         /\ [kind |-> kind, at |-> Len(log[l])] \in Replies
        BY <2>2 DEF Replies
      <3>. QED
        BY <1>2, <3>4, <3>5 DEF Serve, Asks
    <2>6. stream' \in [Conns -> Streams]
      <3>1. CASE UNCHANGED stream
        BY <3>1
      <3>2. CASE stream' = [stream EXCEPT ![c].at = "push"]
        BY <3>2 DEF Streams
      <3>. QED
        BY <1>2, <3>1, <3>2 DEF Serve
    <2>. QED
      BY <1>2, <2>4, <2>5, <2>6 DEF Serve, ClientTypes, SessionTypes, WayTypes, ActorTypes
  <1>3. CASE Strange(l)
    <2>1. <<Stranger, 1>> \in Commands /\ inbox' = [inbox EXCEPT ![l] = Append(@, <<Stranger, 1>>)]
      BY <1>3 DEF Strange, Commands
    <2>2. inbox' \in [Logs -> Seq(Commands)]
      BY <2>1, EnqueueTypes
    <2>. QED
      BY <1>3, <2>2 DEF Strange, ClientTypes, SessionTypes, WayTypes, ActorTypes, AnswerTypes, Requests
  <1>4. CASE ActorStops(l)
    <2>1. inbox' \in [Logs -> Seq(Commands)]
      BY <1>4 DEF ActorStops, ActorTypes
    <2>2. AnswerTypes'
      <3>1. Dropped \in Replies
        BY DEF Dropped, Replies
      <3>. QED
        BY <1>4, <3>1 DEF ActorStops, ActorTypes, AnswerTypes, Requests
    <2>3. stream' \in [Conns -> Streams]
      <3>1. \A c \in Conns : stream[c] \in Streams /\ [stream[c] EXCEPT !.at = "fail"] \in Streams
        BY DEF Streams
      <3>. QED
        BY <1>4, <3>1 DEF ActorStops
    <2>. QED
      BY <1>4, <2>1, <2>2, <2>3 DEF ActorStops, ClientTypes, SessionTypes, WayTypes, ActorTypes
  <1>. QED
    BY <1>2, <1>3, <1>4

-----------------------------------------------------------------------------
(* What a step does to the line of requests and answers of one connection *)

\* A sequence of frames from which some were taken out.
Thinned(s, t) ==
    \E f \in [DOMAIN s -> DOMAIN t] :
        /\ \A i \in DOMAIN s : s[i] = t[f[i]]
        /\ \A i, j \in DOMAIN s : i < j => f[i] < f[j]

InPlace(c) ==
    /\ next'[c] = next[c] /\ up'[c] = up[c] /\ (Busy(c)' <=> Busy(c)) /\ hand'[c].n = hand[c].n
    /\ pending'[c] = pending[c] /\ pump'[c].n = pump[c].n
Fades(c) == (writer'[c] => writer[c]) /\ (life'[c] # "gone" => life[c] # "gone")

Stays(c) == InPlace(c) /\ Fades(c) /\ Sent(c)' = Sent(c)
Loses(c) == InPlace(c) /\ ~(writer'[c] /\ life'[c] # "gone") /\ Thinned(Sent(c)', Sent(c))
Pushes(c) ==
    /\ InPlace(c) /\ Fades(c)
    /\ \E f \in Frames : f.of = "stream" /\ Sent(c)' = Append(Sent(c), f)
Issues(c) ==
    /\ next[c] \in Requests(c) /\ next'[c] = next[c] + 1 /\ up'[c] = Append(up[c], next[c])
    /\ (Busy(c)' <=> Busy(c)) /\ UNCHANGED <<hand[c], pending[c], pump[c], writer[c], life[c], Sent(c)>>
Begins(c) ==
    /\ hand[c].at = "read" /\ up[c] # <<>> /\ Busy(c)'
    /\ hand'[c].n = Head(up[c]) /\ up'[c] = Tail(up[c])
    /\ UNCHANGED <<next[c], pending[c], pump[c], writer[c], life[c], Sent(c)>>
Settles(c) ==
    /\ Busy(c) /\ ~Busy(c)' /\ hand'[c].n = Idle
    /\ \/ ~writer[c] /\ Sent(c)' = Sent(c)
       \/ \E f \in Frames : f.of = "session" /\ f.n = hand[c].n /\ Sent(c)' = Append(Sent(c), f)
    /\ UNCHANGED <<next[c], up[c], pending[c], pump[c], writer[c], life[c]>>
Leaves(c) ==
    /\ Busy(c) /\ ~Busy(c)' /\ hand'[c].n = Idle /\ pending'[c] = Append(pending[c], hand[c].n)
    /\ UNCHANGED <<next[c], up[c], pump[c], writer[c], life[c], Sent(c)>>
Awaits(c) ==
    /\ pump[c].n = Idle /\ pending[c] # <<>>
    /\ pump'[c].n = Head(pending[c]) /\ pending'[c] = Tail(pending[c])
    /\ UNCHANGED <<next[c], up[c], hand[c], writer[c], life[c], Sent(c)>>
Tells(c) ==
    /\ pump[c].n # Idle /\ pump'[c].n = Idle
    /\ \/ ~writer[c] /\ pending'[c] = <<>> /\ Sent(c)' = Sent(c)
       \/ /\ pending'[c] = pending[c]
          /\ \E f \in Frames :
                /\ f.of = "pump" /\ f.n = pump[c].n /\ Sent(c)' = Append(Sent(c), f)
                /\ f.n \in Requests(c) /\ answer[c][f.n] # Unanswered
                /\ answer[c][f.n] = [kind |-> f.kind, at |-> f.at]
    /\ UNCHANGED <<next[c], up[c], hand[c], writer[c], life[c]>>

Moved(c) ==
    \/ Stays(c) \/ Loses(c) \/ Pushes(c) \/ Issues(c) \/ Begins(c)
    \/ Settles(c) \/ Leaves(c) \/ Awaits(c) \/ Tells(c)

\* What a connection sends, as one sequence.
LEMMA SentIs ==
    ASSUME Typed, NEW c \in Conns
    PROVE  /\ heard[c] \in Seq(Frames) /\ down[c] \in Seq(Frames) /\ outbox[c] \in Seq(Frames)
           /\ Sent(c) \in Seq(Frames)
  BY DEF Typed, ClientTypes, WayTypes, Sent

\* Putting a frame in the outbox puts it behind all that was sent.
LEMMA SentAppends ==
    ASSUME NEW a \in Seq(Frames), NEW b \in Seq(Frames), NEW d \in Seq(Frames), NEW f \in Frames
    PROVE  a \o b \o Append(d, f) = Append(a \o b \o d, f)
  <1>1. a \o b \in Seq(Frames) /\ <<f>> \in Seq(Frames) /\ (a \o b) \o d \in Seq(Frames)
    OBVIOUS
  <1>2. Append(d, f) = d \o <<f>> /\ Append((a \o b) \o d, f) = ((a \o b) \o d) \o <<f>>
    BY <1>1, AppendIsConcat
  <1>3. ((a \o b) \o d) \o <<f>> = (a \o b) \o (d \o <<f>>)
    BY <1>1, ConcatAssociative
  <1>. QED
    BY <1>2, <1>3

\* A frame that goes into the outbox is the last that is sent.
LEMMA SentLast ==
    ASSUME Typed, NEW c \in Conns, NEW f \in Frames, Send(c, f), heard' = heard, down' = down
    PROVE  \/ writer[c] /\ Sent(c)' = Append(Sent(c), f)
           \/ ~writer[c] /\ Sent(c)' = Sent(c)
  <1>1. CASE writer[c] /\ outbox' = [outbox EXCEPT ![c] = Append(@, f)]
    <2>1. outbox'[c] = Append(outbox[c], f)
      BY <1>1 DEF Typed, WayTypes
    <2>2. Sent(c)' = heard[c] \o down[c] \o Append(outbox[c], f)
      BY <2>1 DEF Sent
    <2>3. heard[c] \o down[c] \o Append(outbox[c], f) = Append(heard[c] \o down[c] \o outbox[c], f)
      BY SentIs, SentAppends
    <2>. QED
      BY <1>1, <2>2, <2>3 DEF Sent
  <1>2. CASE ~writer[c] /\ UNCHANGED outbox
    BY <1>2 DEF Sent
  <1>. QED
    BY <1>1, <1>2 DEF Send

\* How the ways of a frame are put together does not matter.
LEMMA Regrouped ==
    ASSUME NEW q \in Seq(Frames), NEW e \in Seq(Frames), NEW t \in Seq(Frames)
    PROVE  (q \o e) \o t = q \o (e \o t)
  BY ConcatAssociative

\* Frames move from the outbox to the client in order.
LEMMA SentMoves ==
    ASSUME NEW a \in Seq(Frames), NEW b \in Seq(Frames), NEW d \in Seq(Frames)
    PROVE  /\ b # <<>> => Append(a, Head(b)) \o Tail(b) \o d = a \o b \o d
           /\ d # <<>> => a \o Append(b, Head(d)) \o Tail(d) = a \o b \o d
  <1>1. ASSUME NEW q \in Seq(Frames), NEW s \in Seq(Frames), s # <<>>
        PROVE  Append(q, Head(s)) \o Tail(s) = q \o s
    <2>. DEFINE e == <<Head(s)>>
                t == Tail(s)
    <2>1. Head(s) \in Frames /\ e \in Seq(Frames) /\ t \in Seq(Frames)
      BY <1>1
    <2>2. s = e \o t
      BY <1>1
    <2>3. Append(q, Head(s)) = q \o e
      BY <2>1, AppendIsConcat
    <2>. HIDE DEF e, t
    <2>4. (q \o e) \o t = q \o (e \o t)
      BY <2>1, Regrouped
    <2>. QED
      BY <2>2, <2>3, <2>4 DEF t
  <1>2. ASSUME d # <<>>
        PROVE  a \o Append(b, Head(d)) \o Tail(d) = a \o b \o d
    <2>1. Head(d) \in Frames /\ Tail(d) \in Seq(Frames) /\ a \o b \in Seq(Frames)
      BY <1>2
    <2>2. Append(b, Head(d)) = b \o <<Head(d)>> /\ <<Head(d)>> \in Seq(Frames)
      BY <2>1, AppendIsConcat
    <2>3. a \o (b \o <<Head(d)>>) = (a \o b) \o <<Head(d)>>
      BY <2>2, ConcatAssociative
    <2>4. (a \o b) \o <<Head(d)>> = Append(a \o b, Head(d))
      BY <2>1, AppendIsConcat
    <2>5. Append(a \o b, Head(d)) \o Tail(d) = (a \o b) \o d
      BY <1>1, <1>2, <2>1
    <2>. QED
      BY <2>2, <2>3, <2>4, <2>5
  <1>. QED
    BY <1>1, <1>2

\* What was under way is lost when the client goes.
LEMMA SentThinned ==
    ASSUME NEW a \in Seq(Frames), NEW b \in Seq(Frames), NEW d \in Seq(Frames)
    PROVE  /\ Thinned(a \o <<>> \o d, a \o b \o d)
           /\ Thinned(a \o b \o <<>>, a \o b \o d)
  <1>. DEFINE t == a \o b \o d
              u == a \o <<>> \o d
              v == a \o b \o <<>>
              f == [i \in DOMAIN u |-> IF i <= Len(a) THEN i ELSE i + Len(b)]
              g == [i \in DOMAIN v |-> i]
  <1>1. /\ Len(a) \in Nat /\ Len(b) \in Nat /\ Len(d) \in Nat
        /\ DOMAIN t = 1..(Len(a) + Len(b) + Len(d))
        /\ DOMAIN u = 1..(Len(a) + Len(d)) /\ DOMAIN v = 1..(Len(a) + Len(b))
    OBVIOUS
  <1>2. \A i \in DOMAIN u : f[i] \in DOMAIN t
    BY <1>1
  <1>3. \A i \in DOMAIN u : u[i] = t[f[i]]
    OBVIOUS
  <1>4. \A i \in DOMAIN v : i \in DOMAIN t /\ v[i] = t[i]
    OBVIOUS
  <1>5. \A i, j \in DOMAIN u : i < j => f[i] < f[j]
    BY <1>1
  <1>6. f \in [DOMAIN u -> DOMAIN t] /\ g \in [DOMAIN v -> DOMAIN t]
    BY <1>2, <1>4
  <1>7. /\ \A i \in DOMAIN v : v[i] = t[g[i]]
        /\ \A i, j \in DOMAIN v : i < j => g[i] < g[j]
    BY <1>4
  <1>. HIDE DEF t, u, v, f, g
  <1>8. Thinned(u, t) /\ Thinned(v, t)
    BY <1>3, <1>5, <1>6, <1>7 DEF Thinned
  <1>. QED
    BY <1>8 DEF t, u, v

Act(c) ==
    \/ ClientSend(c) \/ ClientRead(c) \/ Shut(c) \/ Vanish(c)
    \/ Dispatch(c) \/ Pump(c) \/ Writer(c) \/ StreamTask(c)

\* A connection's step leaves the lines of all others alone, and an actor's those of all.
LEMMA OthersStay ==
    ASSUME Typed, NEW c \in Conns, NEW d \in Conns, c # d, Act(c)
    PROVE  Stays(d) /\ hand'[d] = hand[d] /\ stream'[d] = stream[d]
  <1>. DEFINE Alone ==
           /\ UNCHANGED <<next[d], up[d], hand[d], pending[d], pump[d], heard[d], down[d], outbox[d]>>
           /\ UNCHANGED <<writer[d], life[d], stream[d]>>
  <1>. USE DEF vars, client, session, way, actor, Typed, ClientTypes, SessionTypes, WayTypes
  <1>1. ASSUME ClientSend(c) \/ ClientRead(c) \/ Shut(c) \/ Vanish(c)
        PROVE  Alone
    BY <1>1 DEF ClientSend, ClientRead, Shut, Vanish
  <1>2. ASSUME Take(c) \/ Command(c) \/ Hand(c) \/ Close(c)
        PROVE  Alone
    BY <1>2 DEF Take, Command, Hand, Await, Close
  <1>3. \A f : Send(c, f) => outbox'[d] = outbox[d]
    BY DEF Send
  <1>4. ASSUME Reply(c) \/ Pump(c)
        PROVE  Alone
    BY <1>3, <1>4 DEF Reply, Pump, PumpTake, PumpSend, PumpEnd
  <1>5. ASSUME Writer(c) \/ StreamTask(c)
        PROVE  Alone
    <2>1. \A at : Moves(c, at) => stream'[d] = stream[d]
      BY DEF Moves
    <2>. QED
      BY <1>3, <1>5, <2>1 DEF Writer, Write, WriterEnd, StreamTask, StreamReads, StreamAsks, StreamPushes,
                              StreamFails, StreamLeaves, StreamEnds
  <1>6. Alone
    BY <1>1, <1>2, <1>4, <1>5 DEF Act, Dispatch
  <1>. QED
    BY <1>6 DEF Stays, InPlace, Fades, Sent, Busy

\* An actor's step leaves every line alone.
LEMMA ActorStays ==
    ASSUME NEW l \in Logs, NEW d \in Conns, Serve(l) \/ Strange(l) \/ ActorStops(l)
    PROVE  Stays(d) /\ hand'[d] = hand[d]
  <1>1. UNCHANGED <<next, life, heard, hand, pending, pump, up, outbox, writer, down>>
    BY DEF Serve, Strange, ActorStops, client, session, way
  <1>. QED
    BY <1>1 DEF Stays, InPlace, Fades, Sent, Busy

\* What the client, the session, the pump, the writer and the stream task each do.
LEMMA OwnMoves ==
    ASSUME Typed, NEW c \in Conns, Act(c), LinedUp(c), pump[c].n # Idle => pump[c].n \in Requests(c)
    PROVE  Moved(c)
  <1>. USE DEF vars, client, session, way, actor
  <1>0. /\ heard[c] \in Seq(Frames) /\ down[c] \in Seq(Frames) /\ outbox[c] \in Seq(Frames)
        /\ up[c] \in Seq(Nat) /\ pending[c] \in Seq(Nat) /\ hand[c] \in Hands
        /\ pump[c] \in [on : BOOLEAN, n : Nat] /\ stream[c] \in Streams
    BY DEF Typed, ClientTypes, SessionTypes, WayTypes
  <1>. USE DEF Typed, ClientTypes, SessionTypes, WayTypes
  <1>1. CASE ClientSend(c)
    <2>1. Issues(c)
      BY <1>1 DEF ClientSend, Issues, Busy, Sent
    <2>. QED
      BY <2>1 DEF Moved
  <1>2. CASE ClientRead(c)
    <2>1. heard'[c] = Append(heard[c], Head(down[c])) /\ down'[c] = Tail(down[c]) /\ outbox' = outbox
      BY <1>2 DEF ClientRead
    <2>2. Sent(c)' = Sent(c)
      <3>1. down[c] # <<>>
        BY <1>2 DEF ClientRead
      <3>2. Append(heard[c], Head(down[c])) \o Tail(down[c]) \o outbox[c] = heard[c] \o down[c] \o outbox[c]
        BY <1>0, <3>1, SentMoves
      <3>. QED
        BY <2>1, <3>2 DEF Sent
    <2>3. Stays(c)
      BY <1>2, <2>2 DEF ClientRead, Stays, InPlace, Fades, Busy
    <2>. QED
      BY <2>3 DEF Moved
  <1>3. CASE Shut(c)
    <2>1. Stays(c)
      BY <1>3 DEF Shut, Stays, InPlace, Fades, Busy, Sent
    <2>. QED
      BY <2>1 DEF Moved
  <1>4. CASE Vanish(c)
    <2>1. Sent(c)' = heard[c] \o <<>> \o outbox[c]
      BY <1>4 DEF Vanish, Sent
    <2>2. Thinned(Sent(c)', Sent(c))
      BY <1>0, <2>1, SentThinned DEF Sent
    <2>3. InPlace(c) /\ life'[c] = "gone"
      BY <1>4 DEF Vanish, InPlace, Busy
    <2>. QED
      BY <2>2, <2>3 DEF Moved, Loses
  <1>5. CASE Take(c)
    <2>1. Dispatched(c, Head(up[c])).n = Head(up[c]) /\ Dispatched(c, Head(up[c])).at \in {"command", "reply"}
      BY DEF Dispatched, Replying
    <2>2. hand'[c] = Dispatched(c, Head(up[c]))
      BY <1>5 DEF Take
    <2>3. Begins(c)
      BY <1>5, <2>1, <2>2 DEF Take, Begins, Busy, Sent
    <2>. QED
      BY <2>3 DEF Moved
  <1>6. CASE Reply(c)
    <2>. DEFINE f == Frame("session", hand[c].n, hand[c].kind, 0)
    <2>1. f \in Frames /\ f.of = "session" /\ f.n = hand[c].n
      BY <1>0 DEF Frame, Frames, Hands
    <2>2. Send(c, f) /\ heard' = heard /\ down' = down
      BY <1>6 DEF Reply
    <2>3. Busy(c) /\ ~Busy(c)' /\ hand'[c].n = Idle
      <3>1. hand'[c] \in {Reading, Finished}
        BY <1>6 DEF Reply
      <3>. QED
        BY <1>6, <3>1 DEF Reply, Busy, Reading, Finished
    <2>. HIDE DEF f
    <2>4. Settles(c)
      BY <1>6, <2>1, <2>2, <2>3, SentLast DEF Reply, Settles
    <2>. QED
      BY <2>4 DEF Moved
  <1>7. CASE Command(c)
    <2>1. hand[c].at = "command" /\ hand'[c].at \in {"pending", "reply"} /\ hand'[c].n = hand[c].n
      <3>1. hand[c].at = "command"
        BY <1>7 DEF Command
      <3>2. \/ hand' = [hand EXCEPT ![c].at = "pending"]
            \/ hand' = [hand EXCEPT ![c] = Replying(hand[c].n, "error")]
        BY <1>7 DEF Command
      <3>. QED
        BY <1>0, <3>1, <3>2 DEF Replying, Hands
    <2>2. Stays(c)
      BY <1>7, <2>1 DEF Command, Stays, InPlace, Fades, Busy, Sent
    <2>. QED
      BY <2>2 DEF Moved
  <1>8. CASE Hand(c)
    <2>1. CASE pending' = [pending EXCEPT ![c] = Append(@, hand[c].n)] /\ hand' = [hand EXCEPT ![c] = Reading]
      <3>1. Leaves(c)
        BY <1>8, <2>1 DEF Hand, Leaves, Busy, Reading, Sent
      <3>. QED
        BY <3>1 DEF Moved
    <2>2. CASE UNCHANGED pending /\ hand' = [hand EXCEPT ![c] = Replying(hand[c].n, "error")]
      <3>1. Stays(c)
        BY <1>8, <2>2 DEF Hand, Stays, InPlace, Fades, Busy, Replying, Sent
      <3>. QED
        BY <3>1 DEF Moved
    <2>. QED
      BY <1>8, <2>1, <2>2 DEF Hand, Await
  <1>9. CASE Close(c)
    <2>1. Stays(c)
      BY <1>9 DEF Close, Stays, InPlace, Fades, Busy, Sent
    <2>. QED
      BY <2>1 DEF Moved
  <1>10. CASE PumpTake(c)
    <2>1. /\ pump'[c].n = pending[c][Oldest(pending[c])]
          /\ pending'[c] = RemoveAt(pending[c], Oldest(pending[c]))
      BY <1>10 DEF PumpTake
    <2>2. Awaits(c)
      BY <1>0, <1>10, <2>1, OldestFirst DEF PumpTake, Awaits, Sent
    <2>. QED
      BY <2>2 DEF Moved
  <1>11. CASE PumpSend(c)
    <2>. DEFINE n == pump[c].n
                f == Frame("pump", n, answer[c][n].kind, answer[c][n].at)
    <2>1. n \in Requests(c) /\ answer[c][n] \in Replies /\ answer[c][n] # Unanswered
      BY <1>11 DEF PumpSend, ActorTypes, AnswerTypes, Settled
    <2>2. /\ f \in Frames /\ f.of = "pump" /\ f.n = n
          /\ answer[c][n] = [kind |-> f.kind, at |-> f.at]
      BY <1>0, <2>1 DEF Frame, Frames, Replies, Kinds
    <2>. HIDE DEF f
    <2>3. Send(c, f) /\ heard' = heard /\ down' = down
      BY <1>11 DEF PumpSend, f
    <2>4. /\ pump[c].n # Idle /\ pump'[c].n = Idle
          /\ pending' = IF writer[c] THEN pending ELSE [pending EXCEPT ![c] = <<>>]
          /\ UNCHANGED <<next[c], up[c], hand[c], writer[c], life[c]>>
      BY <1>11 DEF PumpSend
    <2>5. Tells(c)
      BY <2>1, <2>2, <2>3, <2>4, SentLast DEF Tells
    <2>. QED
      BY <2>5 DEF Moved
  <1>12. CASE PumpEnd(c)
    <2>1. Stays(c)
      BY <1>12 DEF PumpEnd, Stays, InPlace, Fades, Busy, Sent
    <2>. QED
      BY <2>1 DEF Moved
  <1>13. CASE Write(c)
    <2>1. InPlace(c)
      BY <1>13 DEF Write, InPlace, Busy
    <2>2. CASE /\ down' = [down EXCEPT ![c] = Append(@, Head(outbox[c]))]
               /\ outbox' = [outbox EXCEPT ![c] = Tail(@)]
               /\ UNCHANGED writer
      <3>1. down'[c] = Append(down[c], Head(outbox[c])) /\ outbox'[c] = Tail(outbox[c]) /\ heard' = heard
        BY <1>13, <2>2 DEF Write
      <3>2. Sent(c)' = Sent(c)
        <4>1. outbox[c] # <<>>
          BY <1>13 DEF Write
        <4>2. heard[c] \o Append(down[c], Head(outbox[c])) \o Tail(outbox[c]) = heard[c] \o down[c] \o outbox[c]
          BY <1>0, <4>1, SentMoves
        <4>. QED
          BY <3>1, <4>2 DEF Sent
      <3>. QED
        BY <1>13, <2>1, <2>2, <3>2 DEF Write, Stays, Fades, Moved
    <2>3. CASE writer' = [writer EXCEPT ![c] = FALSE] /\ outbox' = [outbox EXCEPT ![c] = <<>>] /\ UNCHANGED down
      <3>1. Sent(c)' = heard[c] \o down[c] \o <<>>
        BY <1>13, <2>3 DEF Write, Sent
      <3>2. Thinned(Sent(c)', Sent(c))
        BY <1>0, <3>1, SentThinned DEF Sent
      <3>3. ~writer'[c]
        BY <2>3
      <3>. QED
        BY <2>1, <3>2, <3>3 DEF Loses, Moved
    <2>. QED
      BY <1>13, <2>2, <2>3 DEF Write
  <1>14. CASE WriterEnd(c)
    <2>1. Stays(c)
      BY <1>14 DEF WriterEnd, Stays, InPlace, Fades, Busy, Sent
    <2>. QED
      BY <2>1 DEF Moved
  <1>15. CASE StreamReads(c) \/ StreamAsks(c) \/ StreamLeaves(c)
    <2>1. Stays(c)
      BY <1>15 DEF StreamReads, StreamAsks, StreamLeaves, Stays, InPlace, Fades, Busy, Sent
    <2>. QED
      BY <2>1 DEF Moved
  <1>16. ASSUME NEW f \in Frames, f.of = "stream", Send(c, f),
                UNCHANGED <<client, session, up, writer, down>>
         PROVE  Moved(c)
    <2>1. InPlace(c) /\ Fades(c)
      BY <1>16 DEF InPlace, Fades, Busy
    <2>2. Stays(c) \/ Pushes(c)
      BY <1>16, <2>1, SentLast DEF Stays, Pushes
    <2>. QED
      BY <2>2 DEF Moved
  <1>17. /\ Frame("stream", 0, "record", stream[c].sent + 1) \in Frames
         /\ Frame("stream", 0, "error", 0) \in Frames
         /\ Frame("stream", 0, "end", stream[c].sent) \in Frames
    BY <1>0 DEF Frame, Frames, Kinds, Streams
  <1>18. \A n, kind, at : Frame("stream", n, kind, at).of = "stream"
    BY DEF Frame
  <1>19. CASE StreamPushes(c) \/ StreamFails(c) \/ StreamEnds(c)
    BY <1>16, <1>17, <1>18, <1>19 DEF StreamPushes, StreamFails, StreamEnds
  <1>. QED
    BY <1>1, <1>2, <1>3, <1>4, <1>5, <1>6, <1>7, <1>8, <1>9, <1>10, <1>11, <1>12, <1>13, <1>14,
       <1>15, <1>19 DEF Act, Dispatch, Pump, Writer, StreamTask

-----------------------------------------------------------------------------
(* The line stays in order *)

\* What the line of a connection is made of.
LEMMA LineTypes ==
    ASSUME Typed, NEW c \in Conns
    PROVE  /\ next[c] \in Nat /\ up[c] \in Seq(Nat) /\ Len(up[c]) \in Nat
           /\ hand[c] \in Hands /\ hand[c].n \in Nat /\ pending[c] \in Seq(Nat)
           /\ pump[c] \in [on : BOOLEAN, n : Nat] /\ pump[c].n \in Nat /\ Sent(c) \in Seq(Frames)
           /\ program[c] \in Seq(Ops \X Logs) /\ Len(program[c]) \in Nat
           /\ Requests(c) = 1..Len(program[c])
           /\ Taken(c) \in Int /\ Passed(c) \in Int /\ Issued(c) \in Int
  <1>1. program[c] \in Seq(Ops \X Logs)
    BY PipelineAssumption DEF Typed, ClientTypes
  <1>2. next[c] \in Nat /\ up[c] \in Seq(Nat) /\ Len(up[c]) \in Nat
    BY DEF Typed, ClientTypes, WayTypes
  <1>3. Taken(c) \in Int
    BY <1>2 DEF Taken
  <1>. QED
    BY <1>1, <1>2, <1>3, SentIs DEF Typed, SessionTypes, Hands, Requests, Passed, Issued

\* The next request the session takes is the one after those it has taken.
LEMMA LinedUpNext ==
    ASSUME Typed, Typed', NEW c \in Conns, LinedUp(c), Moved(c), program' = program
    PROVE  /\ LinedUp(c)'
           /\ Settles(c) \/ Leaves(c) => Passed(c)' = Passed(c) + 1
           /\ ~(Settles(c) \/ Leaves(c)) => Passed(c)' = Passed(c)
           /\ Busy(c) => hand[c].n = Passed(c) /\ Passed(c) >= 1
           /\ Passed(c) >= 1
           /\ Passed(c) - 1 <= Len(program[c])
  <1>0. /\ next[c] \in Nat /\ up[c] \in Seq(Nat) /\ Len(up[c]) \in Nat /\ Taken(c) \in Int
        /\ Len(program[c]) \in Nat /\ Requests(c) = 1..Len(program[c]) /\ hand[c].n \in Nat
        /\ next'[c] \in Nat /\ up'[c] \in Seq(Nat) /\ Len(up'[c]) \in Nat
    <2>1. next'[c] \in Nat /\ up'[c] \in Seq(Nat)
      BY DEF Typed, ClientTypes, WayTypes
    <2>. QED
      BY <2>1, LineTypes
  <1>1. /\ Busy(c) => hand[c].n = Passed(c) /\ Passed(c) >= 1
        /\ Passed(c) >= 1 /\ Passed(c) - 1 <= Len(program[c])
    <2>1. /\ next[c] <= Len(program[c]) + 1 /\ Taken(c) >= 1
          /\ Busy(c) => hand[c].n = Taken(c) - 1 /\ Taken(c) > 1
      BY <1>0 DEF LinedUp
    <2>2. Taken(c) <= next[c]
      BY <1>0 DEF Taken
    <2>3. Passed(c) = IF Busy(c) THEN Taken(c) - 1 ELSE Taken(c)
      BY DEF Passed
    <2>. QED
      BY <1>0, <2>1, <2>2, <2>3
  <1>2. CASE ~(Issues(c) \/ Begins(c))
    <2>1. next'[c] = next[c] /\ up'[c] = up[c]
      BY <1>2 DEF Moved, Stays, Loses, Pushes, Settles, Leaves, Awaits, Tells, InPlace
    <2>2. Taken(c)' = Taken(c)
      BY <2>1 DEF Taken
    <2>3. CASE Settles(c) \/ Leaves(c)
      <3>1. Busy(c) /\ ~Busy(c)' /\ hand'[c].n = Idle
        BY <2>3 DEF Settles, Leaves
      <3>. QED
        BY <1>0, <1>1, <2>1, <2>2, <2>3, <3>1 DEF LinedUp, Passed
    <2>4. CASE ~(Settles(c) \/ Leaves(c))
      <3>1. (Busy(c)' <=> Busy(c)) /\ hand'[c].n = hand[c].n
        BY <1>2, <2>4 DEF Moved, Stays, Loses, Pushes, Awaits, Tells, InPlace, Busy
      <3>. QED
        BY <1>0, <1>1, <2>1, <2>2, <2>4, <3>1 DEF LinedUp, Passed
    <2>. QED
      BY <2>3, <2>4
  <1>3. CASE Issues(c)
    <2>1. /\ next[c] \in Requests(c) /\ next'[c] = next[c] + 1 /\ up'[c] = Append(up[c], next[c])
          /\ (Busy(c)' <=> Busy(c)) /\ hand'[c] = hand[c]
      BY <1>3 DEF Issues
    <2>2. Len(up'[c]) = Len(up[c]) + 1 /\ DOMAIN up'[c] = 1..(Len(up[c]) + 1) /\ DOMAIN up[c] = 1..Len(up[c])
          /\ up'[c][Len(up[c]) + 1] = next[c] /\ \A i \in 1..Len(up[c]) : up'[c][i] = up[c][i]
      BY <1>0, <2>1
    <2>3. Taken(c)' = Taken(c)
      <3>1. next[c] \in Int /\ Len(up[c]) \in Int
        BY <1>0
      <3>2. (next[c] + 1) - (Len(up[c]) + 1) = next[c] - Len(up[c])
        BY <3>1
      <3>3. next'[c] = next[c] + 1 /\ Len(up'[c]) = Len(up[c]) + 1
        BY <2>1, <2>2
      <3>. QED
        BY <3>2, <3>3 DEF Taken
    <2>4. \A i \in DOMAIN up'[c] : up'[c][i] = Taken(c) + i - 1
      <3>. TAKE i \in DOMAIN up'[c]
      <3>1. CASE i \in 1..Len(up[c])
        BY <2>2, <3>1 DEF LinedUp
      <3>2. CASE i = Len(up[c]) + 1
        BY <1>0, <2>2, <3>2 DEF Taken
      <3>. QED
        <4>1. i \in 1..Len(up[c]) \/ i = Len(up[c]) + 1
          BY <1>0, <2>2
        <4>. QED
          BY <3>1, <3>2, <4>1
    <2>5. Passed(c)' = Passed(c)
      BY <2>1, <2>3 DEF Passed
    <2>6. ~(Settles(c) \/ Leaves(c))
      BY <2>1 DEF Settles, Leaves
    <2>7. LinedUp(c)'
      <3>1. next'[c] \in 1..(Len(program'[c]) + 1)
        BY <1>0, <2>1
      <3>2. Taken(c)' >= 1 /\ (Busy(c)' => Taken(c)' > 1)
        BY <2>1, <2>3 DEF LinedUp
      <3>3. hand'[c].n = (IF Busy(c)' THEN Taken(c)' - 1 ELSE Idle)
        BY <2>1, <2>3 DEF LinedUp
      <3>. QED
        BY <2>3, <2>4, <3>1, <3>2, <3>3 DEF LinedUp
    <2>. QED
      BY <1>1, <2>5, <2>6, <2>7
  <1>4. CASE Begins(c)
    <2>1. /\ hand[c].at = "read" /\ up[c] # <<>> /\ Busy(c)'
          /\ hand'[c].n = Head(up[c]) /\ up'[c] = Tail(up[c]) /\ next'[c] = next[c]
      BY <1>4 DEF Begins
    <2>2. /\ Len(up'[c]) = Len(up[c]) - 1 /\ DOMAIN up'[c] = 1..(Len(up[c]) - 1) /\ Len(up[c]) >= 1
          /\ hand'[c].n = up[c][1] /\ DOMAIN up[c] = 1..Len(up[c])
          /\ \A i \in 1..(Len(up[c]) - 1) : up'[c][i] = up[c][i + 1]
      BY <1>0, <2>1
    <2>3. Taken(c)' = Taken(c) + 1 /\ ~Busy(c)
      BY <1>0, <2>1, <2>2 DEF Taken, Busy
    <2>4. up[c][1] = Taken(c) /\ \A i \in DOMAIN up'[c] : up'[c][i] = Taken(c) + 1 + i - 1
      <3>1. \A i \in 1..Len(up[c]) : up[c][i] = Taken(c) + i - 1
        BY <2>2 DEF LinedUp
      <3>2. up[c][1] = Taken(c)
        BY <1>0, <2>2, <3>1
      <3>3. ASSUME NEW i \in 1..(Len(up[c]) - 1) PROVE up'[c][i] = Taken(c) + 1 + i - 1
        <4>1. i + 1 \in 1..Len(up[c]) /\ up'[c][i] = up[c][i + 1]
          BY <1>0, <2>2
        <4>2. up[c][i + 1] = Taken(c) + (i + 1) - 1
          BY <3>1, <4>1
        <4>. QED
          BY <1>0, <4>1, <4>2
      <3>. QED
        BY <2>2, <3>2, <3>3
    <2>5. Passed(c)' = Passed(c)
      BY <1>0, <2>1, <2>3 DEF Passed
    <2>6. ~(Settles(c) \/ Leaves(c))
      BY <2>3 DEF Settles, Leaves
    <2>. QED
      BY <1>0, <1>1, <2>1, <2>2, <2>3, <2>4, <2>5, <2>6 DEF LinedUp
  <1>. QED
    BY <1>2, <1>3, <1>4

\* How a frame at the end of what is sent, or frames missing in it, are seen.
LEMMA SentGrows ==
    ASSUME NEW s \in Seq(Frames), NEW f \in Frames
    PROVE  /\ Append(s, f) \in Seq(Frames) /\ Len(s) \in Nat
           /\ DOMAIN s = 1..Len(s) /\ DOMAIN Append(s, f) = 1..(Len(s) + 1)
           /\ Append(s, f)[Len(s) + 1] = f
           /\ \A k \in 1..Len(s) : Append(s, f)[k] = s[k]
  OBVIOUS

\* The pump's answers are sent in the order of the requests, and every answer once.
LEMMA OrderedNext ==
    ASSUME Typed, Typed', NEW c \in Conns, LinedUp(c), Ordered(c), Moved(c), program' = program
    PROVE  Ordered(c)'
  <1>. DEFINE p == Passed(c)
              s == Sent(c)
              q == pending[c]
              h == hand[c].n
              b == pump[c].n
  <1>0. /\ p \in Int /\ s \in Seq(Frames) /\ q \in Seq(Nat) /\ h \in Nat /\ b \in Nat /\ p >= 1
        /\ Busy(c) => h = p
    BY LineTypes, LinedUpNext
  <1>1. /\ Settles(c) \/ Leaves(c) => Passed(c)' = p + 1
        /\ ~(Settles(c) \/ Leaves(c)) => Passed(c)' = p
    BY LinedUpNext
  <1>2. CASE (Stays(c) \/ Issues(c) \/ Begins(c)) /\ ~(Settles(c) \/ Leaves(c))
    <2>1. Sent(c)' = Sent(c) /\ pending'[c] = q /\ pump'[c].n = b /\ Passed(c)' = p
      BY <1>1, <1>2 DEF Stays, InPlace, Issues, Begins
    <2>. QED
      BY <2>1 DEF Ordered, Answers, ByPump
  <1>3. CASE Loses(c)
    <2>1. pending'[c] = q /\ pump'[c].n = b
      BY <1>3 DEF Loses, InPlace
    <2>2. Passed(c)' = p
      <3>1. Busy(c)' <=> Busy(c)
        BY <1>3 DEF Loses, InPlace
      <3>. QED
        BY <1>1, <3>1 DEF Settles, Leaves
    <2>3. PICK f \in [DOMAIN Sent(c)' -> DOMAIN s] :
              /\ \A i \in DOMAIN Sent(c)' : Sent(c)'[i] = s[f[i]]
              /\ \A i, j \in DOMAIN Sent(c)' : i < j => f[i] < f[j]
      BY <1>3 DEF Loses, Thinned
    <2>4. Sent(c)' \in Seq(Frames) /\ DOMAIN Sent(c)' = 1..Len(Sent(c)')
      <3>1. Sent(c)' \in Seq(Frames)
        BY SentIs DEF Typed, ClientTypes, WayTypes, Sent
      <3>. QED
        BY <3>1
    <2>5. \A i \in DOMAIN Sent(c)' : f[i] \in DOMAIN s
      BY <2>3
    <2>6. \A i, j \in DOMAIN Sent(c)' : f[i] = f[j] => i = j
      <3>1. DOMAIN s = 1..Len(s)
        BY <1>0
      <3>. QED
        BY <2>3, <2>4, <2>5, <3>1
    <2>. QED
      BY <2>1, <2>2, <2>3, <2>5, <2>6 DEF Ordered, Answers, ByPump
  <1>4. CASE Pushes(c)
    <2>1. pending'[c] = q /\ pump'[c].n = b
      BY <1>4 DEF Pushes, InPlace
    <2>2. Passed(c)' = p
      <3>1. Busy(c)' <=> Busy(c)
        BY <1>4 DEF Pushes, InPlace
      <3>. QED
        BY <1>1, <3>1 DEF Settles, Leaves
    <2>3. PICK f \in Frames : f.of = "stream" /\ Sent(c)' = Append(s, f)
      BY <1>4 DEF Pushes
    <2>4. /\ DOMAIN s = 1..Len(s) /\ DOMAIN Sent(c)' = 1..(Len(s) + 1) /\ Len(s) \in Nat
          /\ Sent(c)'[Len(s) + 1] = f /\ \A k \in 1..Len(s) : Sent(c)'[k] = s[k]
      BY <1>0, <2>3, SentGrows
    <2>5. \A k \in DOMAIN Sent(c)' : Answers(c, k)' => k \in DOMAIN s /\ Answers(c, k) /\ Sent(c)'[k] = s[k]
      BY <2>3, <2>4 DEF Answers
    <2>6. \A k \in DOMAIN Sent(c)' : ByPump(c, k)' => k \in DOMAIN s /\ ByPump(c, k) /\ Sent(c)'[k] = s[k]
      BY <2>3, <2>4 DEF ByPump
    <2>. QED
      BY <2>1, <2>2, <2>5, <2>6 DEF Ordered
  <1>5. CASE Settles(c)
    <2>1. /\ pending'[c] = q /\ pump'[c].n = b /\ Passed(c)' = p + 1 /\ h = p
      BY <1>0, <1>1, <1>5 DEF Settles
    <2>2. /\ b < p /\ \A i \in DOMAIN q : q[i] \in Nat /\ q[i] < p
      BY <1>0 DEF Ordered
    <2>3. CASE Sent(c)' = s
      <3>1. \A n \in 1..(p - 1) : n \in 1..p
        BY <1>0
      <3>2. b < p + 1 /\ \A i \in DOMAIN q : q[i] < p + 1
        BY <1>0, <2>2
      <3>. QED
        <4>1. Passed(c)' - 1 = p
          BY <1>0, <2>1
        <4>2. \A k \in DOMAIN s : Answers(c, k) => s[k].n \in 1..p
          <5>1. \A k \in DOMAIN s : Answers(c, k) => s[k].n \in 1..(p - 1)
            BY DEF Ordered
          <5>. QED
            BY <3>1, <5>1
        <4>3. \A k : (Answers(c, k)' <=> Answers(c, k)) /\ (ByPump(c, k)' <=> ByPump(c, k))
          BY <2>3 DEF Answers, ByPump
        <4>. HIDE DEF p
        <4>. QED
          BY <2>1, <2>3, <3>2, <4>1, <4>2, <4>3 DEF Ordered
    <2>4. ASSUME NEW f \in Frames, f.of = "session", f.n = h, Sent(c)' = Append(s, f)
          PROVE  Ordered(c)'
      <3>1. /\ DOMAIN s = 1..Len(s) /\ DOMAIN Sent(c)' = 1..(Len(s) + 1) /\ Len(s) \in Nat
            /\ Sent(c)'[Len(s) + 1] = f /\ \A k \in 1..Len(s) : Sent(c)'[k] = s[k]
        BY <1>0, <2>4, SentGrows
      <3>2. \A k \in DOMAIN Sent(c)' : Answers(c, k)' =>
                \/ k = Len(s) + 1 /\ Sent(c)'[k].n = p
                \/ k \in DOMAIN s /\ Answers(c, k) /\ Sent(c)'[k] = s[k]
        BY <2>1, <2>4, <3>1 DEF Answers
      <3>3. \A k \in DOMAIN Sent(c)' : ByPump(c, k)' => k \in DOMAIN s /\ ByPump(c, k) /\ Sent(c)'[k] = s[k]
        BY <2>4, <3>1 DEF ByPump
      <3>4. b < p + 1 /\ \A i \in DOMAIN q : b < q[i] /\ q[i] < p + 1
        BY <1>0, <2>2 DEF Ordered
      <3>5. \A k \in DOMAIN Sent(c)' : Answers(c, k)' =>
               /\ Sent(c)'[k].n \in 1..p /\ Sent(c)'[k].n # b
               /\ \A i \in DOMAIN q : Sent(c)'[k].n # q[i]
        <4>. TAKE k \in DOMAIN Sent(c)'
        <4>. HAVE Answers(c, k)'
        <4>1. CASE k = Len(s) + 1 /\ Sent(c)'[k].n = p
          BY <1>0, <2>2, <4>1
        <4>2. CASE k \in DOMAIN s /\ Answers(c, k) /\ Sent(c)'[k] = s[k]
          <5>1. \A n \in 1..(p - 1) : n \in 1..p
            BY <1>0
          <5>. QED
            BY <4>2, <5>1 DEF Ordered
        <4>. QED
          BY <3>2, <4>1, <4>2
      <3>6. \A j, k \in DOMAIN Sent(c)' :
               Answers(c, j)' /\ Answers(c, k)' /\ Sent(c)'[j].n = Sent(c)'[k].n => j = k
        <4>1. \A k \in DOMAIN s : Answers(c, k) => s[k].n < p
          BY <1>0 DEF Ordered
        <4>2. \A j, k \in DOMAIN s : Answers(c, j) /\ Answers(c, k) /\ s[j].n = s[k].n => j = k
          BY DEF Ordered
        <4>. QED
          BY <1>0, <3>2, <4>1, <4>2
      <3>. QED
        <4>1. Passed(c)' - 1 = p
          BY <1>0, <2>1
        <4>2. \A k \in DOMAIN Sent(c)' : ByPump(c, k)' =>
                 (b # Idle => Sent(c)'[k].n < b) /\ \A i \in DOMAIN q : Sent(c)'[k].n < q[i]
          BY <3>3 DEF Ordered
        <4>3. \A j, k \in DOMAIN Sent(c)' :
                 j < k /\ ByPump(c, j)' /\ ByPump(c, k)' => Sent(c)'[j].n < Sent(c)'[k].n
          BY <3>3 DEF Ordered
        <4>4. \A i, j \in DOMAIN q : i < j => q[i] < q[j]
          BY DEF Ordered
        <4>. HIDE DEF p
        <4>. QED
          BY <2>1, <3>4, <3>5, <3>6, <4>1, <4>2, <4>3, <4>4 DEF Ordered
    <2>. QED
      BY <1>5, <2>3, <2>4 DEF Settles
  <1>6. CASE Leaves(c)
    <2>1. /\ pump'[c].n = b /\ Sent(c)' = s /\ Passed(c)' = p + 1 /\ h = p
          /\ pending'[c] = Append(q, h)
      BY <1>0, <1>1, <1>6 DEF Leaves
    <2>2. /\ DOMAIN q = 1..Len(q) /\ Len(q) \in Nat /\ DOMAIN pending'[c] = 1..(Len(q) + 1)
          /\ pending'[c][Len(q) + 1] = p /\ \A i \in 1..Len(q) : pending'[c][i] = q[i] /\ q[i] \in Nat
      BY <1>0, <2>1
    <2>3. \A i \in DOMAIN pending'[c] : \/ i = Len(q) + 1 /\ pending'[c][i] = p
                                        \/ i \in DOMAIN q /\ pending'[c][i] = q[i] /\ q[i] \in Nat
      <3>1. ASSUME NEW i \in 1..(Len(q) + 1)
            PROVE  \/ i = Len(q) + 1 /\ pending'[c][i] = p
                   \/ i \in DOMAIN q /\ pending'[c][i] = q[i] /\ q[i] \in Nat
        <4>1. i = Len(q) + 1 \/ i \in 1..Len(q)
          BY <2>2
        <4>. QED
          BY <2>2, <4>1
      <3>2. DOMAIN pending'[c] = 1..(Len(q) + 1)
        BY <2>2
      <3>. QED
        BY <3>1, <3>2, Zenon
    <2>4. b < p + 1 /\ \A i \in DOMAIN pending'[c] : b < pending'[c][i] /\ pending'[c][i] < p + 1
      <3>1. b < p /\ \A i \in DOMAIN q : b < q[i] /\ q[i] < p
        BY DEF Ordered
      <3>2. b < p + 1 /\ p < p + 1 /\ \A n \in Nat : n < p => n < p + 1
        BY <1>0, <3>1
      <3>. HIDE DEF p, b, q
      <3>. QED
        BY <2>3, <3>1, <3>2
    <2>5. \A i, j \in DOMAIN pending'[c] : i < j => pending'[c][i] < pending'[c][j]
      <3>1. \A i, j \in DOMAIN q : i < j => q[i] < q[j]
        BY DEF Ordered
      <3>2. \A i \in DOMAIN q : q[i] < p
        BY DEF Ordered
      <3>. QED
        BY <2>2, <2>3, <3>1, <3>2
    <2>6. \A k \in DOMAIN s : Answers(c, k) =>
             /\ s[k].n \in 1..p /\ s[k].n # b /\ \A i \in DOMAIN pending'[c] : s[k].n # pending'[c][i]
      <3>1. \A k \in DOMAIN s : Answers(c, k) =>
               s[k].n \in 1..(p - 1) /\ s[k].n # b /\ \A i \in DOMAIN q : s[k].n # q[i]
        BY DEF Ordered
      <3>2. \A n \in 1..(p - 1) : n \in 1..p /\ n # p
        BY <1>0
      <3>. QED
        BY <2>3, <3>1, <3>2
    <2>7. \A k \in DOMAIN s : ByPump(c, k) =>
             /\ b # Idle => s[k].n < b
             /\ \A i \in DOMAIN pending'[c] : s[k].n < pending'[c][i]
      <3>1. \A k \in DOMAIN s : ByPump(c, k) =>
               (b # Idle => s[k].n < b) /\ \A i \in DOMAIN q : s[k].n < q[i]
        BY DEF Ordered
      <3>2. \A k \in DOMAIN s : ByPump(c, k) => s[k].n < p
        <4>1. \A k \in DOMAIN s : ByPump(c, k) => Answers(c, k)
          BY DEF ByPump, Answers
        <4>2. \A n \in 1..(p - 1) : n < p
          BY <1>0
        <4>. QED
          BY <4>1, <4>2 DEF Ordered
      <3>. QED
        BY <2>3, <3>1, <3>2
    <2>8. /\ \A j, k \in DOMAIN s : Answers(c, j) /\ Answers(c, k) /\ s[j].n = s[k].n => j = k
          /\ \A j, k \in DOMAIN s : j < k /\ ByPump(c, j) /\ ByPump(c, k) => s[j].n < s[k].n
      BY DEF Ordered
    <2>9. /\ \A k : Answers(c, k)' <=> Answers(c, k)
          /\ \A k : ByPump(c, k)' <=> ByPump(c, k)
      BY <2>1 DEF Answers, ByPump
    <2>. QED
      <3>1. Passed(c)' - 1 = p
        BY <1>0, <2>1
      <3>. HIDE DEF p
      <3>. QED
        BY <2>1, <2>4, <2>5, <2>6, <2>7, <2>8, <2>9, <3>1 DEF Ordered
  <1>7. CASE Awaits(c)
    <2>1. /\ b = Idle /\ q # <<>> /\ pump'[c].n = Head(q) /\ pending'[c] = Tail(q) /\ Sent(c)' = s
      BY <1>7 DEF Awaits
    <2>2. Passed(c)' = p
      <3>1. hand'[c] = hand[c]
        BY <1>7 DEF Awaits
      <3>2. Busy(c)' <=> Busy(c)
        BY <3>1 DEF Busy
      <3>. QED
        BY <1>1, <3>2 DEF Settles, Leaves
    <2>3. /\ DOMAIN q = 1..Len(q) /\ Len(q) \in Nat /\ Len(q) >= 1 /\ DOMAIN pending'[c] = 1..(Len(q) - 1)
          /\ pump'[c].n = q[1] /\ \A i \in 1..(Len(q) - 1) : pending'[c][i] = q[i + 1]
      BY <1>0, <2>1
    <2>4. \A i \in DOMAIN pending'[c] : i + 1 \in DOMAIN q /\ pending'[c][i] = q[i + 1] /\ 1 < i + 1 /\ i \in Nat
      <3>. TAKE i \in DOMAIN pending'[c]
      <3>1. i \in 1..(Len(q) - 1)
        BY <2>3
      <3>2. i + 1 \in 1..Len(q) /\ 1 < i + 1 /\ i \in Nat
        BY <2>3, <3>1
      <3>3. i + 1 \in DOMAIN q
        BY <2>3, <3>2
      <3>. QED
        BY <2>3, <3>1, <3>2, <3>3
    <2>5. 1 \in DOMAIN q
      BY <2>3
    <2>6. /\ \A i \in DOMAIN q : q[i] < p
          /\ \A i, j \in DOMAIN q : i < j => q[i] < q[j]
      BY DEF Ordered
    <2>7. \A i, j \in DOMAIN pending'[c] : i < j => pending'[c][i] < pending'[c][j]
      <3>. TAKE i, j \in DOMAIN pending'[c]
      <3>. HAVE i < j
      <3>1. i + 1 < j + 1
        BY <2>4
      <3>. QED
        BY <2>4, <2>6, <3>1
    <2>8. q[1] < p /\ \A i \in DOMAIN pending'[c] : q[1] < pending'[c][i] /\ pending'[c][i] < p
      BY <2>4, <2>5, <2>6
    <2>9. \A k \in DOMAIN s : Answers(c, k) =>
             /\ s[k].n \in 1..(p - 1) /\ s[k].n # q[1]
             /\ \A i \in DOMAIN pending'[c] : s[k].n # pending'[c][i]
      BY <2>4, <2>5 DEF Ordered
    <2>10. \A k \in DOMAIN s : ByPump(c, k) =>
             s[k].n < q[1] /\ \A i \in DOMAIN pending'[c] : s[k].n < pending'[c][i]
      BY <2>4, <2>5 DEF Ordered
    <2>11. /\ \A j, k \in DOMAIN s : Answers(c, j) /\ Answers(c, k) /\ s[j].n = s[k].n => j = k
           /\ \A j, k \in DOMAIN s : j < k /\ ByPump(c, j) /\ ByPump(c, k) => s[j].n < s[k].n
      BY DEF Ordered
    <2>12. /\ \A k : Answers(c, k)' <=> Answers(c, k)
           /\ \A k : ByPump(c, k)' <=> ByPump(c, k)
      BY <2>1 DEF Answers, ByPump
    <2>. QED
      BY <2>1, <2>2, <2>3, <2>7, <2>8, <2>9, <2>10, <2>11, <2>12 DEF Ordered
  <1>8. CASE Tells(c)
    <2>1. b # Idle /\ pump'[c].n = Idle
      BY <1>8 DEF Tells
    <2>2. Passed(c)' = p
      <3>1. hand'[c] = hand[c]
        BY <1>8 DEF Tells
      <3>2. Busy(c)' <=> Busy(c)
        BY <3>1 DEF Busy
      <3>. QED
        BY <1>1, <3>2 DEF Settles, Leaves
    <2>3. /\ b < p /\ b > 0 /\ Idle < p /\ \A n \in 1..(p - 1) : n # Idle
      BY <1>0, <2>1 DEF Ordered, Idle
    <2>4. CASE pending'[c] = <<>> /\ Sent(c)' = s
      BY <2>1, <2>2, <2>3, <2>4 DEF Ordered, Answers, ByPump
    <2>5. ASSUME NEW f \in Frames, f.of = "pump", f.n = b, Sent(c)' = Append(s, f), pending'[c] = q
          PROVE  Ordered(c)'
      <3>1. /\ DOMAIN s = 1..Len(s) /\ DOMAIN Sent(c)' = 1..(Len(s) + 1) /\ Len(s) \in Nat
            /\ Sent(c)'[Len(s) + 1] = f /\ \A k \in 1..Len(s) : Sent(c)'[k] = s[k]
        BY <1>0, <2>5, SentGrows
      <3>2. \A k \in DOMAIN Sent(c)' : \/ k = Len(s) + 1 /\ Sent(c)'[k].n = b
                                       \/ k \in DOMAIN s /\ Sent(c)'[k] = s[k]
        <4>. TAKE k \in DOMAIN Sent(c)'
        <4>1. k = Len(s) + 1 \/ k \in 1..Len(s)
          BY <3>1
        <4>. QED
          BY <2>5, <3>1, <4>1
      <3>3. \A k \in DOMAIN s : (Answers(c, k)' <=> Answers(c, k)) /\ (ByPump(c, k)' <=> ByPump(c, k))
        BY <3>1 DEF Answers, ByPump
      <3>4. \A i \in DOMAIN q : b < q[i] /\ q[i] \in Nat /\ q[i] < p
        BY <1>0 DEF Ordered
      <3>5. \A k \in DOMAIN s : Answers(c, k) =>
               s[k].n \in 1..(p - 1) /\ s[k].n # b /\ \A i \in DOMAIN q : s[k].n # q[i]
        BY DEF Ordered
      <3>6. \A k \in DOMAIN s : ByPump(c, k) => s[k].n < b /\ \A i \in DOMAIN q : s[k].n < q[i]
        BY <2>1 DEF Ordered
      <3>7. \A k \in DOMAIN Sent(c)' : Answers(c, k)' =>
               /\ Sent(c)'[k].n \in 1..(p - 1) /\ Sent(c)'[k].n # Idle
               /\ \A i \in DOMAIN q : Sent(c)'[k].n # q[i]
        <4>. TAKE k \in DOMAIN Sent(c)'
        <4>. HAVE Answers(c, k)'
        <4>1. CASE k = Len(s) + 1 /\ Sent(c)'[k].n = b
          BY <1>0, <2>3, <3>4, <4>1
        <4>2. CASE k \in DOMAIN s /\ Sent(c)'[k] = s[k]
          BY <2>3, <3>3, <3>5, <4>2
        <4>. QED
          BY <3>2, <4>1, <4>2
      <3>8. \A j, k \in DOMAIN Sent(c)' :
               Answers(c, j)' /\ Answers(c, k)' /\ Sent(c)'[j].n = Sent(c)'[k].n => j = k
        <4>1. \A j, k \in DOMAIN s : Answers(c, j) /\ Answers(c, k) /\ s[j].n = s[k].n => j = k
          BY DEF Ordered
        <4>. QED
          BY <3>2, <3>3, <3>5, <4>1
      <3>9. \A k \in DOMAIN Sent(c)' : ByPump(c, k)' => \A i \in DOMAIN q : Sent(c)'[k].n < q[i]
        BY <3>2, <3>3, <3>4, <3>6
      <3>10. \A j, k \in DOMAIN Sent(c)' :
               j < k /\ ByPump(c, j)' /\ ByPump(c, k)' => Sent(c)'[j].n < Sent(c)'[k].n
        <4>1. \A j, k \in DOMAIN s : j < k /\ ByPump(c, j) /\ ByPump(c, k) => s[j].n < s[k].n
          BY DEF Ordered
        <4>2. \A j, k \in DOMAIN Sent(c)' : j < k => j \in DOMAIN s
          BY <3>1
        <4>. TAKE j, k \in DOMAIN Sent(c)'
        <4>. HAVE j < k /\ ByPump(c, j)' /\ ByPump(c, k)'
        <4>3. j \in DOMAIN s /\ ByPump(c, j) /\ Sent(c)'[j] = s[j]
          BY <3>1, <3>3, <4>2
        <4>4. CASE k = Len(s) + 1 /\ Sent(c)'[k].n = b
          BY <3>6, <4>3, <4>4
        <4>5. CASE k \in DOMAIN s /\ Sent(c)'[k] = s[k]
          BY <3>3, <4>1, <4>3, <4>5
        <4>. QED
          BY <3>2, <4>4, <4>5
      <3>11. \A i, j \in DOMAIN q : i < j => q[i] < q[j]
        BY DEF Ordered
      <3>12. Idle < p /\ \A i \in DOMAIN q : Idle < q[i] /\ q[i] < p
        BY <1>0, <2>3, <3>4 DEF Idle
      <3>. QED
        BY <2>1, <2>2, <2>5, <3>7, <3>8, <3>9, <3>10, <3>11, <3>12 DEF Ordered
    <2>. QED
      BY <1>8, <2>4, <2>5 DEF Tells
  <1>. QED
    BY <1>2, <1>3, <1>4, <1>5, <1>6, <1>7, <1>8 DEF Moved

\* Nothing the session has dealt with goes missing on a connection that is written to.
LEMMA CompleteNext ==
    ASSUME Typed, Typed', NEW c \in Conns, LinedUp(c), Ordered(c), Complete(c), Moved(c), program' = program
    PROVE  Complete(c)'
  <1>. DEFINE p == Passed(c)
              s == Sent(c)
              q == pending[c]
              h == hand[c].n
              b == pump[c].n
              In(n) == \/ n = b \/ \E i \in DOMAIN q : q[i] = n
                       \/ \E k \in DOMAIN s : Answers(c, k) /\ s[k].n = n
              Still(n) == \/ n = pump'[c].n \/ \E i \in DOMAIN pending'[c] : pending'[c][i] = n
                          \/ \E k \in DOMAIN Sent(c)' : Answers(c, k)' /\ Sent(c)'[k].n = n
  <1>0. /\ p \in Int /\ s \in Seq(Frames) /\ q \in Seq(Nat) /\ h \in Nat /\ b \in Nat /\ p >= 1
        /\ Busy(c) => h = p
    BY LineTypes, LinedUpNext
  <1>1. /\ Settles(c) \/ Leaves(c) => Passed(c)' = p + 1
        /\ ~(Settles(c) \/ Leaves(c)) => Passed(c)' = p
    BY LinedUpNext
  <1>2. SUFFICES ASSUME writer'[c], life'[c] # "gone", NEW n \in 1..(Passed(c)' - 1)
                 PROVE  Still(n)
    BY DEF Complete
  <1>3. writer[c] /\ life[c] # "gone" /\ ~Loses(c)
    BY <1>2 DEF Moved, Stays, Loses, Pushes, Fades, Issues, Begins, Settles, Leaves, Awaits, Tells
  <1>4. n \in 1..(p - 1) => In(n)
    BY <1>3 DEF Complete
  <1>5. n \in 1..(p - 1) \/ (n = p /\ (Settles(c) \/ Leaves(c)))
    <2>1. CASE Settles(c) \/ Leaves(c)
      <3>1. Passed(c)' = p + 1
        BY <1>1, <2>1
      <3>2. n \in 1..(Passed(c)' - 1)
        BY <1>2
      <3>. QED
        BY <1>0, <2>1, <3>1, <3>2
    <2>2. CASE ~(Settles(c) \/ Leaves(c))
      <3>1. Passed(c)' = p
        BY <1>1, <2>2
      <3>2. n \in 1..(Passed(c)' - 1)
        BY <1>2
      <3>. QED
        BY <1>0, <3>1, <3>2
    <2>. QED
      BY <2>1, <2>2
  <1>6. CASE Sent(c)' = s /\ pending'[c] = q /\ pump'[c].n = b /\ n \in 1..(p - 1)
    BY <1>4, <1>6 DEF Answers
  <1>7. ASSUME NEW f \in Frames, Sent(c)' = Append(s, f)
        PROVE  /\ \A k \in DOMAIN s : k \in DOMAIN Sent(c)' /\ Sent(c)'[k] = s[k] /\ (Answers(c, k)' <=> Answers(c, k))
               /\ Len(s) + 1 \in DOMAIN Sent(c)' /\ Sent(c)'[Len(s) + 1] = f
    <2>1. /\ DOMAIN s = 1..Len(s) /\ DOMAIN Sent(c)' = 1..(Len(s) + 1) /\ Len(s) \in Nat
          /\ Sent(c)'[Len(s) + 1] = f /\ \A k \in 1..Len(s) : Sent(c)'[k] = s[k]
      BY <1>0, <1>7, SentGrows
    <2>. QED
      BY <2>1 DEF Answers
  <1>8. CASE Pushes(c)
    <2>1. pending'[c] = q /\ pump'[c].n = b /\ ~(Settles(c) \/ Leaves(c))
      BY <1>8 DEF Pushes, InPlace, Settles, Leaves
    <2>2. PICK f \in Frames : Sent(c)' = Append(s, f)
      BY <1>8 DEF Pushes
    <2>. QED
      BY <1>4, <1>5, <1>7, <2>1, <2>2
  <1>9. CASE Settles(c)
    <2>1. pending'[c] = q /\ pump'[c].n = b /\ h = p
      BY <1>0, <1>9 DEF Settles
    <2>2. PICK f \in Frames : f.of = "session" /\ f.n = h /\ Sent(c)' = Append(s, f)
      BY <1>3, <1>9 DEF Settles
    <2>3. CASE n = p
      <3>1. PICK z : z \in DOMAIN Sent(c)' /\ Sent(c)'[z] = f
        BY <1>7, <2>2
      <3>2. Answers(c, z)'
        BY <2>2, <3>1 DEF Answers
      <3>. QED
        BY <2>1, <2>2, <2>3, <3>1, <3>2
    <2>. QED
      BY <1>4, <1>5, <1>7, <2>1, <2>2, <2>3
  <1>10. CASE Leaves(c)
    <2>1. /\ pump'[c].n = b /\ Sent(c)' = s /\ h = p /\ pending'[c] = Append(q, h)
      BY <1>0, <1>10 DEF Leaves
    <2>2. /\ \A i \in DOMAIN q : i \in DOMAIN pending'[c] /\ pending'[c][i] = q[i]
          /\ Len(q) + 1 \in DOMAIN pending'[c] /\ pending'[c][Len(q) + 1] = h
      BY <1>0, <2>1
    <2>3. CASE n = p
      BY <2>1, <2>2, <2>3
    <2>4. \A k : Answers(c, k)' <=> Answers(c, k)
      BY <2>1 DEF Answers
    <2>. QED
      BY <1>4, <1>5, <2>1, <2>2, <2>3, <2>4
  <1>11. CASE Awaits(c)
    <2>1. /\ b = Idle /\ q # <<>> /\ pump'[c].n = Head(q) /\ pending'[c] = Tail(q) /\ Sent(c)' = s
          /\ hand'[c] = hand[c]
      BY <1>11 DEF Awaits
    <2>2. \A i \in DOMAIN q : \/ q[i] = pump'[c].n
                              \/ i - 1 \in DOMAIN pending'[c] /\ pending'[c][i - 1] = q[i]
      <3>1. /\ DOMAIN q = 1..Len(q) /\ Len(q) \in Nat /\ DOMAIN pending'[c] = 1..(Len(q) - 1)
            /\ pump'[c].n = q[1] /\ \A i \in 1..(Len(q) - 1) : pending'[c][i] = q[i + 1]
        BY <1>0, <2>1
      <3>2. ASSUME NEW i \in 1..Len(q), i # 1
            PROVE  i - 1 \in 1..(Len(q) - 1) /\ pending'[c][i - 1] = q[i]
        <4>1. i - 1 \in 1..(Len(q) - 1) /\ (i - 1) + 1 = i
          BY <3>1, <3>2
        <4>2. pending'[c][i - 1] = q[(i - 1) + 1]
          BY <3>1, <4>1
        <4>. QED
          BY <4>1, <4>2
      <3>. QED
        BY <3>1, <3>2
    <2>3. \A k : Answers(c, k)' <=> Answers(c, k)
      BY <2>1 DEF Answers
    <2>4. n \in 1..(p - 1) /\ n # Idle
      <3>1. Busy(c)' <=> Busy(c)
        BY <2>1 DEF Busy
      <3>2. ~(Settles(c) \/ Leaves(c))
        BY <3>1 DEF Settles, Leaves
      <3>. QED
        BY <1>5, <3>2 DEF Idle
    <2>. QED
      BY <1>4, <2>1, <2>2, <2>3, <2>4
  <1>12. CASE Tells(c)
    <2>1. pending'[c] = q /\ hand'[c] = hand[c]
      BY <1>3, <1>12 DEF Tells
    <2>2. PICK f \in Frames : f.of = "pump" /\ f.n = b /\ Sent(c)' = Append(s, f)
      BY <1>3, <1>12 DEF Tells
    <2>3. PICK z : z \in DOMAIN Sent(c)' /\ Sent(c)'[z] = f
      BY <1>7, <2>2
    <2>5. Answers(c, z)'
      BY <2>2, <2>3 DEF Answers
    <2>4. n \in 1..(p - 1)
      <3>1. Busy(c)' <=> Busy(c)
        BY <2>1 DEF Busy
      <3>2. ~(Settles(c) \/ Leaves(c))
        BY <3>1 DEF Settles, Leaves
      <3>. QED
        BY <1>5, <3>2
    <2>6. \A k \in DOMAIN s : k \in DOMAIN Sent(c)' /\ Sent(c)'[k] = s[k] /\ (Answers(c, k)' <=> Answers(c, k))
      BY <1>7, <2>2
    <2>. QED
      BY <1>4, <2>1, <2>2, <2>3, <2>4, <2>5, <2>6
  <1>13. CASE Stays(c) \/ Issues(c) \/ Begins(c)
    <2>1. Sent(c)' = Sent(c) /\ pending'[c] = q /\ pump'[c].n = b
      BY <1>13 DEF Stays, InPlace, Issues, Begins
    <2>2. CASE n \in 1..(p - 1)
      BY <1>6, <2>1, <2>2
    <2>. QED
      BY <1>5, <1>9, <1>10, <2>2
  <1>. QED
    BY <1>3, <1>8, <1>9, <1>10, <1>11, <1>12, <1>13 DEF Moved

\* Together.
LEMMA ExchangeNext ==
    ASSUME Typed, Typed', NEW c \in Conns, Exchange(c), Moved(c), program' = program
    PROVE  Exchange(c)'
  BY LinedUpNext, OrderedNext, CompleteNext DEF Exchange

\* Where everything is ordered, a request is in one place.
LEMMA InOnePlace ==
    ASSUME Typed, NEW c \in Conns, Exchange(c), NEW n \in 1..(next[c] - 1)
    PROVE  /\ \A x, y \in Places(c, n) : x = y
           /\ writer[c] /\ life[c] # "gone" => Places(c, n) # {}
  <1>0. /\ next[c] \in Nat /\ up[c] \in Seq(Nat) /\ Len(up[c]) \in Nat /\ hand[c].n \in Nat
        /\ pending[c] \in Seq(Nat) /\ pump[c].n \in Nat /\ Sent(c) \in Seq(Frames)
        /\ Taken(c) \in Int /\ Passed(c) \in Int /\ n \in Nat /\ n # Idle
        /\ DOMAIN up[c] = 1..Len(up[c])
    BY LineTypes DEF Idle
  <1>. DEFINE Waits == \E i \in DOMAIN up[c] : up[c][i] = n
              Goes == \E i \in DOMAIN pending[c] : pending[c][i] = n
              Gone == \E k \in DOMAIN Sent(c) : Answers(c, k) /\ Sent(c)[k].n = n
  <1>1. /\ Waits => n >= Taken(c)
        /\ hand[c].n = n => n = Taken(c) - 1 /\ n = Passed(c)
        /\ (Goes \/ Gone \/ pump[c].n = n) => n < Passed(c)
        /\ Passed(c) <= Taken(c)
    <2>1. Waits => n >= Taken(c)
      BY <1>0 DEF Exchange, LinedUp
    <2>2. hand[c].n = n => n = Taken(c) - 1 /\ n = Passed(c)
      BY <1>0 DEF Exchange, LinedUp, Passed
    <2>3. Goes \/ pump[c].n = n => n < Passed(c)
      BY DEF Exchange, Ordered
    <2>4. Gone => n < Passed(c)
      BY <1>0 DEF Exchange, Ordered
    <2>. QED
      BY <1>0, <2>1, <2>2, <2>3, <2>4 DEF Passed
  <1>2. \A i, j \in DOMAIN up[c] : up[c][i] = n /\ up[c][j] = n => i = j
    <2>1. \A i \in 1..Len(up[c]) : up[c][i] = Taken(c) + i - 1
      BY <1>0 DEF Exchange, LinedUp
    <2>2. ASSUME NEW i \in 1..Len(up[c]), NEW j \in 1..Len(up[c]), up[c][i] = n, up[c][j] = n
          PROVE  i = j
      <3>1. n = Taken(c) + i - 1 /\ n = Taken(c) + j - 1
        BY <2>1, <2>2
      <3>. QED
        BY <1>0, <3>1
    <2>. QED
      BY <1>0, <2>2
  <1>3. \A i, j \in DOMAIN pending[c] : pending[c][i] = n /\ pending[c][j] = n => i = j
    <2>1. \A i, j \in DOMAIN pending[c] : i < j => pending[c][i] < pending[c][j]
      BY DEF Exchange, Ordered
    <2>2. \A i, j \in DOMAIN pending[c] : i < j \/ j < i \/ i = j
      BY <1>0
    <2>3. \A i \in DOMAIN pending[c] : pending[c][i] \in Nat
      BY <1>0
    <2>. QED
      BY <2>1, <2>2, <2>3
  <1>4. \A j, k \in DOMAIN Sent(c) :
           Answers(c, j) /\ Answers(c, k) /\ Sent(c)[j].n = n /\ Sent(c)[k].n = n => j = k
    BY DEF Exchange, Ordered
  <1>5. ~(Gone /\ pump[c].n = n) /\ ~(Gone /\ Goes)
    BY DEF Exchange, Ordered
  <1>6. ~(Goes /\ pump[c].n = n)
    <2>1. \A i \in DOMAIN pending[c] : pump[c].n < pending[c][i]
      BY DEF Exchange, Ordered
    <2>. QED
      BY <1>0, <2>1
  <1>7. \A x : x \in Places(c, n) <=>
           \/ \E i \in DOMAIN up[c] : up[c][i] = n /\ x = <<"up", i>>
           \/ hand[c].n = n /\ x = <<"hand", 1>>
           \/ \E i \in DOMAIN pending[c] : pending[c][i] = n /\ x = <<"pending", i>>
           \/ pump[c].n = n /\ x = <<"pump", 1>>
           \/ \E k \in DOMAIN Sent(c) : Answers(c, k) /\ Sent(c)[k].n = n /\ x = <<"sent", k>>
    <2>1. /\ Among(<<hand[c].n>>, n) = IF hand[c].n = n THEN {1} ELSE {}
          /\ Among(<<pump[c].n>>, n) = IF pump[c].n = n THEN {1} ELSE {}
      BY <1>0 DEF Among
    <2>. QED
      BY <2>1 DEF Places, Among, Answers
  <1>8. \A x, y \in Places(c, n) : x = y
    <2>1. ~(Waits /\ hand[c].n = n) /\ ~(Waits /\ (Goes \/ Gone \/ pump[c].n = n))
          /\ ~(hand[c].n = n /\ (Goes \/ Gone \/ pump[c].n = n))
      BY <1>0, <1>1
    <2>. HIDE DEF Waits, Goes, Gone
    <2>2. ASSUME NEW x \in Places(c, n)
          PROVE  \/ Waits /\ \E i \in DOMAIN up[c] : up[c][i] = n /\ x = <<"up", i>>
                 \/ hand[c].n = n /\ x = <<"hand", 1>>
                 \/ Goes /\ \E i \in DOMAIN pending[c] : pending[c][i] = n /\ x = <<"pending", i>>
                 \/ pump[c].n = n /\ x = <<"pump", 1>>
                 \/ Gone /\ \E k \in DOMAIN Sent(c) : Answers(c, k) /\ Sent(c)[k].n = n /\ x = <<"sent", k>>
      BY <1>7 DEF Waits, Goes, Gone
    <2>. QED
      BY <1>2, <1>3, <1>4, <1>5, <1>6, <2>1, <2>2
  <1>9. ASSUME writer[c], life[c] # "gone"
        PROVE  Places(c, n) # {}
    <2>1. CASE n < Passed(c)
      <3>1. n \in 1..(Passed(c) - 1)
        BY <1>0, <2>1
      <3>2. n = pump[c].n \/ Goes \/ Gone
        BY <1>9, <3>1 DEF Exchange, Complete
      <3>. QED
        BY <1>7, <3>2
    <2>2. CASE n >= Passed(c) /\ n < Taken(c)
      <3>1. Busy(c) /\ n = Taken(c) - 1
        BY <1>0, <2>2 DEF Passed
      <3>2. hand[c].n = n
        BY <3>1 DEF Exchange, LinedUp
      <3>. QED
        BY <1>7, <3>2
    <2>3. CASE n >= Taken(c)
      <3>1. n - Taken(c) + 1 \in DOMAIN up[c]
        <4>1. next[c] \in Int /\ Len(up[c]) \in Int /\ n \in Int /\ n <= next[c] - 1
          BY <1>0
        <4>2. Taken(c) = next[c] - Len(up[c])
          BY DEF Taken
        <4>3. n - Taken(c) + 1 \in 1..Len(up[c])
          BY <2>3, <4>1, <4>2
        <4>. QED
          BY <1>0, <4>3
      <3>2. up[c][n - Taken(c) + 1] = Taken(c) + (n - Taken(c) + 1) - 1
        BY <3>1 DEF Exchange, LinedUp
      <3>3. up[c][n - Taken(c) + 1] = n
        BY <1>0, <3>2
      <3>. QED
        BY <1>7, <3>1, <3>3
    <2>. QED
      BY <1>0, <2>1, <2>2, <2>3
  <1>. QED
    BY <1>8, <1>9

-----------------------------------------------------------------------------
(* What takes effect, and in which order *)

\* An inbox with one more command.
LEMMA InboxGrows ==
    ASSUME Typed, NEW l \in Logs, NEW m \in Commands, inbox' = [inbox EXCEPT ![l] = Append(@, m)]
    PROVE  /\ Len(inbox[l]) \in Nat /\ DOMAIN inbox[l] = 1..Len(inbox[l])
           /\ \A k \in Logs : k # l => inbox'[k] = inbox[k]
           /\ DOMAIN inbox'[l] = 1..(Len(inbox[l]) + 1) /\ inbox'[l][Len(inbox[l]) + 1] = m
           /\ \A i \in 1..Len(inbox[l]) : inbox'[l][i] = inbox[l][i]
           /\ \A i \in 1..(Len(inbox[l]) + 1) : i = Len(inbox[l]) + 1 \/ i \in 1..Len(inbox[l])
           /\ \A i \in 1..Len(inbox[l]) : i < Len(inbox[l]) + 1
  <1>1. inbox[l] \in Seq(Commands) /\ inbox'[l] = Append(inbox[l], m)
    BY DEF Typed, ActorTypes
  <1>2. \A k \in Logs : k # l => inbox'[k] = inbox[k]
    BY DEF Typed, ActorTypes
  <1>. QED
    BY <1>1, <1>2

\* A request is for a log there is.
LEMMA LogsNamed ==
    ASSUME Typed, NEW c \in Conns, NEW n \in Requests(c)
    PROVE  LogOf(c, n) \in Logs
  <1>1. program[c] \in Seq(Ops \X Logs) /\ n \in DOMAIN program[c]
    BY LineTypes DEF Requests
  <1>. QED
    BY <1>1 DEF LogOf

\* The session goes on and a command may be enqueued, which is the first it had not issued
\* if it is of this connection: then it comes behind all that were.
LEMMA EffectsGrow ==
    ASSUME Typed, NEW c \in Conns, Queued(c), Recorded(c), Decided(c),
           UNCHANGED <<program, log, answer>>, Issued(c)' \in Int, Issued(c)' >= Issued(c),
           \/ UNCHANGED inbox
           \/ \E l \in Logs, m \in Commands :
                 /\ inbox' = [inbox EXCEPT ![l] = Append(@, m)]
                 /\ Of(m, c) => /\ m[2] = Issued(c) /\ Issued(c)' > Issued(c)
                                /\ m[2] \in Requests(c) /\ LogOf(c, m[2]) = l
    PROVE  Queued(c)' /\ Recorded(c)' /\ Decided(c)'
  <1>. DEFINE Later == Issued(c)'
              x == Issued(c)
  <1>0. x \in Int /\ Later \in Int /\ \A n \in Int : n < x => n < Later
    BY LineTypes
  <1>5. /\ \A k \in Logs : \A i \in DOMAIN log[k] : log[k][i][2] \in Int
        /\ \A k \in Logs : \A i \in DOMAIN inbox[k] : inbox[k][i][2] \in Int
    <2>1. \A m \in Commands : m[2] \in Int
      BY DEF Commands
    <2>2. \A k \in Logs : log[k] \in Seq(Commands) /\ inbox[k] \in Seq(Commands)
      BY DEF Typed, ActorTypes
    <2>. QED
      BY <2>1, <2>2
  <1>1. UNCHANGED <<program, log, answer>> /\ Requests(c)' = Requests(c) /\ \A n : LogOf(c, n)' = LogOf(c, n)
    BY DEF Requests, LogOf
  <1>2. Requests(c) = 1..Len(program[c]) /\ Len(program[c]) \in Nat
    BY LineTypes
  <1>. HIDE DEF x, Later
  <1>3. CASE UNCHANGED inbox
    <2>1. Queued(c)'
      BY <1>0, <1>1, <1>2, <1>3 DEF Queued, Of, x, Later
    <2>2. Recorded(c)'
      BY <1>0, <1>1, <1>3, <1>5 DEF Recorded, Of, x, Later
    <2>3. Decided(c)'
      BY <1>0, <1>1, <1>2, <1>3 DEF Decided, Of, x, Later
    <2>. QED
      BY <2>1, <2>2, <2>3
  <1>4. ASSUME NEW l \in Logs, NEW m \in Commands,
               inbox' = [inbox EXCEPT ![l] = Append(@, m)],
               Of(m, c) => /\ m[2] = x /\ Later > x
                           /\ m[2] \in Requests(c) /\ LogOf(c, m[2]) = l
        PROVE  Queued(c)' /\ Recorded(c)' /\ Decided(c)'
    <2>. DEFINE z == Len(inbox[l]) + 1
    <2>1. \A k \in Logs : \A i \in DOMAIN inbox'[k] :
             \/ i \in DOMAIN inbox[k] /\ inbox'[k][i] = inbox[k][i]
             \/ k = l /\ i = z /\ inbox'[k][i] = m
      BY <1>4, InboxGrows
    <2>2. \A k \in Logs : \A i, j \in DOMAIN inbox'[k] :
             i < j => i \in DOMAIN inbox[k] /\ inbox'[k][i] = inbox[k][i]
      BY <1>4, InboxGrows
    <2>. HIDE DEF z
    <2>3. Queued(c)'
      <3>1. \A k \in Logs : \A i \in DOMAIN inbox[k] : Of(inbox[k][i], c) =>
               /\ inbox[k][i][2] \in Requests(c) /\ inbox[k][i][2] < x /\ inbox[k][i][2] < Later
               /\ LogOf(c, inbox[k][i][2]) = k /\ answer[c][inbox[k][i][2]] = Unanswered
        BY <1>0, <1>5 DEF Queued, x
      <3>2. Of(m, c) => /\ m[2] = x /\ m[2] \in Requests(c) /\ m[2] < Later
                        /\ LogOf(c, m[2]) = l /\ answer[c][m[2]] = Unanswered
        <4>1. answer[c][x] # Unanswered /\ x \in Requests(c) => x < x
          BY DEF Decided, x
        <4>. QED
          BY <1>0, <1>4, <4>1
      <3>3. \A k \in Logs : \A i \in DOMAIN inbox'[k] : Of(inbox'[k][i], c) =>
               /\ inbox'[k][i][2] \in Requests(c) /\ inbox'[k][i][2] < Later
               /\ LogOf(c, inbox'[k][i][2]) = k /\ answer[c][inbox'[k][i][2]] = Unanswered
        BY <2>1, <3>1, <3>2
      <3>4. \A k \in Logs : \A i, j \in DOMAIN inbox'[k] :
               i < j /\ Of(inbox'[k][i], c) /\ Of(inbox'[k][j], c) => inbox'[k][i][2] < inbox'[k][j][2]
        <4>1. \A k \in Logs : \A i, j \in DOMAIN inbox[k] :
                 i < j /\ Of(inbox[k][i], c) /\ Of(inbox[k][j], c) => inbox[k][i][2] < inbox[k][j][2]
          BY DEF Queued
        <4>. QED
          BY <2>1, <2>2, <3>1, <3>2, <4>1
      <3>. QED
        BY <1>1, <3>3, <3>4 DEF Queued, Of, Later
    <2>4. Recorded(c)'
      <3>1. \A k \in Logs : \A i \in DOMAIN log[k] : log[k][i][1] = c => log[k][i][2] < x /\ log[k][i][2] < Later
        BY <1>0, <1>5 DEF Recorded, x
      <3>2. \A k \in Logs : \A i \in DOMAIN log[k] : log[k][i][1] = c =>
               \A j \in DOMAIN inbox'[k] : Of(inbox'[k][j], c) => log[k][i][2] < inbox'[k][j][2]
        <4>1. \A k \in Logs : \A i \in DOMAIN log[k] : log[k][i][1] = c =>
                 \A j \in DOMAIN inbox[k] : Of(inbox[k][j], c) => log[k][i][2] < inbox[k][j][2]
          BY DEF Recorded
        <4>. QED
          BY <1>4, <2>1, <3>1, <4>1
      <3>3. \A k \in Logs : \A i, j \in DOMAIN log[k] :
               i < j /\ log[k][i][1] = c /\ log[k][j][1] = c => log[k][i][2] < log[k][j][2]
        BY DEF Recorded
      <3>. QED
        BY <1>1, <3>1, <3>2, <3>3 DEF Recorded, Of, Later
    <2>5. Decided(c)'
      <3>1. \A n \in Requests(c) : answer[c][n] # Unanswered => n \in Int /\ n < x /\ n < Later
        BY <1>0, <1>2 DEF Decided, x
      <3>2. \A n \in Requests(c) : answer[c][n] # Unanswered =>
               \A j \in DOMAIN inbox'[LogOf(c, n)] : Of(inbox'[LogOf(c, n)][j], c) => n < inbox'[LogOf(c, n)][j][2]
        <4>. SUFFICES ASSUME NEW n \in Requests(c), answer[c][n] # Unanswered,
                             NEW j \in DOMAIN inbox'[LogOf(c, n)], Of(inbox'[LogOf(c, n)][j], c)
                      PROVE  n < inbox'[LogOf(c, n)][j][2]
          OBVIOUS
        <4>1. LogOf(c, n) \in Logs
          BY LogsNamed
        <4>2. \A i \in DOMAIN inbox[LogOf(c, n)] :
                 Of(inbox[LogOf(c, n)][i], c) => n < inbox[LogOf(c, n)][i][2]
          BY DEF Decided
        <4>. QED
          BY <1>4, <2>1, <3>1, <4>1, <4>2
      <3>. QED
        BY <1>1, <3>1, <3>2 DEF Decided, Of, Later
    <2>. QED
      BY <2>3, <2>4, <2>5
  <1>. QED
    BY <1>3, <1>4 DEF x, Later

\* Where the command at place j of inbox k was before the actor of l took its first.
Before(l, k, j) == IF k = l THEN j + 1 ELSE j

\* An actor takes the oldest command and leaves the others in their order.
LEMMA InboxShrinks ==
    ASSUME Typed, NEW l \in Logs, Serve(l)
    PROVE  /\ 1 \in DOMAIN inbox[l] /\ Head(inbox[l]) = inbox[l][1] /\ Head(inbox[l]) \in Commands
           /\ \A k \in Logs : \A j \in DOMAIN inbox'[k] :
                 /\ Before(l, k, j) \in DOMAIN inbox[k] /\ inbox'[k][j] = inbox[k][Before(l, k, j)]
                 /\ k = l => 1 < Before(l, k, j)
           /\ \A k \in Logs : \A i, j \in DOMAIN inbox'[k] : i < j => Before(l, k, i) < Before(l, k, j)
           /\ \A k \in Logs : \A i, j \in DOMAIN inbox'[k] : Before(l, k, i) = Before(l, k, j) => i = j
           /\ \A k \in Logs : Len(inbox'[k]) <= Len(inbox[k])
  <1>. DEFINE m == Head(inbox[l])
  <1>1. inbox[l] \in Seq(Commands) /\ inbox[l] # <<>> /\ inbox'[l] = Tail(inbox[l])
        /\ \A k \in Logs : k # l => inbox'[k] = inbox[k] /\ Len(inbox[k]) \in Nat
    BY DEF Serve, Typed, ActorTypes
  <1>2. /\ Len(inbox[l]) \in Nat /\ Len(inbox[l]) >= 1 /\ DOMAIN inbox[l] = 1..Len(inbox[l])
        /\ m = inbox[l][1] /\ m \in Commands /\ DOMAIN inbox'[l] = 1..(Len(inbox[l]) - 1)
        /\ \A j \in 1..(Len(inbox[l]) - 1) : inbox'[l][j] = inbox[l][j + 1]
        /\ Len(inbox'[l]) = Len(inbox[l]) - 1
    BY <1>1
  <1>3. ASSUME NEW j \in 1..(Len(inbox[l]) - 1)
        PROVE  j + 1 \in 1..Len(inbox[l]) /\ 1 < j + 1
    BY <1>2
  <1>4. \A i, j \in 1..(Len(inbox[l]) - 1) : (i < j => i + 1 < j + 1) /\ (i + 1 = j + 1 => i = j)
    BY <1>2
  <1>5. \A j : Before(l, l, j) = j + 1
    BY DEF Before
  <1>6. \A q \in Logs : q # l => \A j : Before(l, q, j) = j
    BY DEF Before
  <1>7. 1 \in DOMAIN inbox[l] /\ m = inbox[l][1] /\ m \in Commands
    BY <1>2
  <1>. HIDE DEF m
  <1>8. \A j \in DOMAIN inbox'[l] :
           /\ Before(l, l, j) \in DOMAIN inbox[l] /\ inbox'[l][j] = inbox[l][Before(l, l, j)]
           /\ 1 < Before(l, l, j)
    BY <1>2, <1>3, <1>5
  <1>9. \A i, j \in DOMAIN inbox'[l] :
           /\ i < j => Before(l, l, i) < Before(l, l, j)
           /\ Before(l, l, i) = Before(l, l, j) => i = j
    BY <1>2, <1>4, <1>5
  <1>10. ASSUME NEW k \in Logs, NEW j \in DOMAIN inbox'[k]
         PROVE  /\ Before(l, k, j) \in DOMAIN inbox[k] /\ inbox'[k][j] = inbox[k][Before(l, k, j)]
                /\ k = l => 1 < Before(l, k, j)
    <2>1. CASE k = l
      BY <1>8, <2>1
    <2>2. CASE k # l
      BY <1>1, <1>6, <2>2
    <2>. QED
      BY <2>1, <2>2
  <1>11. ASSUME NEW k \in Logs, NEW i \in DOMAIN inbox'[k], NEW j \in DOMAIN inbox'[k]
         PROVE  /\ i < j => Before(l, k, i) < Before(l, k, j)
                /\ Before(l, k, i) = Before(l, k, j) => i = j
    <2>1. CASE k = l
      BY <1>9, <2>1
    <2>2. CASE k # l
      BY <1>6, <2>2
    <2>. QED
      BY <2>1, <2>2
  <1>12. ASSUME NEW k \in Logs
         PROVE  Len(inbox'[k]) <= Len(inbox[k])
    <2>1. CASE k = l
      BY <1>2, <2>1
    <2>2. CASE k # l
      <3>1. Len(inbox[k]) \in Nat /\ Len(inbox'[k]) = Len(inbox[k])
        BY <1>1, <2>2
      <3>. QED
        BY <3>1
    <2>. QED
      BY <2>1, <2>2
  <1>. QED
    BY <1>7, <1>10, <1>11, <1>12 DEF m

\* An actor takes the first command of its inbox: it records or answers it, and everything
\* else of the connection that waits there was sent later.
LEMMA EffectsServe ==
    ASSUME Typed, Strangers, NEW l \in Logs, Serve(l), NEW c \in Conns,
           Queued(c), Recorded(c), Decided(c), Issued(c)' = Issued(c)
    PROVE  /\ Queued(c)' /\ Recorded(c)' /\ Decided(c)'
           /\ \A n \in Requests(c) : answer[c][n] # Unanswered => answer'[c][n] = answer[c][n]
  <1>. DEFINE m == Head(inbox[l])
              x == Issued(c)
              h == Len(log[l]) + 1
  <1>1. /\ UNCHANGED program /\ Requests(c)' = Requests(c) /\ \A n : LogOf(c, n)' = LogOf(c, n)
        /\ Requests(c) = 1..Len(program[c]) /\ Len(program[c]) \in Nat /\ x \in Int
    <2>1. UNCHANGED program
      BY DEF Serve, client
    <2>. QED
      BY <2>1, LineTypes DEF Requests, LogOf
  <1>2. /\ \A k \in Logs : \A i \in DOMAIN log[k] : log[k][i][2] \in Int
        /\ \A k \in Logs : \A i \in DOMAIN inbox[k] : inbox[k][i][2] \in Int
    <2>1. \A e \in Commands : e[2] \in Int
      BY DEF Commands
    <2>2. \A k \in Logs : log[k] \in Seq(Commands) /\ inbox[k] \in Seq(Commands)
      BY DEF Typed, ActorTypes
    <2>. QED
      BY <2>1, <2>2
  <1>3. /\ 1 \in DOMAIN inbox[l] /\ m = inbox[l][1] /\ m \in Commands
        /\ \A k \in Logs : \A j \in DOMAIN inbox'[k] :
              /\ Before(l, k, j) \in DOMAIN inbox[k] /\ inbox'[k][j] = inbox[k][Before(l, k, j)]
              /\ k = l => 1 < Before(l, k, j)
        /\ \A k \in Logs : \A i, j \in DOMAIN inbox'[k] : i < j => Before(l, k, i) < Before(l, k, j)
    BY InboxShrinks
  <1>4. m = <<m[1], m[2]>> /\ m[2] \in Int
    BY <1>3 DEF Commands
  <1>. HIDE DEF m, x
  \* What is left in the inboxes was there before, and in this one came later.
  <1>5. /\ \A k \in Logs : \A j \in DOMAIN inbox'[k] : Of(inbox'[k][j], c) =>
              /\ inbox'[k][j][2] \in Requests(c) /\ inbox'[k][j][2] < x
              /\ LogOf(c, inbox'[k][j][2]) = k /\ answer[c][inbox'[k][j][2]] = Unanswered
        /\ Of(m, c) => /\ m[2] \in Requests(c) /\ m[2] < x
                       /\ LogOf(c, m[2]) = l /\ answer[c][m[2]] = Unanswered
    BY <1>3 DEF Queued, x
  <1>6. Of(m, c) => \A j \in DOMAIN inbox'[l] : Of(inbox'[l][j], c) => m[2] < inbox'[l][j][2]
    BY <1>3 DEF Queued
  <1>7. \A k \in Logs : \A i, j \in DOMAIN inbox'[k] :
           i < j /\ Of(inbox'[k][i], c) /\ Of(inbox'[k][j], c) => inbox'[k][i][2] < inbox'[k][j][2]
    BY <1>3 DEF Queued
  <1>8. \A k \in Logs : \A j \in DOMAIN inbox'[k] : Of(inbox'[k][j], c) /\ Of(m, c) => inbox'[k][j][2] # m[2]
    <2>1. \A j \in DOMAIN inbox'[l] : inbox'[l][j][2] \in Int
      BY <1>2, <1>3
    <2>. QED
      BY <1>4, <1>5, <1>6, <2>1
  \* What is recorded.
  <1>9. /\ log[l] \in Seq(Commands) /\ h \in Nat /\ DOMAIN log[l] = 1..(h - 1)
        /\ \A i \in DOMAIN log[l] : i < h
    <2>1. log[l] \in Seq(Commands)
      BY DEF Typed, ActorTypes
    <2>. QED
      BY <2>1
  <1>10. \/ log' = log
         \/ /\ \A k \in Logs : k # l => log'[k] = log[k]
            /\ DOMAIN log'[l] = 1..h /\ log'[l][h] = m /\ \A i \in 1..(h - 1) : log'[l][i] = log[l][i]
            /\ m[1] = c => Of(m, c)
    <2>1. log' = log \/ (log' = [log EXCEPT ![l] = Append(@, m)] /\ (m[1] = c => Of(m, c)))
      BY PipelineAssumption DEF Serve, Asks, Of, m
    <2>2. CASE log' = [log EXCEPT ![l] = Append(@, m)] /\ (m[1] = c => Of(m, c))
      <3>1. log'[l] = Append(log[l], m) /\ \A k \in Logs : k # l => log'[k] = log[k]
        BY <2>2 DEF Typed, ActorTypes
      <3>2. /\ DOMAIN log'[l] = 1..h /\ log'[l][h] = m /\ \A i \in 1..(h - 1) : log'[l][i] = log[l][i]
        BY <1>3, <1>9, <3>1
      <3>. QED
        BY <2>2, <3>1, <3>2
    <2>. QED
      BY <2>1, <2>2
  <1>11. \A k \in Logs : \A i \in DOMAIN log'[k] :
            \/ i \in DOMAIN log[k] /\ log'[k][i] = log[k][i]
            \/ k = l /\ i = h /\ log'[k][i] = m /\ (m[1] = c => Of(m, c)) /\ log' # log
    <2>1. CASE log' = log
      BY <2>1
    <2>2. ASSUME log' # log, NEW i \in DOMAIN log'[l]
          PROVE  \/ i \in DOMAIN log[l] /\ log'[l][i] = log[l][i]
                 \/ i = h /\ log'[l][i] = m
      <3>1. i \in 1..h
        BY <1>10, <2>2
      <3>2. CASE i = h
        BY <1>10, <2>2, <3>2
      <3>3. CASE i \in 1..(h - 1)
        BY <1>9, <1>10, <2>2, <3>3
      <3>. QED
        BY <1>9, <3>1, <3>2, <3>3
    <2>. QED
      BY <1>10, <2>1, <2>2
  <1>12. \A k \in Logs : \A i \in DOMAIN log[k] : i \in DOMAIN log'[k] /\ log'[k][i] = log[k][i]
    <2>1. \A i \in DOMAIN log[l] : i \in 1..h /\ i \in 1..(h - 1)
      BY <1>9
    <2>. QED
      BY <1>10, <2>1
  \* What is answered.
  <1>13. \/ answer'[c] = answer[c]
         \/ /\ Of(m, c) /\ answer'[c][m[2]] \in Replies
            /\ \A n \in Requests(c) : n # m[2] => answer'[c][n] = answer[c][n]
            /\ answer'[c][m[2]].kind = "ack" =>
                  h \in DOMAIN log'[l] /\ log'[l][h] = m /\ answer'[c][m[2]].at = h
            /\ answer'[c][m[2]].kind = "view" => log' = log /\ answer'[c][m[2]].at = h - 1
    <2>1. answer[c] \in [Requests(c) -> Replies] /\ answer = [d \in Conns |-> answer[d]]
      BY DEF Typed, ActorTypes, AnswerTypes
    <2>2. CASE answer' = answer
      BY <2>2
    <2>3. CASE m[1] # c
      <3>1. answer' = answer \/ \E a, n : answer' = [answer EXCEPT ![m[1]][n] = a]
        BY DEF Serve, m
      <3>. QED
        BY <2>1, <2>3, <3>1
    <2>4. CASE /\ m[1] = c /\ ~Asks(m) /\ log' = [log EXCEPT ![l] = Append(@, m)]
               /\ answer' = [answer EXCEPT ![c][m[2]] = [kind |-> "ack", at |-> Len(log[l]) + 1]]
      <3>1. Of(m, c)
        BY <2>4 DEF Of, Asks
      <3>2. answer'[c][m[2]] = [kind |-> "ack", at |-> h]
        BY <1>5, <2>1, <2>4, <3>1
      <3>3. h \in DOMAIN log'[l] /\ log'[l][h] = m
        <4>1. log'[l] = Append(log[l], m)
          BY <2>4 DEF Typed, ActorTypes
        <4>. QED
          BY <1>3, <1>9, <4>1
      <3>4. \A n \in Requests(c) : n # m[2] => answer'[c][n] = answer[c][n]
        BY <2>1, <2>4
      <3>. QED
        BY <1>9, <3>1, <3>2, <3>3, <3>4 DEF Replies
    <2>5. CASE /\ m[1] = c /\ ~Asks(m) /\ log' = log
               /\ answer' = [answer EXCEPT ![c][m[2]] = [kind |-> "view", at |-> Len(log[l])]]
      <3>1. Of(m, c)
        BY <2>5 DEF Of, Asks
      <3>2. answer'[c][m[2]] = [kind |-> "view", at |-> Len(log[l])]
        BY <1>5, <2>1, <2>5, <3>1
      <3>3. Len(log[l]) \in Nat /\ Len(log[l]) = h - 1
        BY <1>9
      <3>4. \A n \in Requests(c) : n # m[2] => answer'[c][n] = answer[c][n]
        BY <2>1, <2>5
      <3>. QED
        BY <2>5, <3>1, <3>2, <3>3, <3>4 DEF Replies
    <2>. QED
      BY <2>2, <2>3, <2>4, <2>5 DEF Serve, m
  <1>14. \A n \in Requests(c) : answer[c][n] # Unanswered => answer'[c][n] = answer[c][n]
    BY <1>5, <1>13
  <1>15. Queued(c)'
    <2>1. \A k \in Logs : \A j \in DOMAIN inbox'[k] : Of(inbox'[k][j], c) =>
             answer'[c][inbox'[k][j][2]] = Unanswered
      BY <1>5, <1>8, <1>13
    <2>. QED
      BY <1>1, <1>5, <1>7, <2>1 DEF Queued, Of, x
  <1>16. Recorded(c)'
    <2>1. \A k \in Logs : \A i \in DOMAIN log[k] : log[k][i][1] = c =>
             /\ log[k][i][2] < x
             /\ \A j \in DOMAIN inbox[k] : Of(inbox[k][j], c) => log[k][i][2] < inbox[k][j][2]
      BY DEF Recorded, x
    <2>2. \A k \in Logs : \A i, j \in DOMAIN log[k] :
             i < j /\ log[k][i][1] = c /\ log[k][j][1] = c => log[k][i][2] < log[k][j][2]
      BY DEF Recorded
    <2>3. \A k \in Logs : \A i \in DOMAIN log'[k] : log'[k][i][1] = c =>
             /\ log'[k][i][2] < x
             /\ \A j \in DOMAIN inbox'[k] : Of(inbox'[k][j], c) => log'[k][i][2] < inbox'[k][j][2]
      BY <1>3, <1>5, <1>6, <1>11, <2>1
    <2>4. \A k \in Logs : \A i, j \in DOMAIN log'[k] :
             i < j /\ log'[k][i][1] = c /\ log'[k][j][1] = c => log'[k][i][2] < log'[k][j][2]
      <3>. SUFFICES ASSUME NEW k \in Logs, NEW i \in DOMAIN log'[k], NEW j \in DOMAIN log'[k],
                           i < j, log'[k][i][1] = c, log'[k][j][1] = c
                    PROVE  log'[k][i][2] < log'[k][j][2]
        OBVIOUS
      <3>1. CASE j \in DOMAIN log[k] /\ log'[k][j] = log[k][j]
        <4>1. i \in DOMAIN log[k] /\ log'[k][i] = log[k][i]
          <5>1. log[k] \in Seq(Commands) /\ DOMAIN log[k] = 1..Len(log[k])
            BY DEF Typed, ActorTypes
          <5>2. k = l /\ i = h => FALSE
            BY <1>9, <3>1
          <5>. QED
            BY <1>11, <5>2
        <4>. QED
          BY <2>2, <3>1, <4>1
      <3>2. CASE k = l /\ j = h /\ log'[k][j] = m /\ (m[1] = c => Of(m, c))
        <4>1. i \in DOMAIN log[k] /\ log'[k][i] = log[k][i]
          BY <1>9, <1>11, <3>2
        <4>. QED
          BY <1>3, <2>1, <3>2, <4>1
      <3>. QED
        BY <1>11, <3>1, <3>2
    <2>. QED
      BY <1>1, <2>3, <2>4 DEF Recorded, Of, x
  <1>17. Decided(c)'
    <2>. SUFFICES ASSUME NEW n \in Requests(c), answer'[c][n] # Unanswered
                  PROVE  LET k == LogOf(c, n)  a == answer'[c][n] IN
                         /\ n < x
                         /\ \A j \in DOMAIN inbox'[k] : Of(inbox'[k][j], c) => n < inbox'[k][j][2]
                         /\ a.kind = "ack" => a.at \in DOMAIN log'[k] /\ log'[k][a.at] = <<c, n>>
                         /\ a.kind = "view" =>
                               \A i \in DOMAIN log'[k] : log'[k][i][1] = c /\ log'[k][i][2] < n => i <= a.at
      BY <1>1 DEF Decided, Of, x
    <2>. DEFINE k == LogOf(c, n)
                a == answer'[c][n]
    <2>0. k \in Logs /\ n \in Int
      BY <1>1, LogsNamed
    <2>1. CASE answer[c][n] # Unanswered
      <3>1. a = answer[c][n]
        BY <1>14, <2>1
      <3>2. /\ n < x
            /\ \A j \in DOMAIN inbox[k] : Of(inbox[k][j], c) => n < inbox[k][j][2]
            /\ a.kind = "ack" => a.at \in DOMAIN log[k] /\ log[k][a.at] = <<c, n>>
            /\ a.kind = "view" => \A i \in DOMAIN log[k] : log[k][i][1] = c /\ log[k][i][2] < n => i <= a.at
        BY <2>1, <3>1 DEF Decided, x
      <3>. HIDE DEF k, a
      <3>3. \A j \in DOMAIN inbox'[k] : Of(inbox'[k][j], c) => n < inbox'[k][j][2]
        BY <1>3, <2>0, <3>2
      <3>4. a.kind = "ack" => a.at \in DOMAIN log'[k] /\ log'[k][a.at] = <<c, n>>
        BY <1>12, <2>0, <3>2
      <3>5. a.kind = "view" => \A i \in DOMAIN log'[k] : log'[k][i][1] = c /\ log'[k][i][2] < n => i <= a.at
        <4>1. k = l /\ Of(m, c) => n < m[2]
          BY <1>3, <3>2
        <4>2. k = l /\ Of(m, c) => ~(m[2] < n)
          BY <1>4, <2>0, <4>1
        <4>. QED
          BY <1>11, <2>0, <3>2, <4>2
      <3>. QED
        BY <3>2, <3>3, <3>4, <3>5 DEF k, a
    <2>2. CASE answer[c][n] = Unanswered
      <3>1. Of(m, c) /\ n = m[2]
        BY <1>13, <2>2
      <3>2. k = l /\ n < x
        BY <1>5, <3>1
      <3>3. answer'[c] # answer[c]
        BY <2>2
      <3>. HIDE DEF k
      <3>4. \A j \in DOMAIN inbox'[k] : Of(inbox'[k][j], c) => n < inbox'[k][j][2]
        BY <1>6, <3>1, <3>2
      <3>5. a.kind = "ack" => a.at \in DOMAIN log'[k] /\ log'[k][a.at] = <<c, n>>
        <4>1. m = <<c, n>>
          BY <1>4, <3>1 DEF Of
        <4>. QED
          BY <1>13, <3>1, <3>2, <3>3, <4>1
      <3>6. a.kind = "view" => \A i \in DOMAIN log'[k] : i <= a.at
        <4>1. \A i \in DOMAIN log[l] : i <= h - 1
          BY <1>9
        <4>. QED
          BY <1>13, <3>1, <3>2, <3>3, <4>1
      <3>. QED
        BY <3>2, <3>4, <3>5, <3>6 DEF k
    <2>. QED
      BY <2>1, <2>2
  <1>. QED
    BY <1>14, <1>15, <1>16, <1>17

\* An actor that stops drops the senders of what it had not come to.
LEMMA EffectsStop ==
    ASSUME Typed, NEW l \in Logs, ActorStops(l), NEW c \in Conns,
           Queued(c), Recorded(c), Decided(c), Issued(c)' = Issued(c)
    PROVE  /\ Queued(c)' /\ Recorded(c)' /\ Decided(c)'
           /\ \A n \in Requests(c) : answer[c][n] # Unanswered => answer'[c][n] = answer[c][n]
  <1>. DEFINE x == Issued(c)
              Waits(n) == \E i \in DOMAIN inbox[l] : inbox[l][i] = <<c, n>>
  <1>1. /\ UNCHANGED <<program, log>> /\ Requests(c)' = Requests(c) /\ \A n : LogOf(c, n)' = LogOf(c, n)
        /\ Requests(c) = 1..Len(program[c]) /\ Len(program[c]) \in Nat /\ x \in Int
    <2>1. UNCHANGED <<program, log>>
      BY DEF ActorStops, client
    <2>. QED
      BY <2>1, LineTypes DEF Requests, LogOf
  <1>2. /\ inbox'[l] = <<>> /\ \A k \in Logs : k # l => inbox'[k] = inbox[k]
    BY DEF ActorStops, Typed, ActorTypes
  <1>3. \A n \in Requests(c) : answer'[c][n] = IF Waits(n) THEN Dropped ELSE answer[c][n]
    <2>1. inbox[l] \in Seq(Commands) /\ DOMAIN inbox[l] = 1..Len(inbox[l])
      BY DEF Typed, ActorTypes
    <2>2. \A n \in Requests(c) : Contains(inbox[l], <<c, n>>) <=> Waits(n)
      BY <2>1 DEF Contains
    <2>. HIDE DEF Waits
    <2>. QED
      BY <2>2 DEF ActorStops
  <1>4. \A n \in Requests(c) : Waits(n) => /\ n < x /\ LogOf(c, n) = l /\ answer[c][n] = Unanswered
    <2>1. \A n \in Requests(c) : n # Idle
      BY <1>1 DEF Idle
    <2>2. \A n \in Requests(c) : Of(<<c, n>>, c) /\ <<c, n>>[2] = n
      BY <2>1 DEF Of
    <2>3. \A i \in DOMAIN inbox[l] : Of(inbox[l][i], c) =>
             /\ inbox[l][i][2] < x /\ LogOf(c, inbox[l][i][2]) = l
             /\ answer[c][inbox[l][i][2]] = Unanswered
      BY DEF Queued, x
    <2>4. ASSUME NEW n \in Requests(c), NEW i \in DOMAIN inbox[l], inbox[l][i] = <<c, n>>
          PROVE  n < x /\ LogOf(c, n) = l /\ answer[c][n] = Unanswered
      BY <2>2, <2>3, <2>4
    <2>. QED
      BY <2>4
  <1>5. \A n \in Requests(c) : answer[c][n] # Unanswered => answer'[c][n] = answer[c][n]
    BY <1>3, <1>4
  <1>. HIDE DEF Waits, x
  <1>6. Queued(c)'
    <2>1. \A k \in Logs : k # l => \A i \in DOMAIN inbox[k] : Of(inbox[k][i], c) =>
             /\ inbox[k][i][2] \in Requests(c) /\ inbox[k][i][2] < x
             /\ LogOf(c, inbox[k][i][2]) = k /\ answer'[c][inbox[k][i][2]] = Unanswered
      BY <1>3, <1>4 DEF Queued, x
    <2>2. \A k \in Logs : k # l => \A i, j \in DOMAIN inbox[k] :
             i < j /\ Of(inbox[k][i], c) /\ Of(inbox[k][j], c) => inbox[k][i][2] < inbox[k][j][2]
      BY DEF Queued
    <2>3. \A i : i \notin DOMAIN inbox'[l]
      BY <1>2
    <2>. QED
      BY <1>1, <1>2, <2>1, <2>2, <2>3 DEF Queued, Of, x
  <1>7. Recorded(c)'
    <2>1. \A i : i \notin DOMAIN inbox'[l]
      BY <1>2
    <2>. QED
      BY <1>1, <1>2, <2>1 DEF Recorded, Of, x
  <1>8. Decided(c)'
    <2>1. ASSUME NEW n \in Requests(c), answer'[c][n] # Unanswered
          PROVE  LET k == LogOf(c, n)  a == answer'[c][n] IN
                 /\ n < x
                 /\ \A j \in DOMAIN inbox'[k] : Of(inbox'[k][j], c) => n < inbox'[k][j][2]
                 /\ a.kind = "ack" => a.at \in DOMAIN log[k] /\ log[k][a.at] = <<c, n>>
                 /\ a.kind = "view" =>
                       \A i \in DOMAIN log[k] : log[k][i][1] = c /\ log[k][i][2] < n => i <= a.at
      <3>0. LogOf(c, n) \in Logs
        BY LogsNamed
      <3>1. CASE Waits(n)
        <4>1. n < x /\ LogOf(c, n) = l /\ answer'[c][n] = Dropped
          BY <1>3, <1>4, <3>1
        <4>2. \A i : i \notin DOMAIN inbox'[l]
          BY <1>2
        <4>. QED
          BY <4>1, <4>2 DEF Dropped
      <3>2. CASE ~Waits(n)
        <4>1. answer'[c][n] = answer[c][n]
          BY <1>3, <3>2
        <4>2. \A k \in Logs : \A j \in DOMAIN inbox'[k] : j \in DOMAIN inbox[k] /\ inbox'[k][j] = inbox[k][j]
          BY <1>2
        <4>. QED
          BY <2>1, <3>0, <4>1, <4>2 DEF Decided, x
      <3>. QED
        BY <3>1, <3>2
    <2>. QED
      BY <1>1, <2>1 DEF Decided, Of, x
  <1>. QED
    BY <1>5, <1>6, <1>7, <1>8

\* What the pump has sent stays what was answered.
LEMMA ToldNext ==
    ASSUME Typed, Typed', NEW c \in Conns, Told(c), Moved(c), program' = program,
           \A n \in Requests(c) : answer[c][n] # Unanswered => answer'[c][n] = answer[c][n]
    PROVE  Told(c)'
  <1>. DEFINE s == Sent(c)
  <1>1. s \in Seq(Frames) /\ Requests(c)' = Requests(c)
    BY LineTypes DEF Requests
  <1>2. \A k \in DOMAIN s : ByPump(c, k) =>
           /\ s[k].n \in Requests(c) /\ answer'[c][s[k].n] # Unanswered
           /\ answer'[c][s[k].n] = [kind |-> s[k].kind, at |-> s[k].at]
    BY DEF Told
  <1>3. ASSUME \A j \in DOMAIN Sent(c)' : \E k \in DOMAIN s : Sent(c)'[j] = s[k]
        PROVE  Told(c)'
    BY <1>1, <1>2, <1>3 DEF Told, ByPump
  <1>4. ASSUME NEW f \in Frames, Sent(c)' = Append(s, f),
               f.of = "pump" => /\ f.n \in Requests(c) /\ answer[c][f.n] # Unanswered
                                /\ answer[c][f.n] = [kind |-> f.kind, at |-> f.at]
        PROVE  Told(c)'
    <2>1. \A j \in DOMAIN Sent(c)' : (j \in DOMAIN s /\ Sent(c)'[j] = s[j]) \/ Sent(c)'[j] = f
      <3>1. /\ DOMAIN s = 1..Len(s) /\ DOMAIN Sent(c)' = 1..(Len(s) + 1) /\ Len(s) \in Nat
            /\ Sent(c)'[Len(s) + 1] = f /\ \A k \in 1..Len(s) : Sent(c)'[k] = s[k]
        BY <1>1, <1>4, SentGrows
      <3>2. ASSUME NEW j \in 1..(Len(s) + 1)
            PROVE  (j \in 1..Len(s) /\ Sent(c)'[j] = s[j]) \/ Sent(c)'[j] = f
        BY <3>1
      <3>. QED
        BY <3>1, <3>2
    <2>. QED
      BY <1>1, <1>2, <1>4, <2>1 DEF Told, ByPump
  <1>5. CASE Sent(c)' = s
    BY <1>3, <1>5
  <1>6. CASE Loses(c)
    BY <1>3, <1>6 DEF Loses, Thinned
  <1>7. CASE Pushes(c)
    BY <1>4, <1>7 DEF Pushes
  <1>8. CASE Settles(c)
    BY <1>4, <1>5, <1>8 DEF Settles
  <1>9. CASE Tells(c)
    BY <1>4, <1>5, <1>9 DEF Tells
  <1>. QED
    BY <1>5, <1>6, <1>7, <1>8, <1>9 DEF Moved, Stays, Issues, Begins, Leaves, Awaits

-----------------------------------------------------------------------------
(* Every step, and the invariant *)

\* What a connection's own step may put in an inbox: the command its session has in
\* hand, or the question of its stream.
LEMMA OwnCommands ==
    ASSUME Typed, NEW c \in Conns, Act(c), LinedUp(c),
           stream[c].at # "none" => stream[c].log \in Logs,
           hand[c].at = "command" => hand[c].n \in Requests(c)
    PROVE  /\ UNCHANGED <<program, log, answer>>
           /\ \/ UNCHANGED inbox
              \/ \E l \in Logs :
                    /\ Command(c) /\ hand[c].at = "command" /\ hand'[c].at = "pending"
                    /\ l = LogOf(c, hand[c].n) /\ <<c, hand[c].n>> \in Commands
                    /\ Len(inbox[l]) < Inbox
                    /\ inbox' = [inbox EXCEPT ![l] = Append(@, <<c, hand[c].n>>)]
              \/ \E l \in Logs :
                    /\ StreamAsks(c) /\ Len(inbox[l]) < Inbox /\ <<c, Idle>> \in Commands
                    /\ stream' = [stream EXCEPT ![c].at = "asked"]
                    /\ inbox' = [inbox EXCEPT ![l] = Append(@, <<c, Idle>>)]
  <1>. USE DEF client, session, way, actor
  <1>1. CASE ClientSend(c) \/ ClientRead(c) \/ Shut(c) \/ Vanish(c)
    BY <1>1 DEF ClientSend, ClientRead, Shut, Vanish
  <1>2. CASE Take(c) \/ Reply(c) \/ Hand(c) \/ Close(c)
    BY <1>2 DEF Take, Reply, Hand, Close
  <1>3. CASE Pump(c) \/ Writer(c)
    BY <1>3 DEF Pump, PumpTake, PumpSend, PumpEnd, Writer, Write, WriterEnd
  <1>4. CASE StreamReads(c) \/ StreamPushes(c) \/ StreamFails(c) \/ StreamLeaves(c) \/ StreamEnds(c)
    BY <1>4 DEF StreamReads, StreamPushes, StreamFails, StreamLeaves, StreamEnds
  <1>5. CASE Command(c)
    <2>. DEFINE n == hand[c].n
                l == LogOf(c, n)
    <2>1. hand[c].at = "command" /\ UNCHANGED <<program, log, answer>>
      BY <1>5 DEF Command
    <2>2. l \in Logs
      BY <2>1, LogsNamed
    <2>3. \/ UNCHANGED inbox
          \/ /\ Len(inbox[l]) < Inbox /\ inbox' = [inbox EXCEPT ![l] = Append(@, <<c, n>>)]
             /\ hand' = [hand EXCEPT ![c].at = "pending"]
      BY <1>5 DEF Command, Enqueued
    <2>4. n \in Nat /\ <<c, n>> \in Commands /\ hand \in [Conns -> Hands]
      BY LineTypes DEF Commands, Typed, SessionTypes
    <2>5. hand' = [hand EXCEPT ![c].at = "pending"] => hand'[c].at = "pending"
      BY <2>4 DEF Hands
    <2>. QED
      BY <1>5, <2>1, <2>2, <2>3, <2>4, <2>5
  <1>6. CASE StreamAsks(c)
    <2>. DEFINE l == stream[c].log
    <2>1. UNCHANGED <<program, log, answer>> /\ stream[c].at = "loop"
      BY <1>6 DEF StreamAsks, Due, Streaming
    <2>2. l \in Logs /\ <<c, Idle>> \in Commands
      BY <2>1 DEF Commands, Idle
    <2>3. \/ UNCHANGED inbox
          \/ /\ Len(inbox[l]) < Inbox /\ inbox' = [inbox EXCEPT ![l] = Append(@, <<c, Idle>>)]
             /\ stream' = [stream EXCEPT ![c].at = "asked"]
      BY <1>6 DEF StreamAsks, Moves
    <2>. QED
      BY <1>6, <2>1, <2>2, <2>3
  <1>. QED
    BY <1>1, <1>2, <1>3, <1>4, <1>5, <1>6 DEF Act, Dispatch, StreamTask

\* A session never takes back what it gave to an actor, and gives it once.
LEMMA IssuedNext ==
    ASSUME Typed, Typed', NEW c \in Conns, Act(c), LinedUp(c), Moved(c), program' = program
    PROVE  /\ Issued(c)' \in Int /\ Issued(c)' >= Issued(c)
           /\ hand[c].at = "command" /\ hand'[c].at = "pending" =>
                 hand[c].n = Issued(c) /\ Issued(c)' > Issued(c)
  <1>. USE DEF client, session, way, actor
  <1>1. /\ next[c] \in Nat /\ up[c] \in Seq(Nat) /\ Len(up[c]) \in Nat /\ Taken(c) \in Int
        /\ next'[c] \in Nat /\ up'[c] \in Seq(Nat) /\ Len(up'[c]) \in Nat /\ hand[c] \in Hands
    <2>1. next'[c] \in Nat /\ up'[c] \in Seq(Nat)
      BY DEF Typed, ClientTypes, WayTypes
    <2>. QED
      BY <2>1, LineTypes
  <1>2. hand'[c].at = "command" => hand[c].at = "command" \/ Take(c)
    <2>1. CASE Reply(c)
      BY <2>1 DEF Reply, Reading, Finished, Typed, SessionTypes
    <2>2. CASE Command(c)
      BY <2>2 DEF Command
    <2>3. CASE Hand(c)
      BY <2>3 DEF Hand, Await, Reading, Replying, Typed, SessionTypes
    <2>4. CASE Close(c)
      BY <2>4 DEF Close, Hands, Typed, SessionTypes
    <2>5. CASE ClientSend(c) \/ ClientRead(c) \/ Shut(c) \/ Vanish(c) \/ Pump(c) \/ Writer(c) \/ StreamTask(c)
      <3>1. hand' = hand
        BY <2>5 DEF ClientSend, ClientRead, Shut, Vanish, Pump, PumpTake, PumpSend, PumpEnd, Writer, Write,
                    WriterEnd, StreamTask, StreamReads, StreamAsks, StreamPushes, StreamFails,
                    StreamLeaves, StreamEnds
      <3>. QED
        BY <3>1
    <2>. QED
      BY <2>1, <2>2, <2>3, <2>4, <2>5 DEF Act, Dispatch
  <1>3. CASE Begins(c)
    <2>1. next'[c] = next[c] /\ hand[c].at = "read" /\ Len(up'[c]) = Len(up[c]) - 1
      BY <1>1, <1>3 DEF Begins
    <2>. QED
      BY <1>1, <2>1 DEF Issued, Taken
  <1>4. CASE ~Begins(c)
    <2>1. next'[c] - Len(up'[c]) = next[c] - Len(up[c])
      <3>1. CASE Issues(c)
        <4>1. next'[c] = next[c] + 1 /\ Len(up'[c]) = Len(up[c]) + 1
          BY <1>1, <3>1 DEF Issues
        <4>2. next[c] \in Int /\ Len(up[c]) \in Int
          BY <1>1
        <4>3. (next[c] + 1) - (Len(up[c]) + 1) = next[c] - Len(up[c])
          BY <4>2
        <4>. QED
          BY <4>1, <4>3
      <3>2. CASE ~Issues(c)
        BY <1>4, <3>2 DEF Moved, Stays, Loses, Pushes, InPlace, Settles, Leaves, Awaits, Tells
      <3>. QED
        BY <3>1, <3>2
    <2>2. Taken(c)' = Taken(c)
      BY <2>1 DEF Taken
    <2>3. ~Take(c)
      <3>1. ASSUME Take(c)
            PROVE  FALSE
        <4>1. next'[c] = next[c] /\ Len(up'[c]) = Len(up[c]) - 1
          <5>1. up'[c] = Tail(up[c]) /\ up[c] # <<>> /\ next'[c] = next[c]
            BY <3>1 DEF Take, Typed, WayTypes
          <5>. QED
            BY <1>1, <5>1
        <4>. QED
          BY <1>1, <2>1, <4>1
      <3>. QED
        BY <3>1
    <2>4. hand[c].at = "command" => hand[c].n = Taken(c) - 1
      BY DEF LinedUp, Busy
    <2>. QED
      BY <1>1, <1>2, <2>2, <2>3, <2>4 DEF Issued
  <1>. QED
    BY <1>3, <1>4

\* Requests take effect in the order they were sent, whichever connection takes a step,
LEMMA EffectsAct ==
    ASSUME Typed, Typed', NEW d \in Conns, Act(d), LinedUp(d), Moved(d),
           stream[d].at # "none" => stream[d].log \in Logs,
           hand[d].at = "command" => hand[d].n \in Requests(d),
           NEW c \in Conns, Effects(c), Moved(c)
    PROVE  Effects(c)'
  <1>1. /\ UNCHANGED <<program, log, answer>>
        /\ \/ UNCHANGED inbox
           \/ \E l \in Logs :
                 /\ Command(d) /\ hand[d].at = "command" /\ hand'[d].at = "pending"
                 /\ l = LogOf(d, hand[d].n) /\ <<d, hand[d].n>> \in Commands
                 /\ Len(inbox[l]) < Inbox
                 /\ inbox' = [inbox EXCEPT ![l] = Append(@, <<d, hand[d].n>>)]
           \/ \E l \in Logs :
                 /\ StreamAsks(d) /\ Len(inbox[l]) < Inbox /\ <<d, Idle>> \in Commands
                 /\ stream' = [stream EXCEPT ![d].at = "asked"]
                 /\ inbox' = [inbox EXCEPT ![l] = Append(@, <<d, Idle>>)]
    BY OwnCommands
  <1>2. /\ Issued(c)' \in Int /\ Issued(c)' >= Issued(c)
        /\ d # c \/ (hand[d].at = "command" /\ hand'[d].at = "pending" =>
                        hand[d].n = Issued(c) /\ Issued(c)' > Issued(c))
    <2>1. CASE d = c
      BY <1>1, <2>1, IssuedNext
    <2>2. CASE d # c
      <3>1. next'[c] = next[c] /\ up'[c] = up[c] /\ hand'[c] = hand[c]
        BY <2>2, OthersStay DEF Stays, InPlace
      <3>2. Issued(c)' = Issued(c) /\ Issued(c) \in Int
        BY <3>1, LineTypes DEF Issued, Taken
      <3>. QED
        BY <2>2, <3>2
    <2>. QED
      BY <2>1, <2>2
  <1>3. \/ UNCHANGED inbox
        \/ \E l \in Logs, m \in Commands :
              /\ inbox' = [inbox EXCEPT ![l] = Append(@, m)]
              /\ Of(m, c) => /\ m[2] = Issued(c) /\ Issued(c)' > Issued(c)
                             /\ m[2] \in Requests(c) /\ LogOf(c, m[2]) = l
    <2>1. CASE UNCHANGED inbox
      BY <2>1
    <2>2. ASSUME NEW l \in Logs,
                 hand[d].at = "command" /\ hand'[d].at = "pending",
                 l = LogOf(d, hand[d].n) /\ <<d, hand[d].n>> \in Commands,
                 inbox' = [inbox EXCEPT ![l] = Append(@, <<d, hand[d].n>>)]
          PROVE  \E k \in Logs, m \in Commands :
                    /\ inbox' = [inbox EXCEPT ![k] = Append(@, m)]
                    /\ Of(m, c) => /\ m[2] = Issued(c) /\ Issued(c)' > Issued(c)
                                   /\ m[2] \in Requests(c) /\ LogOf(c, m[2]) = k
      <3>. DEFINE m == <<d, hand[d].n>>
      <3>1. Of(m, c) => /\ m[2] = Issued(c) /\ Issued(c)' > Issued(c)
                        /\ m[2] \in Requests(c) /\ LogOf(c, m[2]) = l
        BY <1>2, <2>2 DEF Of
      <3>. QED
        BY <2>2, <3>1
    <2>3. ASSUME NEW l \in Logs, <<d, Idle>> \in Commands,
                 inbox' = [inbox EXCEPT ![l] = Append(@, <<d, Idle>>)]
          PROVE  \E k \in Logs, m \in Commands :
                    inbox' = [inbox EXCEPT ![k] = Append(@, m)] /\ ~Of(m, c)
      <3>1. ~Of(<<d, Idle>>, c)
        BY DEF Of
      <3>. QED
        BY <2>3, <3>1
    <2>. QED
      BY <1>1, <2>1, <2>2, <2>3
  <1>4. Queued(c)' /\ Recorded(c)' /\ Decided(c)'
    BY <1>1, <1>2, <1>3, EffectsGrow DEF Effects
  <1>5. Told(c)'
    BY <1>1, ToldNext DEF Effects
  <1>. QED
    BY <1>4, <1>5 DEF Effects

\* or whichever actor takes, drops or is given a command.
LEMMA EffectsActor ==
    ASSUME Typed, Typed', Strangers, NEW l \in Logs, Serve(l) \/ Strange(l) \/ ActorStops(l),
           NEW c \in Conns, Effects(c), Moved(c)
    PROVE  Effects(c)'
  <1>1. UNCHANGED <<program, next, up, hand>>
    BY DEF Serve, Strange, ActorStops, client, session, way
  <1>2. Issued(c)' = Issued(c) /\ Issued(c) \in Int
    BY <1>1, LineTypes DEF Issued, Taken
  <1>3. /\ Queued(c)' /\ Recorded(c)' /\ Decided(c)'
        /\ \A n \in Requests(c) : answer[c][n] # Unanswered => answer'[c][n] = answer[c][n]
    <2>1. CASE Serve(l)
      BY <1>2, <2>1, EffectsServe DEF Effects
    <2>2. CASE Strange(l)
      <3>1. <<Stranger, 1>> \in Commands /\ ~Of(<<Stranger, 1>>, c)
        BY PipelineAssumption DEF Commands, Of
      <3>2. UNCHANGED <<log, answer>> /\ inbox' = [inbox EXCEPT ![l] = Append(@, <<Stranger, 1>>)]
        BY <2>2 DEF Strange
      <3>3. \E k \in Logs, m \in Commands :
               /\ inbox' = [inbox EXCEPT ![k] = Append(@, m)]
               /\ Of(m, c) => /\ m[2] = Issued(c) /\ Issued(c)' > Issued(c)
                              /\ m[2] \in Requests(c) /\ LogOf(c, m[2]) = k
        BY <3>1, <3>2
      <3>4. Issued(c)' >= Issued(c)
        BY <1>2
      <3>. QED
        BY <1>1, <1>2, <3>2, <3>3, <3>4, EffectsGrow DEF Effects
    <2>3. CASE ActorStops(l)
      BY <1>2, <2>3, EffectsStop DEF Effects
    <2>. QED
      BY <2>1, <2>2, <2>3
  <1>4. Told(c)'
    BY <1>1, <1>3, ToldNext DEF Effects
  <1>. QED
    BY <1>3, <1>4 DEF Effects

\* A stream asks an actor once at a time, whatever its own connection does,
LEMMA AskingAct ==
    ASSUME Typed, Typed', NEW d \in Conns, Act(d), LinedUp(d), Asking(d),
           hand[d].at = "command" => hand[d].n \in Requests(d),
           Busy(d) => hand[d].n \in Requests(d),
           NEW c \in Conns, Asking(c), LinedUp(c), Moved(c)
    PROVE  Asking(c)'
  <1>. DEFINE Waits(k, i) == inbox[k][i] = <<c, Idle>>
  <1>1. Passed(c) \in Int /\ Passed(c)' \in Int /\ Passed(c)' >= Passed(c) /\ Passed(c) >= 1
    <2>1. program' = program
      BY DEF Act, ClientSend, ClientRead, Shut, Vanish, Dispatch, Take, Reply, Command, Hand, Close,
             Pump, PumpTake, PumpSend, PumpEnd, Writer, Write, WriterEnd, StreamTask, StreamReads,
             StreamAsks, StreamPushes, StreamFails, StreamLeaves, StreamEnds, client
    <2>2. Passed(c) \in Int
      BY LineTypes
    <2>3. (Passed(c)' = Passed(c) + 1 \/ Passed(c)' = Passed(c)) /\ Passed(c) >= 1
      BY <2>1, LinedUpNext
    <2>. QED
      BY <2>2, <2>3
  <1>2. UNCHANGED program
    BY DEF Act, ClientSend, ClientRead, Shut, Vanish, Dispatch, Take, Reply, Command, Hand, Close,
           Pump, PumpTake, PumpSend, PumpEnd, Writer, Write, WriterEnd, StreamTask, StreamReads,
           StreamAsks, StreamPushes, StreamFails, StreamLeaves, StreamEnds, client
  \* Its own questions.
  <1>3. ASSUME \A k \in Logs : \A i \in DOMAIN inbox'[k] :
                  inbox'[k][i] = <<c, Idle>> => i \in DOMAIN inbox[k] /\ inbox[k][i] = <<c, Idle>>,
               stream'[c] = stream[c] \/ stream[c].at # "asked"
        PROVE  \A l \in Logs : \A i \in DOMAIN inbox'[l] : inbox'[l][i] = <<c, Idle>> =>
                  /\ stream'[c].at = "asked"
                  /\ \A l2 \in Logs : \A j \in DOMAIN inbox'[l2] :
                        inbox'[l2][j] = <<c, Idle>> => l2 = l /\ j = i
    BY <1>3 DEF Asking
  <1>4. ASSUME StreamAsks(c), NEW l \in Logs, inbox' = [inbox EXCEPT ![l] = Append(@, <<c, Idle>>)],
               <<c, Idle>> \in Commands, stream' = [stream EXCEPT ![c].at = "asked"]
        PROVE  /\ stream'[c].at = "asked"
               /\ \A k \in Logs : \A i \in DOMAIN inbox'[k] : inbox'[k][i] = <<c, Idle>> =>
                     k = l /\ i = Len(inbox[l]) + 1
    <2>1. stream[c].at = "loop" /\ stream[c] \in Streams /\ stream \in [Conns -> Streams]
      BY <1>4 DEF StreamAsks, Due, Streaming, Typed
    <2>2. \A k \in Logs : \A i \in DOMAIN inbox[k] : inbox[k][i] # <<c, Idle>>
      BY <2>1 DEF Asking
    <2>3. \A k \in Logs : k # l => inbox'[k] = inbox[k]
      BY <1>4, InboxGrows
    <2>4. ASSUME NEW i \in 1..(Len(inbox[l]) + 1), inbox'[l][i] = <<c, Idle>>
          PROVE  i = Len(inbox[l]) + 1
      <3>1. /\ \A j \in 1..Len(inbox[l]) : inbox'[l][j] = inbox[l][j]
            /\ DOMAIN inbox[l] = 1..Len(inbox[l])
            /\ i = Len(inbox[l]) + 1 \/ i \in 1..Len(inbox[l])
        BY <1>4, InboxGrows
      <3>. QED
        BY <2>2, <2>4, <3>1
    <2>5. DOMAIN inbox'[l] = 1..(Len(inbox[l]) + 1)
      BY <1>4, InboxGrows
    <2>6. stream'[c].at = "asked"
      BY <1>4, <2>1 DEF Streams
    <2>. QED
      BY <2>2, <2>3, <2>4, <2>5, <2>6
  <1>5. ASSUME NEW l \in Logs, NEW m \in Commands, m # <<c, Idle>>, inbox' = [inbox EXCEPT ![l] = Append(@, m)]
        PROVE  \A k \in Logs : \A i \in DOMAIN inbox'[k] :
                  inbox'[k][i] = <<c, Idle>> => i \in DOMAIN inbox[k] /\ inbox[k][i] = <<c, Idle>>
    <2>1. ASSUME NEW k \in Logs, NEW i \in DOMAIN inbox'[k], inbox'[k][i] = <<c, Idle>>
          PROVE  i \in DOMAIN inbox[k] /\ inbox[k][i] = <<c, Idle>>
      <3>1. CASE k # l
        BY <1>5, <2>1, <3>1, InboxGrows
      <3>2. CASE k = l
        <4>1. /\ \A j \in 1..Len(inbox[l]) : inbox'[l][j] = inbox[l][j]
              /\ DOMAIN inbox[l] = 1..Len(inbox[l]) /\ DOMAIN inbox'[l] = 1..(Len(inbox[l]) + 1)
              /\ inbox'[l][Len(inbox[l]) + 1] = m
              /\ \A j \in 1..(Len(inbox[l]) + 1) : j = Len(inbox[l]) + 1 \/ j \in 1..Len(inbox[l])
          BY <1>5, InboxGrows
        <4>2. i = Len(inbox[l]) + 1 \/ i \in 1..Len(inbox[l])
          BY <2>1, <3>2, <4>1
        <4>. QED
          BY <1>5, <2>1, <3>2, <4>1, <4>2
      <3>. QED
        BY <3>1, <3>2
    <2>. QED
      BY <2>1
  \* Its stream starts with the reply to the only subscription.
  <1>6. CASE Reply(c) /\ Op(c, hand[c].n) = "subscribe"
    <2>0. PICK n \in Nat : n = hand[c].n
      BY LineTypes
    <2>1. n = Passed(c) /\ Passed(c)' = Passed(c) + 1 /\ n \in Requests(c)
      <3>1. Busy(c)
        BY <1>6 DEF Reply, Busy
      <3>2. ~Busy(c)' /\ next'[c] = next[c] /\ up'[c] = up[c]
        <4>1. hand'[c] \in {Reading, Finished}
          BY <1>6 DEF Reply, Typed, SessionTypes
        <4>. QED
          BY <1>6, <4>1 DEF Reply, Busy, Reading, Finished, client
      <3>3. Passed(c)' = Taken(c) /\ Passed(c) = Taken(c) - 1 /\ n = Taken(c) - 1 /\ Taken(c) \in Int
        BY <2>0, <3>1, <3>2, LineTypes DEF Passed, Taken, LinedUp
      <3>4. n \in Requests(c)
        <4>1. c = d \/ c # d
          OBVIOUS
        <4>2. CASE c # d
          BY <1>6, <4>2, <3>1, <3>2, OthersStay DEF Stays, InPlace
        <4>. QED
          BY <2>0, <3>1, <4>1, <4>2
      <3>. QED
        BY <3>3, <3>4
    <2>2. stream[c].at = "none"
      <3>1. ASSUME NEW m \in 1..(Passed(c) - 1), Op(c, m) = "subscribe"
            PROVE  FALSE
        <4>1. m \in Requests(c) /\ m # n
          <5>1. Requests(c) = 1..Len(program[c]) /\ Len(program[c]) \in Nat
            BY LineTypes
          <5>2. Passed(c) <= Len(program[c])
            BY <1>1, <2>1, <5>1
          <5>. QED
            BY <1>1, <2>1, <5>1, <5>2
        <4>2. program[c] \in Programs
          BY DEF Typed, ClientTypes
        <4>. QED
          BY <1>6, <2>0, <2>1, <3>1, <4>1, <4>2, PipelineAssumption DEF Op, Requests
      <3>. QED
        BY <3>1 DEF Asking
    <2>3. stream'[c] = [at |-> "loop", log |-> LogOf(c, n), sent |-> 0] /\ UNCHANGED inbox
      BY <1>6, <2>0 DEF Reply, Typed, actor
    <2>4. stream'[c].log \in Logs /\ stream[c].at # "asked"
      BY <2>1, <2>2, <2>3, LogsNamed
    <2>5. n \in 1..(Passed(c)' - 1) /\ Op(c, n)' = "subscribe"
      BY <1>1, <1>2, <1>6, <2>0, <2>1 DEF Op
    <2>6. \A l \in Logs : \A i \in DOMAIN inbox'[l] : inbox'[l][i] # <<c, Idle>>
      BY <2>2, <2>3 DEF Asking
    <2>. QED
      BY <2>4, <2>5, <2>6 DEF Asking
  \* Otherwise it goes on.
  <1>7. ASSUME stream'[c].at # "none" => stream[c].at # "none" /\ stream'[c].log = stream[c].log
        PROVE  stream'[c].at # "none" =>
                  /\ stream'[c].log \in Logs
                  /\ \E m \in 1..(Passed(c)' - 1) : Op(c, m)' = "subscribe"
    <2>1. ASSUME stream'[c].at # "none", NEW m \in 1..(Passed(c) - 1), Op(c, m) = "subscribe"
          PROVE  m \in 1..(Passed(c)' - 1) /\ Op(c, m)' = "subscribe"
      BY <1>1, <1>2, <2>1 DEF Op
    <2>. QED
      BY <1>7, <2>1 DEF Asking
  <1>8. ASSUME ~(Reply(c) /\ Op(c, hand[c].n) = "subscribe")
        PROVE  /\ stream'[c].at # "none" => stream[c].at # "none" /\ stream'[c].log = stream[c].log
               /\ stream'[c] = stream[c] \/ stream[c].at # "asked"
    <2>1. CASE c # d
      BY <2>1, OthersStay
    <2>2. CASE c = d
      <3>1. stream \in [Conns -> Streams] /\ stream[c] \in Streams
        BY DEF Typed
      <3>2. CASE StreamTask(c)
        <4>1. stream[c].at \notin {"none", "asked"}
          BY <3>2 DEF StreamTask, StreamReads, StreamAsks, StreamPushes, StreamFails, StreamLeaves, StreamEnds,
                      Due, Streaming
        <4>2. \A at : Moves(c, at) => stream'[c].log = stream[c].log
          BY <3>1 DEF Moves, Streams
        <4>3. StreamPushes(c) => stream'[c].log = stream[c].log
          BY <3>1 DEF StreamPushes, Streams
        <4>4. stream'[c].log = stream[c].log
          BY <3>2, <4>2, <4>3 DEF StreamTask, StreamReads, StreamAsks, StreamFails, StreamLeaves, StreamEnds
        <4>. QED
          BY <4>1, <4>4
      <3>3. CASE ~StreamTask(c)
        <4>1. stream' = stream
          BY <1>8, <2>2, <3>3 DEF Act, ClientSend, ClientRead, Shut, Vanish, Dispatch, Take, Reply, Command,
                Hand, Close, Pump, PumpTake, PumpSend, PumpEnd, Writer, Write, WriterEnd
        <4>. QED
          BY <4>1
      <3>. QED
        BY <3>2, <3>3
    <2>. QED
      BY <2>1, <2>2
  <1>9. CASE ~(Reply(c) /\ Op(c, hand[c].n) = "subscribe")
    <2>1. CASE UNCHANGED inbox
      BY <1>3, <1>7, <1>8, <1>9, <2>1 DEF Asking
    <2>2. ASSUME NEW l \in Logs, NEW m \in Commands, m # <<c, Idle>>,
                 inbox' = [inbox EXCEPT ![l] = Append(@, m)]
          PROVE  Asking(c)'
      BY <1>3, <1>5, <1>7, <1>8, <1>9, <2>2 DEF Asking
    <2>3. CASE \E l \in Logs :
                  /\ StreamAsks(c) /\ <<c, Idle>> \in Commands
                  /\ stream' = [stream EXCEPT ![c].at = "asked"]
                  /\ inbox' = [inbox EXCEPT ![l] = Append(@, <<c, Idle>>)]
      <3>. PICK l \in Logs :
                  /\ StreamAsks(c) /\ <<c, Idle>> \in Commands
                  /\ stream' = [stream EXCEPT ![c].at = "asked"]
                  /\ inbox' = [inbox EXCEPT ![l] = Append(@, <<c, Idle>>)]
        BY <2>3
      <3>1. /\ stream'[c].at = "asked"
            /\ \A k \in Logs : \A i \in DOMAIN inbox'[k] : inbox'[k][i] = <<c, Idle>> =>
                  k = l /\ i = Len(inbox[l]) + 1
        BY <1>4
      <3>. QED
        BY <1>7, <1>8, <1>9, <3>1 DEF Asking
    <2>4. \/ UNCHANGED inbox
          \/ \E l \in Logs :
                /\ hand[d].at = "command" /\ <<d, hand[d].n>> \in Commands
                /\ inbox' = [inbox EXCEPT ![l] = Append(@, <<d, hand[d].n>>)]
          \/ \E l \in Logs :
                /\ StreamAsks(d) /\ <<d, Idle>> \in Commands
                /\ stream' = [stream EXCEPT ![d].at = "asked"]
                /\ inbox' = [inbox EXCEPT ![l] = Append(@, <<d, Idle>>)]
      BY OwnCommands DEF Asking
    <2>5. hand[d].at = "command" => hand[d].n # Idle
      BY LineTypes DEF Idle
    <2>. QED
      BY <2>1, <2>2, <2>3, <2>4, <2>5
  <1>. QED
    BY <1>6, <1>9

\* or an actor answers it or stops.
LEMMA AskingActor ==
    ASSUME Typed, Typed', Strangers, NEW l \in Logs, Serve(l) \/ Strange(l) \/ ActorStops(l),
           NEW c \in Conns, Asking(c), LinedUp(c)
    PROVE  Asking(c)'
  <1>1. /\ UNCHANGED <<program, next, up, hand>>
        /\ Passed(c)' = Passed(c) /\ \A m : Op(c, m)' = Op(c, m)
    <2>1. UNCHANGED <<program, next, up, hand>>
      BY DEF Serve, Strange, ActorStops, client, session, way
    <2>. QED
      BY <2>1 DEF Passed, Busy, Taken, Op
  <1>2. stream \in [Conns -> Streams] /\ stream[c] \in Streams
    BY DEF Typed
  <1>3. ASSUME stream'[c].log = stream[c].log, stream[c].at = "none" => stream'[c].at = "none"
        PROVE  stream'[c].at # "none" =>
                  /\ stream'[c].log \in Logs
                  /\ \E m \in 1..(Passed(c)' - 1) : Op(c, m)' = "subscribe"
    BY <1>1, <1>3 DEF Asking
  <1>4. CASE Serve(l)
    <2>. DEFINE m == Head(inbox[l])
    <2>1. 1 \in DOMAIN inbox[l] /\ m = inbox[l][1] /\ m \in Commands
      BY <1>4, InboxShrinks
    <2>2. \/ m[2] = Idle /\ m[1] \in Conns /\ stream' = [stream EXCEPT ![m[1]].at = "push"]
          \/ m[2] # Idle /\ stream' = stream
      <3>1. m[1] \in Conns \/ m[1] = Stranger
        BY <2>1 DEF Commands
      <3>2. m[1] = Stranger => m[2] # Idle
        BY <2>1 DEF Strangers
      <3>. QED
        BY <1>4, <3>1, <3>2 DEF Serve, Asks
    <2>3. m[1] = c /\ m[2] = Idle => m = <<c, Idle>>
      BY <2>1 DEF Commands
    <2>. HIDE DEF m
    <2>4. \A k \in Logs : \A i \in DOMAIN inbox'[k] :
             /\ Before(l, k, i) \in DOMAIN inbox[k] /\ inbox'[k][i] = inbox[k][Before(l, k, i)]
             /\ k = l => 1 < Before(l, k, i)
      BY <1>4, InboxShrinks
    <2>5. \A k \in Logs : \A i, j \in DOMAIN inbox'[k] : Before(l, k, i) = Before(l, k, j) => i = j
      BY <1>4, InboxShrinks
    <2>6. CASE m = <<c, Idle>>
      <3>1. \A k \in Logs : \A i \in DOMAIN inbox[k] : inbox[k][i] = <<c, Idle>> => k = l /\ i = 1
        BY <2>1, <2>6 DEF Asking
      <3>2. \A k \in Logs : \A i \in DOMAIN inbox'[k] : inbox'[k][i] # <<c, Idle>>
        BY <2>4, <3>1
      <3>3. stream'[c].log = stream[c].log /\ stream[c].at = "asked"
        <4>1. stream[c].at = "asked"
          BY <2>1, <2>6 DEF Asking
        <4>2. stream' = [stream EXCEPT ![c].at = "push"]
          BY <2>2, <2>6
        <4>. QED
          BY <1>2, <4>1, <4>2 DEF Streams
      <3>. QED
        BY <1>3, <3>2, <3>3 DEF Asking
    <2>7. CASE m # <<c, Idle>>
      <3>1. stream'[c] = stream[c]
        <4>1. ~(m[1] = c /\ m[2] = Idle)
          BY <2>3, <2>7
        <4>. QED
          BY <1>2, <2>2, <4>1
      <3>2. \A k \in Logs : \A i \in DOMAIN inbox'[k] : inbox'[k][i] = <<c, Idle>> =>
               /\ stream'[c].at = "asked"
               /\ \A k2 \in Logs : \A j \in DOMAIN inbox'[k2] : inbox'[k2][j] = <<c, Idle>> => k2 = k /\ j = i
        <4>. SUFFICES ASSUME NEW k \in Logs, NEW i \in DOMAIN inbox'[k], inbox'[k][i] = <<c, Idle>>
                      PROVE  /\ stream'[c].at = "asked"
                             /\ \A k2 \in Logs : \A j \in DOMAIN inbox'[k2] :
                                   inbox'[k2][j] = <<c, Idle>> => k2 = k /\ j = i
          OBVIOUS
        <4>1. Before(l, k, i) \in DOMAIN inbox[k] /\ inbox[k][Before(l, k, i)] = <<c, Idle>>
          BY <2>4
        <4>2. /\ stream[c].at = "asked"
              /\ \A k2 \in Logs : \A j \in DOMAIN inbox[k2] :
                    inbox[k2][j] = <<c, Idle>> => k2 = k /\ j = Before(l, k, i)
          BY <4>1 DEF Asking
        <4>3. ASSUME NEW k2 \in Logs, NEW j \in DOMAIN inbox'[k2], inbox'[k2][j] = <<c, Idle>>
              PROVE  k2 = k /\ j = i
          <5>1. k2 = k /\ Before(l, k2, j) = Before(l, k, i)
            BY <2>4, <4>2, <4>3
          <5>. QED
            BY <2>5, <5>1
        <4>. QED
          BY <3>1, <4>2, <4>3
      <3>. QED
        BY <1>3, <3>1, <3>2 DEF Asking
    <2>. QED
      BY <2>6, <2>7
  <1>5. CASE Strange(l)
    <2>1. stream' = stream /\ inbox' = [inbox EXCEPT ![l] = Append(@, <<Stranger, 1>>)]
      BY <1>5 DEF Strange
    <2>2. <<Stranger, 1>> \in Commands /\ <<Stranger, 1>> # <<c, Idle>>
      BY PipelineAssumption DEF Commands
    <2>3. ASSUME NEW k \in Logs, NEW i \in DOMAIN inbox'[k], inbox'[k][i] = <<c, Idle>>
          PROVE  i \in DOMAIN inbox[k] /\ inbox[k][i] = <<c, Idle>>
      <3>1. CASE k # l
        BY <2>1, <2>2, <2>3, <3>1, InboxGrows
      <3>2. CASE k = l
        BY <2>1, <2>2, <2>3, <3>2, InboxGrows
      <3>. QED
        BY <3>1, <3>2
    <2>. QED
      BY <1>3, <2>1, <2>3 DEF Asking
  <1>6. CASE ActorStops(l)
    <2>1. inbox'[l] = <<>> /\ \A k \in Logs : k # l => inbox'[k] = inbox[k]
      BY <1>6 DEF ActorStops, Typed, ActorTypes
    <2>2. Contains(inbox[l], <<c, Idle>>) <=> \E i \in DOMAIN inbox[l] : inbox[l][i] = <<c, Idle>>
      <3>1. inbox[l] \in Seq(Commands) /\ DOMAIN inbox[l] = 1..Len(inbox[l])
        BY DEF Typed, ActorTypes
      <3>. QED
        BY <3>1 DEF Contains
    <2>3. stream'[c] = IF Contains(inbox[l], <<c, Idle>>) THEN [stream[c] EXCEPT !.at = "fail"] ELSE stream[c]
      BY <1>6 DEF ActorStops
    <2>4. stream'[c].log = stream[c].log /\ (stream[c].at = "none" => stream'[c].at = "none")
      BY <1>2, <2>2, <2>3 DEF Streams, Asking
    <2>5. \A k \in Logs : \A i \in DOMAIN inbox'[k] :
             k # l /\ i \in DOMAIN inbox[k] /\ inbox'[k][i] = inbox[k][i]
      BY <2>1
    <2>6. ASSUME NEW k \in Logs, NEW i \in DOMAIN inbox'[k], inbox'[k][i] = <<c, Idle>>
          PROVE  stream'[c].at = "asked"
      <3>1. ~Contains(inbox[l], <<c, Idle>>)
        BY <2>2, <2>5, <2>6 DEF Asking
      <3>. QED
        BY <2>3, <2>5, <2>6, <3>1 DEF Asking
    <2>7. \A k, k2 \in Logs : \A i \in DOMAIN inbox'[k] : \A j \in DOMAIN inbox'[k2] :
             inbox'[k][i] = <<c, Idle>> /\ inbox'[k2][j] = <<c, Idle>> => k2 = k /\ j = i
      BY <2>5 DEF Asking
    <2>. QED
      BY <1>3, <2>4, <2>6, <2>7 DEF Asking
  <1>. QED
    BY <1>4, <1>5, <1>6

\* Every sender waits for room, and a stream for credit.
LEMMA LimitedAct ==
    ASSUME Typed, Limited, NEW d \in Conns, Act(d), LinedUp(d), Asking(d),
           hand[d].at = "command" => hand[d].n \in Requests(d),
           pump[d].n # Idle => pump[d].n \in Requests(d)
    PROVE  Limited'
  <1>. DEFINE Room(c) ==
                 /\ Len(up'[c]) <= Up /\ Len(down'[c]) <= Down
                 /\ Len(pending'[c]) <= Pending /\ Len(outbox'[c]) <= Outbox
              Due2(c) == stream'[c].sent <= Credit /\ (stream'[c].at \in {"asked", "push"} => stream'[c].sent < Credit)
  <1>. USE DEF client, session, way, actor
  <1>0. {Up, Down, Inbox, Pending, Outbox, Credit} \subseteq Nat
    BY PipelineAssumption
  <1>1. /\ heard \in [Conns -> Seq(Frames)] /\ down \in [Conns -> Seq(Frames)]
        /\ outbox \in [Conns -> Seq(Frames)] /\ up \in [Conns -> Seq(Nat)]
        /\ pending \in [Conns -> Seq(Nat)] /\ stream \in [Conns -> Streams]
    BY DEF Typed, ClientTypes, SessionTypes, WayTypes
  <1>2. \A c \in Conns :
           /\ Len(up[c]) \in Nat /\ Len(down[c]) \in Nat /\ Len(pending[c]) \in Nat /\ Len(outbox[c]) \in Nat
           /\ Len(up[c]) <= Up /\ Len(down[c]) <= Down /\ Len(pending[c]) <= Pending /\ Len(outbox[c]) <= Outbox
           /\ stream[c].sent \in Nat /\ stream[c].sent <= Credit
           /\ stream[c].at \in {"asked", "push"} => stream[c].sent < Credit
    BY <1>1 DEF Limited, Streams
  \* What a queue may become.
  <1>3. ASSUME NEW S, NEW q \in Seq(S)
        PROVE  /\ \A e \in S : Len(Append(q, e)) = Len(q) + 1
               /\ q # <<>> => Len(Tail(q)) = Len(q) - 1 /\ Len(Tail(q)) <= Len(q)
               /\ Len(q) \in Nat
    OBVIOUS
  <1>4. /\ Len(<<>>) = 0 /\ \A n \in Nat : 0 <= n
    OBVIOUS
  <1>5. ASSUME NEW f \in Frames, Send(d, f)
        PROVE  \A c \in Conns : Len(outbox'[c]) <= Outbox
    <2>1. CASE OutboxRoom(d) /\ outbox' = [outbox EXCEPT ![d] = Append(@, f)]
      <3>1. outbox'[d] = Append(outbox[d], f) /\ \A c \in Conns : c # d => outbox'[c] = outbox[c]
        BY <1>1, <2>1
      <3>2. Len(outbox'[d]) = Len(outbox[d]) + 1 /\ Len(outbox[d]) < Outbox
        BY <1>1, <1>3, <2>1, <3>1 DEF OutboxRoom
      <3>3. Len(outbox'[d]) <= Outbox
        BY <1>0, <1>2, <3>2
      <3>. QED
        BY <1>2, <3>1, <3>3
    <2>2. CASE outbox' = outbox
      BY <1>2, <2>2
    <2>. QED
      BY <1>5, <2>1, <2>2 DEF Send
  \* The queues of the connection.
  <1>6. CASE ClientSend(d)
    <2>1. up'[d] = Append(up[d], next[d]) /\ next[d] \in Nat /\ Len(up[d]) < Up
          /\ (\A c \in Conns : c # d => up'[c] = up[c]) /\ UNCHANGED <<down, pending, outbox, stream, inbox>>
      BY <1>1, <1>6 DEF ClientSend, Typed, ClientTypes
    <2>2. Len(up'[d]) <= Up
      <3>1. Len(up'[d]) = Len(up[d]) + 1
        BY <1>1, <1>3, <2>1
      <3>. QED
        BY <1>0, <1>2, <2>1, <3>1
    <2>. QED
      BY <1>2, <2>1, <2>2 DEF Limited
  <1>7. CASE ClientRead(d)
    <2>1. down'[d] = Tail(down[d]) /\ down[d] # <<>>
          /\ (\A c \in Conns : c # d => down'[c] = down[c]) /\ UNCHANGED <<up, pending, outbox, stream, inbox>>
      BY <1>1, <1>7 DEF ClientRead
    <2>2. Len(down'[d]) <= Down
      <3>1. Len(down'[d]) = Len(down[d]) - 1
        BY <1>1, <1>3, <2>1
      <3>. QED
        BY <1>0, <1>2, <3>1
    <2>. QED
      BY <1>2, <2>1, <2>2 DEF Limited
  <1>8. CASE Shut(d) \/ Close(d) \/ PumpEnd(d) \/ WriterEnd(d)
    <2>1. UNCHANGED <<up, down, pending, outbox, stream, inbox>>
      BY <1>8 DEF Shut, Close, PumpEnd, WriterEnd
    <2>. QED
      BY <2>1 DEF Limited
  <1>9. CASE Vanish(d)
    <2>1. (\A c \in Conns : c # d => down'[c] = down[c]) /\ down'[d] = <<>>
          /\ UNCHANGED <<up, pending, outbox, stream, inbox>>
      BY <1>1, <1>9 DEF Vanish
    <2>2. Len(down'[d]) <= Down
      BY <1>0, <1>4, <2>1
    <2>. QED
      BY <1>2, <2>1, <2>2 DEF Limited
  <1>10. CASE Take(d)
    <2>1. up'[d] = Tail(up[d]) /\ up[d] # <<>>
          /\ (\A c \in Conns : c # d => up'[c] = up[c]) /\ UNCHANGED <<down, pending, outbox, stream, inbox>>
      BY <1>1, <1>10 DEF Take
    <2>2. Len(up'[d]) <= Up
      <3>1. Len(up'[d]) = Len(up[d]) - 1
        BY <1>1, <1>3, <2>1
      <3>. QED
        BY <1>0, <1>2, <3>1
    <2>. QED
      BY <1>2, <2>1, <2>2 DEF Limited
  <1>11. CASE Reply(d)
    <2>1. \A c \in Conns : Len(outbox'[c]) <= Outbox
      <3>1. Frame("session", hand[d].n, hand[d].kind, 0) \in Frames
        BY LineTypes DEF Frame, Frames, Hands
      <3>. QED
        BY <1>5, <1>11, <3>1 DEF Reply
    <2>2. UNCHANGED <<up, down, pending, inbox>>
      BY <1>11 DEF Reply
    <2>3. \A c \in Conns : stream'[c] = stream[c] \/ (stream'[c].sent = 0 /\ stream'[c].at = "loop")
      BY <1>1, <1>11 DEF Reply
    <2>4. \A c \in Conns : Due2(c)
      BY <1>0, <1>2, <1>4, <2>3
    <2>. QED
      BY <1>2, <2>1, <2>2, <2>4 DEF Limited
  <1>12. CASE Hand(d)
    <2>1. UNCHANGED <<up, down, outbox, stream, inbox>>
      BY <1>12 DEF Hand
    <2>2. \A c \in Conns : c # d => pending'[c] = pending[c]
      BY <1>1, <1>12 DEF Hand, Await
    <2>3. Len(pending'[d]) <= Pending
      <3>1. CASE pending' = pending
        BY <1>2, <3>1
      <3>2. CASE Len(pending[d]) < Pending /\ pending' = [pending EXCEPT ![d] = Append(@, hand[d].n)]
        <4>1. pending'[d] = Append(pending[d], hand[d].n) /\ hand[d].n \in Nat
          BY <1>1, <3>2, LineTypes
        <4>2. Len(pending'[d]) = Len(pending[d]) + 1
          BY <1>1, <1>3, <4>1
        <4>. QED
          BY <1>0, <1>2, <3>2, <4>2
      <3>. QED
        BY <1>12, <3>1, <3>2 DEF Hand, Await
    <2>. QED
      BY <1>2, <2>1, <2>2, <2>3 DEF Limited
  <1>13. CASE PumpTake(d)
    <2>1. UNCHANGED <<up, down, outbox, stream, inbox>>
      BY <1>13 DEF PumpTake
    <2>2. \A c \in Conns : c # d => pending'[c] = pending[c]
      BY <1>1, <1>13 DEF PumpTake
    <2>3. Len(pending'[d]) <= Pending
      <3>1. pending'[d] = Tail(pending[d]) /\ pending[d] # <<>>
        <4>1. pending[d] \in Seq(Nat) /\ pending[d] # <<>>
          BY <1>1, <1>13 DEF PumpTake
        <4>2. pending'[d] = RemoveAt(pending[d], Oldest(pending[d]))
          BY <1>1, <1>13 DEF PumpTake
        <4>. QED
          BY <4>1, <4>2, OldestFirst
      <3>2. Len(pending'[d]) = Len(pending[d]) - 1
        BY <1>1, <1>3, <3>1
      <3>. QED
        BY <1>0, <1>2, <3>2
    <2>. QED
      BY <1>2, <2>1, <2>2, <2>3 DEF Limited
  <1>14. CASE PumpSend(d)
    <2>1. \A c \in Conns : Len(outbox'[c]) <= Outbox
      <3>. DEFINE n == pump[d].n
      <3>1. answer[d][n] \in Replies /\ n \in Nat
        BY <1>14, LineTypes DEF PumpSend, Typed, ActorTypes, AnswerTypes
      <3>2. Frame("pump", n, answer[d][n].kind, answer[d][n].at) \in Frames
        BY <3>1 DEF Frame, Frames, Replies, Kinds
      <3>. QED
        BY <1>5, <1>14, <3>2 DEF PumpSend
    <2>2. UNCHANGED <<up, down, stream, inbox>>
      BY <1>14 DEF PumpSend
    <2>3. \A c \in Conns : pending'[c] = pending[c] \/ pending'[c] = <<>>
      BY <1>1, <1>14 DEF PumpSend
    <2>4. \A c \in Conns : Len(pending'[c]) <= Pending
      BY <1>0, <1>2, <1>4, <2>3
    <2>. QED
      BY <1>2, <2>1, <2>2, <2>4 DEF Limited
  <1>15. CASE Write(d)
    <2>1. UNCHANGED <<up, pending, stream, inbox>> /\ outbox[d] # <<>>
      BY <1>15 DEF Write
    <2>2. \A c \in Conns : c # d => down'[c] = down[c] /\ outbox'[c] = outbox[c]
      BY <1>1, <1>15 DEF Write
    <2>3. Len(down'[d]) <= Down /\ Len(outbox'[d]) <= Outbox
      <3>1. CASE /\ Len(down[d]) < Down /\ down' = [down EXCEPT ![d] = Append(@, Head(outbox[d]))]
                 /\ outbox' = [outbox EXCEPT ![d] = Tail(@)]
        <4>1. Head(outbox[d]) \in Frames /\ outbox[d] \in Seq(Frames) /\ down[d] \in Seq(Frames)
          <5>1. outbox[d] \in Seq(Frames) /\ down[d] \in Seq(Frames)
            BY <1>1
          <5>. QED
            BY <2>1, <5>1
        <4>2. down'[d] = Append(down[d], Head(outbox[d])) /\ outbox'[d] = Tail(outbox[d])
          BY <1>1, <3>1
        <4>3. Len(down'[d]) = Len(down[d]) + 1 /\ Len(outbox'[d]) = Len(outbox[d]) - 1
          BY <1>3, <2>1, <4>1, <4>2
        <4>. QED
          BY <1>0, <1>2, <3>1, <4>3
      <3>2. CASE outbox' = [outbox EXCEPT ![d] = <<>>] /\ UNCHANGED down
        <4>1. outbox'[d] = <<>>
          BY <1>1, <3>2
        <4>. QED
          BY <1>0, <1>2, <1>4, <3>2, <4>1
      <3>. QED
        BY <1>15, <3>1, <3>2 DEF Write
    <2>. QED
      BY <1>2, <2>1, <2>2, <2>3 DEF Limited
  \* The inboxes.
  <1>16. ASSUME NEW l \in Logs, NEW m \in Commands, Len(inbox[l]) < Inbox,
                inbox' = [inbox EXCEPT ![l] = Append(@, m)]
         PROVE  \A k \in Logs : Len(inbox'[k]) <= Inbox
    <2>1. inbox[l] \in Seq(Commands) /\ inbox'[l] = Append(inbox[l], m)
          /\ \A k \in Logs : k # l => inbox'[k] = inbox[k]
      BY <1>16 DEF Typed, ActorTypes
    <2>2. Len(inbox'[l]) = Len(inbox[l]) + 1 /\ Len(inbox[l]) \in Nat
      BY <1>3, <2>1
    <2>3. Len(inbox'[l]) <= Inbox
      BY <1>0, <1>16, <2>2
    <2>. QED
      BY <2>1, <2>3 DEF Limited
  <1>17. \A k \in Logs : Len(inbox'[k]) <= Inbox
    <2>1. \/ UNCHANGED inbox
          \/ \E l \in Logs, m \in Commands : Len(inbox[l]) < Inbox /\ inbox' = [inbox EXCEPT ![l] = Append(@, m)]
      <3>1. \/ UNCHANGED inbox
            \/ \E l \in Logs :
                  /\ <<d, hand[d].n>> \in Commands /\ Len(inbox[l]) < Inbox
                  /\ inbox' = [inbox EXCEPT ![l] = Append(@, <<d, hand[d].n>>)]
            \/ \E l \in Logs :
                  /\ <<d, Idle>> \in Commands /\ Len(inbox[l]) < Inbox
                  /\ inbox' = [inbox EXCEPT ![l] = Append(@, <<d, Idle>>)]
        BY OwnCommands DEF Asking
      <3>. QED
        BY <3>1
    <2>. QED
      BY <1>16, <2>1 DEF Limited
  <1>18. CASE Command(d)
    <2>1. UNCHANGED <<up, down, pending, outbox, stream>>
      BY <1>18 DEF Command
    <2>. QED
      BY <1>2, <1>17, <2>1 DEF Limited
  \* The stream.
  <1>19. CASE StreamTask(d)
    <2>0. stream[d] \in Streams /\ stream[d].sent \in Nat
      BY <1>1 DEF Streams
    <2>1. UNCHANGED <<up, down, pending>>
      BY <1>19 DEF StreamTask, StreamReads, StreamAsks, StreamPushes, StreamFails, StreamLeaves, StreamEnds
    <2>2. \A c \in Conns : Len(outbox'[c]) <= Outbox
      <3>1. /\ Frame("stream", 0, "record", stream[d].sent + 1) \in Frames
            /\ Frame("stream", 0, "error", 0) \in Frames
            /\ Frame("stream", 0, "end", stream[d].sent) \in Frames
        BY <2>0 DEF Frame, Frames, Kinds
      <3>2. CASE StreamPushes(d) \/ StreamFails(d) \/ StreamEnds(d)
        BY <1>5, <3>1, <3>2 DEF StreamPushes, StreamFails, StreamEnds
      <3>3. CASE StreamReads(d) \/ StreamAsks(d) \/ StreamLeaves(d)
        <4>1. outbox' = outbox
          BY <3>3 DEF StreamReads, StreamAsks, StreamLeaves
        <4>. QED
          BY <1>2, <4>1
      <3>. QED
        BY <1>19, <3>2, <3>3 DEF StreamTask
    <2>3. \A c \in Conns : c # d => stream'[c] = stream[c]
      BY <1>1, <1>19 DEF StreamTask, StreamReads, StreamAsks, StreamPushes, StreamFails, StreamLeaves,
                         StreamEnds, Moves
    <2>4. Due2(d)
      <3>1. ASSUME NEW at \in {"asked", "push", "fail", "last", "ended"}, Moves(d, at)
            PROVE  stream'[d].sent = stream[d].sent /\ stream'[d].at = at
        BY <1>1, <3>1 DEF Moves, Streams
      <3>2. CASE StreamReads(d) \/ StreamAsks(d)
        <4>1. stream[d].sent < Credit
          BY <3>2 DEF StreamReads, StreamAsks, Due
        <4>2. stream'[d].sent = stream[d].sent
          BY <3>1, <3>2 DEF StreamReads, StreamAsks
        <4>. QED
          BY <1>2, <4>1, <4>2
      <3>3. CASE StreamPushes(d)
        <4>1. stream[d].at = "push" /\ stream'[d].at \in {"loop", "last"} /\ stream'[d].sent = stream[d].sent + 1
          BY <1>1, <3>3 DEF StreamPushes, Streaming, Streams
        <4>2. stream[d].sent < Credit
          BY <1>2, <4>1
        <4>. QED
          BY <1>0, <2>0, <4>1, <4>2
      <3>4. CASE StreamFails(d) \/ StreamLeaves(d) \/ StreamEnds(d)
        <4>1. stream'[d].sent = stream[d].sent /\ stream'[d].at \in {"last", "ended"}
          BY <3>1, <3>4 DEF StreamFails, StreamLeaves, StreamEnds
        <4>. QED
          BY <1>2, <4>1
      <3>. QED
        BY <1>19, <3>2, <3>3, <3>4 DEF StreamTask
    <2>. QED
      BY <1>2, <1>17, <2>1, <2>2, <2>3, <2>4 DEF Limited
  <1>. QED
    BY <1>6, <1>7, <1>8, <1>9, <1>10, <1>11, <1>12, <1>13, <1>14, <1>15, <1>18, <1>19
       DEF Act, Dispatch, Pump, Writer

\* An actor takes from its inbox, and gives a stream one answer for one question.
LEMMA LimitedActor ==
    ASSUME Typed, Limited, NEW l \in Logs, Serve(l) \/ Strange(l) \/ ActorStops(l),
           \A c \in Conns : Asking(c), Strangers
    PROVE  Limited' /\ Strangers'
  <1>. USE DEF client, session, way
  <1>0. Inbox \in Nat
    BY PipelineAssumption
  <1>1. UNCHANGED <<up, down, pending, outbox>>
    BY DEF Serve, Strange, ActorStops
  <1>2. stream \in [Conns -> Streams]
    BY DEF Typed
  <1>3. \A c \in Conns :
           /\ stream'[c].sent = stream[c].sent
           /\ stream'[c].at \in {"asked", "push"} => stream[c].at \in {"asked", "push"}
    <2>1. CASE Serve(l)
      <3>. DEFINE m == Head(inbox[l])
      <3>1. 1 \in DOMAIN inbox[l] /\ m = inbox[l][1] /\ m \in Commands
        BY <2>1, InboxShrinks
      <3>2. CASE stream' = stream
        BY <3>2
      <3>3. CASE m[2] = Idle /\ stream' = [stream EXCEPT ![m[1]].at = "push"]
        <4>1. \A c \in Conns : m[1] = c => stream[c].at = "asked"
          <5>1. \A c \in Conns : m[1] = c => m = <<c, Idle>>
            BY <3>1, <3>3 DEF Commands
          <5>. QED
            BY <3>1, <5>1 DEF Asking
        <4>. HIDE DEF m
        <4>. QED
          BY <1>2, <3>3, <4>1 DEF Streams
      <3>. QED
        BY <2>1, <3>2, <3>3 DEF Serve, Asks
    <2>2. CASE Strange(l)
      BY <2>2 DEF Strange
    <2>3. CASE ActorStops(l)
      BY <1>2, <2>3 DEF ActorStops, Streams
    <2>. QED
      BY <2>1, <2>2, <2>3
  <1>4. ASSUME Strange(l)
        PROVE  (\A k \in Logs : Len(inbox'[k]) <= Inbox) /\ Strangers'
    <2>1. inbox[l] \in Seq(Commands) /\ inbox' = [inbox EXCEPT ![l] = Append(@, <<Stranger, 1>>)]
          /\ Len(inbox[l]) < Inbox /\ <<Stranger, 1>> \in Commands
      BY <1>4 DEF Strange, Typed, ActorTypes, Commands
    <2>2. /\ Len(inbox[l]) \in Nat /\ \A k \in Logs : k # l => inbox'[k] = inbox[k]
          /\ DOMAIN inbox'[l] = 1..(Len(inbox[l]) + 1) /\ DOMAIN inbox[l] = 1..Len(inbox[l])
          /\ inbox'[l][Len(inbox[l]) + 1] = <<Stranger, 1>>
          /\ \A i \in 1..Len(inbox[l]) : inbox'[l][i] = inbox[l][i]
          /\ \A i \in 1..(Len(inbox[l]) + 1) : i = Len(inbox[l]) + 1 \/ i \in 1..Len(inbox[l])
      BY <2>1, InboxGrows
    <2>3. Len(inbox'[l]) = Len(inbox[l]) + 1
      <3>1. inbox'[l] = Append(inbox[l], <<Stranger, 1>>)
        BY <2>1 DEF Typed, ActorTypes
      <3>. QED
        BY <2>1, <3>1
    <2>4. Len(inbox'[l]) <= Inbox
      BY <1>0, <2>1, <2>2, <2>3
    <2>5. \A k \in Logs : Len(inbox'[k]) <= Inbox
      BY <2>2, <2>4 DEF Limited
    <2>6. ASSUME NEW k \in Logs, NEW i \in DOMAIN inbox'[k], inbox'[k][i][1] = Stranger
          PROVE  inbox'[k][i][2] # Idle
      <3>1. CASE k # l
        BY <2>2, <2>6, <3>1 DEF Strangers
      <3>2. CASE k = l
        BY <2>2, <2>6, <3>2 DEF Strangers, Idle
      <3>. QED
        BY <3>1, <3>2
    <2>. QED
      BY <2>5, <2>6 DEF Strangers
  <1>5. ASSUME Serve(l)
        PROVE  (\A k \in Logs : Len(inbox'[k]) <= Inbox) /\ Strangers'
    <2>1. /\ \A k \in Logs : \A j \in DOMAIN inbox'[k] :
                Before(l, k, j) \in DOMAIN inbox[k] /\ inbox'[k][j] = inbox[k][Before(l, k, j)]
          /\ \A k \in Logs : Len(inbox'[k]) <= Len(inbox[k])
      BY <1>5, InboxShrinks
    <2>2. \A k \in Logs : Len(inbox[k]) \in Nat /\ Len(inbox[k]) <= Inbox
      BY DEF Typed, ActorTypes, Limited
    <2>3. \A k \in Logs : inbox'[k] \in Seq(Commands)
      <3>1. inbox' = [inbox EXCEPT ![l] = Tail(@)] /\ inbox \in [Logs -> Seq(Commands)] /\ inbox[l] # <<>>
        BY <1>5 DEF Serve, Typed, ActorTypes
      <3>2. inbox[l] \in Seq(Commands)
        BY <3>1
      <3>3. Tail(inbox[l]) \in Seq(Commands)
        BY <3>1, <3>2
      <3>. QED
        BY <3>1, <3>3
    <2>4. \A k \in Logs : Len(inbox'[k]) \in Nat
      BY <2>3
    <2>5. \A k \in Logs : Len(inbox'[k]) <= Inbox
      BY <1>0, <2>1, <2>2, <2>4
    <2>. QED
      BY <2>1, <2>5 DEF Strangers
  <1>6. ASSUME ActorStops(l)
        PROVE  (\A k \in Logs : Len(inbox'[k]) <= Inbox) /\ Strangers'
    <2>1. inbox'[l] = <<>> /\ \A k \in Logs : k # l => inbox'[k] = inbox[k]
      BY <1>6 DEF ActorStops, Typed, ActorTypes
    <2>2. Len(inbox'[l]) <= Inbox /\ \A i : i \notin DOMAIN inbox'[l]
      BY <1>0, <2>1
    <2>. QED
      BY <2>1, <2>2 DEF Limited, Strangers
  <1>. QED
    BY <1>1, <1>3, <1>4, <1>5, <1>6 DEF Limited

-----------------------------------------------------------------------------
(* The theorem *)

\* It holds before anything is sent.
LEMMA InvInit == Init => Inv
  <1>. SUFFICES ASSUME Init
                PROVE  Inv
    OBVIOUS
  <1>1. Typed
    BY TypedInit
  <1>2. {Up, Down, Inbox, Pending, Outbox, Credit} \subseteq Nat
    BY PipelineAssumption
  <1>3. Len(<<>>) = 0 /\ (\A i : i \notin DOMAIN <<>>) /\ <<>> \o <<>> \o <<>> = <<>>
    OBVIOUS
  <1>4. \A l \in Logs : inbox[l] = <<>> /\ log[l] = <<>>
    BY DEF Init
  <1>5. ASSUME NEW c \in Conns
        PROVE  /\ up[c] = <<>> /\ down[c] = <<>> /\ pending[c] = <<>> /\ outbox[c] = <<>> /\ heard[c] = <<>>
               /\ stream[c] = NoStream /\ hand[c] = Reading /\ next[c] = 1 /\ pump[c] = [on |-> TRUE, n |-> Idle]
               /\ \A n \in Requests(c) : answer[c][n] = Unanswered
    BY DEF Init
  <1>6. Limited /\ Strangers
    BY <1>2, <1>3, <1>4, <1>5 DEF Limited, Strangers, NoStream
  <1>7. ASSUME NEW c \in Conns
        PROVE  Exchange(c) /\ Effects(c) /\ Asking(c)
    <2>1. Sent(c) = <<>>
      BY <1>3, <1>5 DEF Sent
    <2>2. ~Busy(c) /\ Taken(c) = 1 /\ Passed(c) = 1 /\ Issued(c) = 1
      BY <1>3, <1>5 DEF Busy, Taken, Passed, Issued, Reading
    <2>3. Len(program[c]) \in Nat
      BY <1>1, LineTypes
    <2>4. LinedUp(c)
      BY <1>3, <1>5, <2>2, <2>3 DEF LinedUp, Reading
    <2>5. Ordered(c) /\ Complete(c)
      BY <1>3, <1>5, <2>1, <2>2 DEF Ordered, Complete, Idle
    <2>6. Queued(c) /\ Recorded(c) /\ Decided(c)
      BY <1>3, <1>4, <1>5 DEF Queued, Recorded, Decided
    <2>7. Told(c) /\ Asking(c)
      BY <1>3, <1>4, <1>5, <2>1 DEF Told, Asking, NoStream
    <2>. QED
      BY <2>4, <2>5, <2>6, <2>7 DEF Exchange, Effects
  <1>. QED
    BY <1>1, <1>6, <1>7 DEF Inv

\* What the session and the pump have in hand are requests of the client.
LEMMA InHand ==
    ASSUME Typed, NEW c \in Conns, Exchange(c)
    PROVE  /\ LinedUp(c)
           /\ Busy(c) => hand[c].n \in Requests(c)
           /\ hand[c].at = "command" => hand[c].n \in Requests(c)
           /\ pump[c].n # Idle => pump[c].n \in Requests(c)
  <1>1. /\ next[c] \in Nat /\ Len(up[c]) \in Nat /\ Taken(c) \in Int /\ Len(program[c]) \in Nat
        /\ Requests(c) = 1..Len(program[c]) /\ pump[c].n \in Nat
    BY LineTypes
  <1>2. /\ next[c] <= Len(program[c]) + 1
        /\ Busy(c) => hand[c].n = Taken(c) - 1 /\ Taken(c) > 1
        /\ pump[c].n < Passed(c)
    BY DEF Exchange, LinedUp, Ordered
  <1>3. Taken(c) - 1 <= Len(program[c]) /\ Passed(c) <= Taken(c)
    BY <1>1, <1>2 DEF Taken, Passed
  <1>4. Busy(c) => hand[c].n \in Requests(c)
    BY <1>1, <1>2, <1>3
  <1>5. pump[c].n # Idle => pump[c].n \in Requests(c)
    <2>1. Passed(c) \in Int
      BY LineTypes
    <2>. QED
      BY <1>1, <1>2, <1>3, <2>1 DEF Idle
  <1>. QED
    BY <1>4, <1>5 DEF Exchange, Busy

\* Every step keeps it: a step of a connection,
LEMMA InvAct ==
    ASSUME Inv, NEW d \in Conns, Act(d)
    PROVE  Inv'
  <1>1. Typed /\ Limited /\ Strangers /\ \A c \in Conns : Exchange(c) /\ Effects(c) /\ Asking(c)
    BY DEF Inv
  <1>2. /\ LinedUp(d) /\ (Busy(d) => hand[d].n \in Requests(d))
        /\ hand[d].at = "command" => hand[d].n \in Requests(d)
        /\ pump[d].n # Idle => pump[d].n \in Requests(d)
        /\ stream[d].at # "none" => stream[d].log \in Logs
    BY <1>1, InHand DEF Asking
  <1>3. Typed'
    BY <1>1, <1>2, TypedClient, TypedServer DEF Act
  <1>4. program' = program /\ UNCHANGED <<log, answer>>
    BY <1>1, <1>2, OwnCommands
  <1>5. \A c \in Conns : Moved(c)
    BY <1>1, <1>2, OwnMoves, OthersStay DEF Moved
  <1>6. \A c \in Conns : Exchange(c)'
    BY <1>1, <1>3, <1>4, <1>5, ExchangeNext
  <1>7. \A c \in Conns : Effects(c)'
    BY <1>1, <1>2, <1>3, <1>5, EffectsAct
  <1>8. \A c \in Conns : Asking(c)'
    BY <1>1, <1>2, <1>3, <1>5, AskingAct DEF Exchange
  <1>9. Limited'
    BY <1>1, <1>2, LimitedAct
  <1>10. Strangers'
    <2>1. \/ UNCHANGED inbox
          \/ \E l \in Logs :
                /\ <<d, hand[d].n>> \in Commands
                /\ inbox' = [inbox EXCEPT ![l] = Append(@, <<d, hand[d].n>>)]
          \/ \E l \in Logs :
                /\ <<d, Idle>> \in Commands
                /\ inbox' = [inbox EXCEPT ![l] = Append(@, <<d, Idle>>)]
      BY <1>1, <1>2, OwnCommands
    <2>2. ASSUME NEW l \in Logs, NEW m \in Commands, m[1] # Stranger,
                 inbox' = [inbox EXCEPT ![l] = Append(@, m)],
                 NEW k \in Logs, NEW i \in DOMAIN inbox'[k], inbox'[k][i][1] = Stranger
          PROVE  inbox'[k][i][2] # Idle
      <3>1. /\ \A j \in Logs : j # l => inbox'[j] = inbox[j]
            /\ \A j \in 1..Len(inbox[l]) : inbox'[l][j] = inbox[l][j]
            /\ DOMAIN inbox[l] = 1..Len(inbox[l]) /\ DOMAIN inbox'[l] = 1..(Len(inbox[l]) + 1)
            /\ inbox'[l][Len(inbox[l]) + 1] = m
            /\ \A j \in 1..(Len(inbox[l]) + 1) : j = Len(inbox[l]) + 1 \/ j \in 1..Len(inbox[l])
        BY <1>1, <2>2, InboxGrows
      <3>2. k # l \/ i = Len(inbox[l]) + 1 \/ i \in 1..Len(inbox[l])
        BY <3>1
      <3>. QED
        BY <1>1, <2>2, <3>1, <3>2 DEF Strangers
    <2>3. d # Stranger
      BY PipelineAssumption
    <2>4. CASE UNCHANGED inbox
      BY <1>1, <2>4 DEF Strangers
    <2>5. CASE \E l \in Logs, n \in Nat :
                  <<d, n>> \in Commands /\ inbox' = [inbox EXCEPT ![l] = Append(@, <<d, n>>)]
      <3>. PICK l \in Logs, n \in Nat :
                  <<d, n>> \in Commands /\ inbox' = [inbox EXCEPT ![l] = Append(@, <<d, n>>)]
        BY <2>5
      <3>1. <<d, n>>[1] # Stranger
        BY <2>3
      <3>. QED
        BY <2>2, <3>1 DEF Strangers
    <2>6. hand[d].n \in Nat /\ Idle \in Nat
      BY <1>1, LineTypes DEF Idle
    <2>. QED
      BY <2>1, <2>4, <2>5, <2>6
  <1>. QED
    BY <1>3, <1>6, <1>7, <1>8, <1>9, <1>10 DEF Inv

\* a step of an actor,
LEMMA InvActor ==
    ASSUME Inv, NEW l \in Logs, Serve(l) \/ Strange(l) \/ ActorStops(l)
    PROVE  Inv'
  <1>1. Typed /\ Limited /\ Strangers /\ \A c \in Conns : Exchange(c) /\ Effects(c) /\ Asking(c)
    BY DEF Inv
  <1>2. Typed'
    <2>1. ASSUME NEW c \in Conns, NEW n \in Nat, NEW i \in DOMAIN inbox[l], inbox[l][i] = <<c, n>>, n # Idle
          PROVE  n \in Requests(c)
      <3>1. Of(inbox[l][i], c) /\ inbox[l][i][2] = n
        BY <2>1 DEF Of
      <3>. QED
        BY <1>1, <3>1 DEF Effects, Queued
    <2>. QED
      BY <1>1, <2>1, TypedActor
  <1>3. program' = program
    BY DEF Serve, Strange, ActorStops, client
  <1>4. \A c \in Conns : Moved(c)
    BY ActorStays DEF Moved
  <1>5. \A c \in Conns : Exchange(c)'
    BY <1>1, <1>2, <1>3, <1>4, ExchangeNext
  <1>6. \A c \in Conns : Effects(c)'
    BY <1>1, <1>2, <1>4, EffectsActor
  <1>7. \A c \in Conns : Asking(c)'
    BY <1>1, <1>2, AskingActor DEF Exchange
  <1>8. Limited' /\ Strangers'
    BY <1>1, LimitedActor
  <1>. QED
    BY <1>2, <1>5, <1>6, <1>7, <1>8 DEF Inv

\* or nothing happens.
LEMMA InvNext == Inv /\ [Next]_vars => Inv'
  <1>1. ASSUME Inv, Next
        PROVE  Inv'
    <2>1. (\E c \in Conns : Act(c)) \/ (\E l \in Logs : Serve(l) \/ Strange(l) \/ ActorStops(l))
      BY <1>1 DEF Next, Act
    <2>. QED
      BY <1>1, <2>1, InvAct, InvActor
  <1>2. ASSUME Inv, UNCHANGED vars
        PROVE  Inv'
    <2>. USE <1>2 DEF vars, client, session, way, actor
    <2>1. Typed' /\ Limited' /\ Strangers'
      BY DEF Inv, Typed, ClientTypes, SessionTypes, WayTypes, ActorTypes, AnswerTypes, Limited, Strangers, Requests
    <2>2. \A c \in Conns : Sent(c)' = Sent(c) /\ Requests(c)' = Requests(c) /\ Passed(c)' = Passed(c)
                           /\ Issued(c)' = Issued(c) /\ Taken(c)' = Taken(c) /\ (Busy(c)' <=> Busy(c))
                           /\ \A n : LogOf(c, n)' = LogOf(c, n) /\ Op(c, n)' = Op(c, n)
      BY DEF Sent, Requests, Passed, Issued, Taken, Busy, LogOf, Op
    <2>3. ASSUME NEW c \in Conns
          PROVE  Exchange(c)' /\ Effects(c)' /\ Asking(c)'
      <3>1. LinedUp(c)' /\ Complete(c)'
        BY <2>2, <2>3 DEF Inv, Exchange, LinedUp, Complete, Answers
      <3>2. Ordered(c)'
        BY <2>2, <2>3 DEF Inv, Exchange, Ordered, Answers, ByPump
      <3>3. Queued(c)' /\ Recorded(c)'
        BY <2>2, <2>3 DEF Inv, Effects, Queued, Recorded, Of
      <3>4. Decided(c)' /\ Told(c)'
        BY <2>2, <2>3 DEF Inv, Effects, Decided, Told, Of, ByPump
      <3>5. Asking(c)'
        BY <2>2, <2>3 DEF Inv, Asking
      <3>. QED
        BY <3>1, <3>2, <3>3, <3>4, <3>5 DEF Exchange, Effects
    <2>. QED
      BY <2>1, <2>3 DEF Inv
  <1>. QED
    BY <1>1, <1>2

\* It says all that was promised: the limits of the queues, one answer to each request, the
\* pump's replies in order, and effects in the order of sending.
LEMMA InvSuffices == Inv => OrderedExchange
  <1>. SUFFICES ASSUME Inv
                PROVE  OrderedExchange
    OBVIOUS
  <1>1. Typed /\ Limited /\ \A c \in Conns : Exchange(c) /\ Effects(c)
    BY DEF Inv
  <1>2. TypeOK
    BY <1>1 DEF TypeOK, Typed, ClientTypes, SessionTypes, Hands, Streams, Limited, Exchange, LinedUp
  <1>3. AnsweredOnce
    BY <1>1, InOnePlace DEF AnsweredOnce
  <1>4. RepliesInOrder
    BY <1>1 DEF RepliesInOrder, Exchange, Ordered
  <1>5. TakesEffectInOrder
    <2>1. ASSUME NEW l \in Logs, NEW i \in DOMAIN log[l], NEW j \in DOMAIN log[l], i < j,
                 log[l][i][1] = log[l][j][1], log[l][i][1] # Stranger
          PROVE  log[l][i][2] < log[l][j][2]
      <3>1. log[l][i] \in Commands
        BY <1>1 DEF Typed, ActorTypes
      <3>2. log[l][i][1] \in Conns
        BY <2>1, <3>1 DEF Commands
      <3>. QED
        BY <1>1, <2>1, <3>2 DEF Effects, Recorded
    <2>2. ASSUME NEW c \in Conns, NEW k \in DOMAIN Sent(c), ByPump(c, k)
          PROVE  LET f == Sent(c)[k]  l == LogOf(c, f.n) IN
                 /\ f.kind = "ack" => f.at \in DOMAIN log[l] /\ log[l][f.at] = <<c, f.n>>
                 /\ f.kind = "view" =>
                       \A i \in DOMAIN log[l] : log[l][i][1] = c /\ log[l][i][2] < f.n => i <= f.at
      <3>. DEFINE f == Sent(c)[k]
      <3>1. /\ f.n \in Requests(c) /\ answer[c][f.n] # Unanswered
            /\ answer[c][f.n] = [kind |-> f.kind, at |-> f.at]
        BY <1>1, <2>2 DEF Effects, Told
      <3>. HIDE DEF f
      <3>0. answer[c][f.n].kind = f.kind /\ answer[c][f.n].at = f.at
        BY <3>1
      <3>2. /\ f.kind = "ack" => f.at \in DOMAIN log[LogOf(c, f.n)] /\ log[LogOf(c, f.n)][f.at] = <<c, f.n>>
            /\ f.kind = "view" =>
                  \A i \in DOMAIN log[LogOf(c, f.n)] :
                     log[LogOf(c, f.n)][i][1] = c /\ log[LogOf(c, f.n)][i][2] < f.n => i <= f.at
        BY <1>1, <3>0, <3>1 DEF Effects, Decided
      <3>. QED
        BY <3>2 DEF f
    <2>. QED
      BY <2>1, <2>2 DEF TakesEffectInOrder
  <1>. QED
    BY <1>2, <1>3, <1>4, <1>5 DEF OrderedExchange

\* session.rs:227-231 and the queues behind it: whatever the number of connections, of logs
\* and of places in the queues, no request is answered twice or lost between the
\* tasks, replies of actors come in the order of the requests, and requests to
\* a log take effect in the order they were sent.
THEOREM ExchangeHolds == Spec => []OrderedExchange
  <1>1. Spec => []Inv
    BY InvInit, InvNext, PTL DEF Spec
  <1>. QED
    BY <1>1, InvSuffices, PTL
=============================================================================
