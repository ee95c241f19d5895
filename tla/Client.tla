------------------------------- MODULE Client -------------------------------
(***************************************************************************)
(* The client library: the hub's calls and their retries (hub.rs), the     *)
(* pool and its supervisors (pool.rs), the multiplexer of one connection   *)
(* (conn.rs) and the consumer's half of a subscription (sub.rs).           *)
(*                                                                         *)
(* Tasks share bounded channels.  A caller sends commands to the task of a *)
(* connection; that task keeps the waiters, writes requests and delivers   *)
(* frames; a supervisor replaces a connection that died.  The server is    *)
(* what this code sees of it: it answers, refuses or is cut off, and what  *)
(* was written before the cut may still be carried out.                    *)
(*                                                                         *)
(* The id of an exchange is the caller and the number of its attempt: the  *)
(* counter of the hub gives no number twice.                               *)
(***************************************************************************)
EXTENDS Integers, Sequences, SequencesExt, FiniteSets

CONSTANTS Calls,      \* callers, each making one call
          Streams,    \* consumers, each opening one subscription
          Connections, \* the number of connections the pool keeps
          Retries,    \* resends a call is allowed (0 for Retry::Never)
          Queue,      \* depth of the command queue and of the wire
          Window,     \* credit of a subscription, and capacity of its sink
          Records,    \* bound: records the server has for each subscription
          MaxDials    \* bound: connections ever made

Attempts == Calls \X (1 .. Retries + 1)

ASSUME ClientAssumption ==
    /\ Attempts \cap Streams = {}
    /\ Connections \in Nat \ {0}
    /\ Retries \in Nat /\ Records \in Nat
    /\ Queue \in Nat \ {0} /\ Window \in Nat \ {0} /\ MaxDials \in Nat \ {0}

VARIABLES
    slot,      \* per slot: what its supervisor is doing, and its connection
    conn,      \* per connection: the task's state and the wire, and the
               \* exchanges whose Forget found no room (an auxiliary set)
    call,      \* per caller: the call and its current attempt
    sub,       \* per consumer: the subscription
    server,    \* per consumer: the server's side of it
    executed,  \* the attempts the server carried out
    closed     \* the hub was closed

vars == <<slot, conn, call, sub, server, executed, closed>>

Slots == 1 .. Connections
Conns == 1 .. MaxDials
None == 0
Id(k) == <<k, call[k].tries>>

(* Commands, requests and frames are tagged with the id of the exchange.   *)
Command(kind, id, n) == [kind |-> kind, id |-> id, n |-> n]
Final == {"End", "Error"}

Connection(state, alive, sent) ==
    [state |-> state, alive |-> alive, cmds |-> << >>, waiters |-> {},
     pending |-> << >>, sent |-> sent, inbound |-> << >>, lost |-> {}]
Unused == Connection("unused", FALSE, << >>)

Init ==
    /\ slot = [s \in Slots |-> [phase |-> "down", published |-> None]]
    /\ conn = [c \in Conns |-> Unused]
    /\ call = [k \in Calls |-> [phase |-> "acquiring", left |-> Retries, tries |-> 0,
                                at |-> None, reply |-> "none", result |-> "none"]]
    /\ sub = [x \in Streams |-> [phase |-> "idle", at |-> None, sink |-> << >>,
                                 drained |-> 0, pending |-> 0, overrun |-> FALSE,
                                 lost |-> FALSE]]
    /\ server = [x \in Streams |-> [phase |-> "none", credit |-> 0,
                                    left |-> Records]]
    /\ executed = {}
    /\ closed = FALSE

-----------------------------------------------------------------------------
(* Supervisors: dial, greet, publish, serve, and after a death dial again. *)

Dialled == {c \in Conns : conn[c].state # "unused"}

(* dial and handshake succeed: the handle is published and waiters wake.   *)
(* When they fail the slot stays empty for the length of a backoff, which  *)
(* is the same as not dialling yet.                                        *)
Dial(s) ==
    /\ slot[s].phase = "down" /\ ~closed
    /\ Cardinality(Dialled) < MaxDials
    /\ LET c == Cardinality(Dialled) + 1
       IN  /\ conn' = [conn EXCEPT ![c] = Connection("running", TRUE, << >>)]
           /\ slot' = [slot EXCEPT ![s] = [phase |-> "serving", published |-> c]]
    /\ UNCHANGED <<call, sub, server, executed, closed>>

(* The connection's task is over: the slot is empty until the next dial.   *)
Unpublish(s) ==
    /\ slot[s].phase = "serving"
    /\ conn[slot[s].published].state = "gone"
    /\ slot' = [slot EXCEPT ![s] = [phase |-> "down", published |-> None]]
    /\ UNCHANGED <<conn, call, sub, server, executed, closed>>

(* The hub is closed: nobody dials any more.                               *)
Close ==
    /\ ~closed
    /\ closed' = TRUE
    /\ UNCHANGED <<slot, conn, call, sub, server, executed>>

-----------------------------------------------------------------------------
(* The task of a connection.                                               *)

Running(c) == conn[c].state = "running"

(* A reserved permit lets the next request out.                            *)
Write(c) ==
    /\ Running(c) /\ conn[c].alive
    /\ conn[c].pending # << >> /\ Len(conn[c].sent) < Queue
    /\ conn' = [conn EXCEPT ![c].pending = Tail(@),
                            ![c].sent = Append(@, Head(conn[c].pending))]
    /\ UNCHANGED <<slot, call, sub, server, executed, closed>>

(* The next command, taken only while the backlog of requests is short.    *)
Accept(c) ==
    /\ Running(c)
    /\ conn[c].cmds # << >> /\ Len(conn[c].pending) < Queue
    /\ LET m == Head(conn[c].cmds)
       IN  conn' = [conn EXCEPT
             ![c].cmds = Tail(@),
             ![c].waiters = IF m.kind \in {"Call", "Stream"} THEN @ \cup {m.id}
                            ELSE IF m.kind = "Forget" THEN @ \ {m.id} ELSE @,
             ![c].pending = IF m.kind = "Forget" THEN @ ELSE Append(@, m)]
    /\ UNCHANGED <<slot, call, sub, server, executed, closed>>

(* The attempt this answer was sent for, if its caller still waits.        *)
Awaits(k, id) == call[k].phase = "waiting" /\ Id(k) = id
CallerOf(id) == id[1]
IsCall(id) == id \notin Streams

Answered(id, outcome) ==
    [call EXCEPT ![CallerOf(id)].reply =
       IF Awaits(CallerOf(id), id) THEN outcome ELSE @]

(* A frame for a call takes the waiter with it.  A frame for a stream goes *)
(* into the sink; a sink that is full or has no reader loses the stream.   *)
DeliverCall(c, f) ==
    /\ conn' = [conn EXCEPT ![c].inbound = Tail(@), ![c].waiters = @ \ {f.id}]
    /\ call' = IF f.id \in conn[c].waiters THEN Answered(f.id, f.kind) ELSE call
    /\ UNCHANGED sub

SinkTakes(x) == sub[x].phase = "open" /\ Len(sub[x].sink) < Window

DeliverStream(c, f) ==
    LET x == f.id
        heard == x \in conn[c].waiters
    IN  /\ conn' = [conn EXCEPT
              ![c].inbound = Tail(@),
              ![c].waiters = IF f.kind \in Final \/ ~SinkTakes(x) THEN @ \ {x} ELSE @]
        /\ sub' = IF ~heard THEN sub
                  ELSE IF SinkTakes(x) THEN [sub EXCEPT ![x].sink = Append(@, f)]
                  ELSE [sub EXCEPT ![x].overrun = @ \/ sub[x].phase = "open"]
        /\ UNCHANGED call

Deliver(c) ==
    /\ Running(c)
    /\ conn[c].inbound # << >>
    /\ LET f == Head(conn[c].inbound)
       IN  IF IsCall(f.id) THEN DeliverCall(c, f) ELSE DeliverStream(c, f)
    /\ UNCHANGED <<slot, server, executed, closed>>

(* Every waiter and every command still queued is failed or dropped, which *)
(* its caller cannot tell apart.                                           *)
Riding(c) == conn[c].waiters \cup
             {conn[c].cmds[i].id : i \in {j \in DOMAIN conn[c].cmds :
                                            conn[c].cmds[j].kind = "Call"}}

(* What was sent before may still be read at the other end.                *)
Gone(c) == [conn EXCEPT ![c] = Connection("gone", FALSE, conn[c].sent)]

TellCalls(ids) ==
    call' = [k \in Calls |->
               IF call[k].phase = "waiting" /\ Id(k) \in ids
                  /\ call[k].reply = "none"
               THEN [call[k] EXCEPT !.reply = "Disconnected"] ELSE call[k]]

(* MUTANT: only what was accepted is failed; queued commands are kept.     *)
RunEndsForgetful(c) ==
    /\ Running(c) /\ ~conn[c].alive
    /\ conn[c].inbound = << >> \/ conn[c].pending # << >>
    /\ conn' = Gone(c)
    /\ TellCalls(conn[c].waiters)
    /\ UNCHANGED <<slot, sub, server, executed, closed>>

(* The wire has died: the writer refuses a permit, or the frames that came *)
(* in before it died are used up.                                          *)
RunEnds(c) ==
    /\ Running(c) /\ ~conn[c].alive
    /\ conn[c].inbound = << >> \/ conn[c].pending # << >>
    /\ conn' = Gone(c)
    /\ TellCalls(Riding(c))
    /\ UNCHANGED <<slot, sub, server, executed, closed>>

(* The hub is closed: the supervisor drops the task where it stands, and   *)
(* with it the wire; the server then ends the streams of the connection.   *)
Over == [phase |-> "ended", credit |-> 0, left |-> 0]
Severed(c) == [x \in Streams |-> IF sub[x].at = c THEN Over ELSE server[x]]

Abandon(c) ==
    /\ Running(c) /\ closed
    /\ conn' = Gone(c)
    /\ TellCalls(Riding(c))
    /\ server' = Severed(c)
    /\ UNCHANGED <<slot, sub, executed, closed>>

-----------------------------------------------------------------------------
(* The wire and the server.                                                *)

(* The wire dies, with what was not read off it yet.                       *)
LoseWire(c, kept) ==
    /\ conn[c].alive
    /\ kept <= Len(conn[c].inbound)
    /\ conn' = [conn EXCEPT ![c].alive = FALSE,
                            ![c].inbound = SubSeq(@, 1, kept)]
    /\ server' = Severed(c)
    /\ UNCHANGED <<slot, call, sub, executed, closed>>

NextSent(c) == Head(conn[c].sent)
Frame(kind, id, n) == [kind |-> kind, id |-> id, n |-> n]
Room(c) == conn[c].alive /\ Len(conn[c].inbound) < Queue

(* A request is carried out, refused for now, or refused for good, and     *)
(* answered in its turn.  It may have been read before the wire died, and  *)
(* is then carried out unseen.                                             *)
ServeCall(c, outcome) ==
    /\ conn[c].sent # << >> /\ NextSent(c).kind = "Call"
    /\ Room(c) \/ ~conn[c].alive
    /\ executed' = IF outcome = "Ack" THEN executed \cup {NextSent(c).id} ELSE executed
    /\ conn' = [conn EXCEPT ![c].sent = Tail(@),
                            ![c].inbound = IF conn[c].alive
                                           THEN Append(@, Frame(outcome, NextSent(c).id, 0))
                                           ELSE @]
    /\ UNCHANGED <<slot, call, sub, server, closed>>

(* Behind a cut, the request of a stream that is over with its connection. *)
ReadUnseen(c) ==
    /\ ~conn[c].alive
    /\ conn[c].sent # << >> /\ NextSent(c).kind # "Call"
    /\ conn' = [conn EXCEPT ![c].sent = Tail(@)]
    /\ UNCHANGED <<slot, call, sub, server, executed, closed>>

(* Subscribe, Credit and Cancel, each with the frame that answers it.      *)
ServeStream(c) ==
    /\ Room(c)
    /\ conn[c].sent # << >> /\ NextSent(c).kind # "Call"
    /\ LET m == NextSent(c)
           x == m.id
           live == server[x].phase = "live"
           reply == IF m.kind = "Stream" \/ (m.kind = "Credit" /\ live) THEN "Ok"
                    ELSE IF live THEN "End" ELSE "Error"
       IN  /\ server' = [server EXCEPT ![x] =
                 IF m.kind = "Stream" THEN [@ EXCEPT !.phase = "live", !.credit = m.n]
                 ELSE IF m.kind = "Cancel" THEN Over
                 ELSE IF live THEN [@ EXCEPT !.credit = server[x].credit + m.n] ELSE @]
           /\ conn' = [conn EXCEPT ![c].sent = Tail(@),
                                   ![c].inbound = Append(@, Frame(reply, x, 0))]
    /\ UNCHANGED <<slot, call, sub, executed, closed>>

(* Records go out while there is credit for them.                          *)
Push(x, n) ==
    /\ server[x].phase = "live"
    /\ n <= server[x].credit /\ n <= server[x].left
    /\ Room(sub[x].at)
    /\ conn' = [conn EXCEPT ![sub[x].at].inbound = Append(@, Frame("Records", x, n))]
    /\ server' = [server EXCEPT ![x].credit = @ - n, ![x].left = @ - n]
    /\ UNCHANGED <<slot, call, sub, executed, closed>>

-----------------------------------------------------------------------------
(* Calls.                                                                  *)

Charged(c) ==
    Cardinality({k \in Calls : call[k].at = c /\ call[k].phase \in {"sending", "waiting"}})
      + Cardinality({x \in Streams : sub[x].at = c /\ sub[x].phase \in {"open", "ended"}})

(* The least loaded published connection, the first among equals.          *)
Live == {s \in Slots : slot[s].published # None}
LoadOf(s) == Charged(slot[s].published)
Pick == {s \in Live :
          \A t \in Live : LoadOf(s) < LoadOf(t) \/ (LoadOf(s) = LoadOf(t) /\ s <= t)}

Transient == {"Disconnected", "Connect", "Timeout", "Refused"}

(* An attempt is over: the call returns, or goes round once more.          *)
Finished(k, outcome) ==
    [call EXCEPT ![k] =
       IF outcome \in Transient /\ @.left > 0
       THEN [@ EXCEPT !.phase = "acquiring", !.left = call[k].left - 1, !.at = None,
                      !.reply = "none"]
       ELSE [@ EXCEPT !.phase = "done", !.result = outcome, !.at = None,
                      !.reply = "none"]]

Returns(k, outcome) ==
    /\ call' = Finished(k, outcome)
    /\ UNCHANGED <<slot, conn, sub, server, executed, closed>>

(* A handle, a charge against it and a fresh id.                           *)
Acquire(k) ==
    /\ call[k].phase = "acquiring"
    /\ \E s \in Pick : call' = [call EXCEPT ![k].phase = "sending", ![k].tries = @ + 1,
                                           ![k].at = slot[s].published]
    /\ UNCHANGED <<slot, conn, sub, server, executed, closed>>

(* No connection: the hub is closed, or none came up in time.              *)
AcquireFails(k) ==
    /\ call[k].phase = "acquiring" /\ Live = {}
    /\ \/ closed /\ Returns(k, "Closed")
       \/ ~closed /\ Returns(k, "Connect")

Send(k) ==
    /\ call[k].phase = "sending"
    /\ LET c == call[k].at
       IN  \/ ~Running(c) /\ Returns(k, "Disconnected")
           \/ /\ Running(c) /\ Len(conn[c].cmds) < Queue
              /\ conn' = [conn EXCEPT ![c].cmds = Append(@, Command("Call", Id(k), 0))]
              /\ call' = [call EXCEPT ![k].phase = "waiting"]
              /\ UNCHANGED <<slot, sub, server, executed, closed>>

SendTimeout(k) ==
    /\ call[k].phase = "sending"
    /\ Running(call[k].at) /\ Len(conn[call[k].at].cmds) = Queue
    /\ Returns(k, "Timeout")

Reply(k) ==
    /\ call[k].phase = "waiting" /\ call[k].reply # "none"
    /\ Returns(k, call[k].reply)

(* A command that does not wait for room: it is lost when there is none.   *)
TrySend(q, m) == IF Len(q) < Queue THEN Append(q, m) ELSE q

Forgotten(c, q, id) ==
    [c EXCEPT !.cmds = TrySend(q, Command("Forget", id, 0)),
              !.lost = IF Len(q) < Queue THEN @ ELSE @ \cup {id}]

(* MUTANT: nothing tells the connection that its caller has gone.          *)
ReplyTimeoutSilent(k) ==
    /\ call[k].phase = "waiting" /\ call[k].reply = "none"
    /\ call' = Finished(k, "Timeout")
    /\ UNCHANGED <<slot, conn, sub, server, executed, closed>>

ReplyTimeout(k) ==
    /\ call[k].phase = "waiting" /\ call[k].reply = "none"
    /\ LET c == call[k].at
       IN  Running(c) /\ conn' = [conn EXCEPT ![c] = Forgotten(conn[c], conn[c].cmds, Id(k))]
    /\ call' = Finished(k, "Timeout")
    /\ UNCHANGED <<slot, sub, server, executed, closed>>

-----------------------------------------------------------------------------
(* Subscriptions.                                                          *)

(* The command is queued on a handle just picked.  An open that finds the  *)
(* handle dead or runs out of time before there is room leaves nothing     *)
(* behind: it is the same as one not made yet.                             *)
OpenStream(x) ==
    /\ sub[x].phase = "idle"
    /\ \E s \in Pick :
       LET c == slot[s].published
       IN  /\ Running(c) /\ Len(conn[c].cmds) < Queue
           /\ conn' = [conn EXCEPT ![c].cmds = Append(@, Command("Stream", x, Window))]
           /\ sub' = [sub EXCEPT ![x].phase = "open", ![x].at = c]
    /\ UNCHANGED <<slot, call, server, executed, closed>>

(* maybe_grant: what was drained becomes a grant at half the window, and   *)
(* the grant goes out once the queue has room for it.                      *)
Threshold == IF Window \div 2 > 1 THEN Window \div 2 ELSE 1

Earned(s) == IF s.drained >= Threshold
             THEN [s EXCEPT !.pending = @ + s.drained, !.drained = 0] ELSE s

(* MUTANT: a grant that found no room is taken as sent.                    *)
GrantedAnyway(s, q) == IF s.pending > 0 THEN [s EXCEPT !.pending = 0] ELSE s

CanGrant(s, q) == s.pending > 0 /\ Running(s.at) /\ Len(q) < Queue
Granted(s, q) == IF CanGrant(s, q) THEN [s EXCEPT !.pending = 0] ELSE s
GrantSent(x, s, q) ==
    IF CanGrant(s, q) THEN Append(q, Command("Credit", x, s.pending)) ELSE q

(* A consumer that is through with its stream.                             *)
Quit(s, phase) == [s EXCEPT !.phase = phase, !.sink = << >>, !.drained = 0,
                            !.pending = 0]

(* One poll: grant what can be granted, take a frame, and if it holds      *)
(* records grant again.                                                    *)
Poll(x) ==
    /\ sub[x].phase = "open" /\ sub[x].sink # << >>
    /\ LET c  == sub[x].at
           f  == Head(sub[x].sink)
           s0 == Earned(sub[x])
           q0 == GrantSent(x, s0, conn[c].cmds)
           s1 == [Granted(s0, conn[c].cmds) EXCEPT !.sink = Tail(@)]
           s2 == Earned([s1 EXCEPT !.drained = @ + f.n])
       IN  /\ sub' = [sub EXCEPT ![x] = IF f.kind \in Final THEN Quit(s1, "ended")
                                         ELSE IF f.kind = "Records" THEN Granted(s2, q0)
                                         ELSE s1]
           /\ conn' = [conn EXCEPT ![c].cmds = IF f.kind = "Records"
                                               THEN GrantSent(x, s2, q0) ELSE q0]
    /\ UNCHANGED <<slot, call, server, executed, closed>>

(* MUTANT: the grant is only tried again with the next record.             *)
RegrantNever(x) ==
    /\ sub[x].phase = "open" /\ sub[x].sink # << >>
    /\ CanGrant(sub[x], conn[sub[x].at].cmds)
    /\ sub' = [sub EXCEPT ![x] = Granted(@, conn[sub[x].at].cmds)]
    /\ conn' = [conn EXCEPT ![sub[x].at].cmds = GrantSent(x, sub[x], @)]
    /\ UNCHANGED <<slot, call, server, executed, closed>>

(* A poll that finds no frame still sends a grant that found no room: the  *)
(* queue wakes the consumer when it has some.                              *)
Regrant(x) ==
    /\ sub[x].phase = "open" /\ sub[x].sink = << >>
    /\ CanGrant(sub[x], conn[sub[x].at].cmds)
    /\ sub' = [sub EXCEPT ![x] = Granted(@, conn[sub[x].at].cmds)]
    /\ conn' = [conn EXCEPT ![sub[x].at].cmds = GrantSent(x, sub[x], @)]
    /\ UNCHANGED <<slot, call, server, executed, closed>>

(* The sink is empty and nobody is left to fill it.                        *)
Unfilled(x) ==
    /\ sub[x].sink = << >>
    /\ x \notin Riding(sub[x].at)
    /\ ~\E i \in DOMAIN conn[sub[x].at].cmds :
          conn[sub[x].at].cmds[i].kind = "Stream" /\ conn[sub[x].at].cmds[i].id = x

PollEnds(x) ==
    /\ sub[x].phase = "open" /\ Unfilled(x)
    /\ sub' = [sub EXCEPT ![x] = Quit(@, "ended")]
    /\ UNCHANGED <<slot, conn, call, server, executed, closed>>

(* MUTANT: a dropped subscription is only forgotten here.                  *)
DropStreamQuietly(x) ==
    /\ sub[x].phase \in {"open", "ended"}
    /\ LET c == sub[x].at
       IN  conn' = IF Running(c)
                   THEN [conn EXCEPT ![c] = Forgotten(conn[c], conn[c].cmds, x)] ELSE conn
    /\ sub' = [sub EXCEPT ![x] = Quit(@, "dropped")]
    /\ UNCHANGED <<slot, call, server, executed, closed>>

(* Dropping a subscription that has not ended cancels it, if the queue has *)
(* room for that, and forgets it, if it still has.                         *)
DropStream(x) ==
    /\ sub[x].phase \in {"open", "ended"}
    /\ LET c == sub[x].at
           q0 == IF sub[x].phase = "ended" THEN conn[c].cmds
                 ELSE TrySend(conn[c].cmds, Command("Cancel", x, 0))
       IN  /\ conn' = IF Running(c)
                      THEN [conn EXCEPT ![c] = Forgotten(conn[c], q0, x)] ELSE conn
           /\ sub' = [sub EXCEPT ![x] =
                        [Quit(@, "dropped") EXCEPT
                           !.lost = /\ sub[x].phase = "open"
                                    /\ Len(conn[c].cmds) = Queue]]
    /\ UNCHANGED <<slot, call, server, executed, closed>>

-----------------------------------------------------------------------------
Outcomes == {"Ack", "Refused", "Fatal"}

Task(c) == Write(c) \/ Accept(c) \/ Deliver(c) \/ RunEnds(c) \/ Abandon(c)
Serve(c) == \/ \E o \in Outcomes : ServeCall(c, o)
            \/ ServeStream(c) \/ ReadUnseen(c)
Caller(k) == Acquire(k) \/ AcquireFails(k) \/ Send(k) \/ Reply(k)
Consume(x) == Poll(x) \/ Regrant(x) \/ PollEnds(x)

Next ==
    \/ \E s \in Slots : Dial(s) \/ Unpublish(s)
    \/ \E c \in Conns : Task(c) \/ Serve(c) \/ \E n \in 0 .. Queue : LoseWire(c, n)
    \/ \E k \in Calls : Caller(k) \/ SendTimeout(k) \/ ReplyTimeout(k)
    \/ \E x \in Streams : \/ Consume(x) \/ OpenStream(x)
                          \/ DropStream(x) \/ \E n \in 1 .. Window : Push(x, n)
    \/ Close

(* Tasks are scheduled and a server that is reached answers.  Deadlines of *)
(* queued and sent requests, losses, the close and drops are not promised. *)
Fairness ==
    /\ \A s \in Slots : WF_vars(Unpublish(s))
    /\ \A c \in Conns : /\ WF_vars(Task(c))
                        /\ WF_vars(conn[c].alive /\ Serve(c))
    /\ \A k \in Calls : WF_vars(Caller(k))
    /\ \A x \in Streams : WF_vars(Consume(x)) /\ WF_vars(Push(x, 1))

Spec == Init /\ [][Next]_vars /\ Fairness

-----------------------------------------------------------------------------
Messages == [kind : {"Call", "Stream", "Credit", "Cancel", "Forget"},
             id : Attempts \cup Streams, n : 0 .. Window]
Frames == [kind : Outcomes \cup {"Ok", "Records"} \cup Final,
           id : Attempts \cup Streams, n : 0 .. Window]

(* Queues never exceed their capacity and hold what belongs in them.       *)
TypeOK ==
    /\ slot \in [Slots -> [phase : {"down", "serving"},
                           published : {None} \cup Conns]]
    /\ \A c \in Conns :
         /\ conn[c].state \in {"unused", "running", "gone"}
         /\ conn[c].alive \in BOOLEAN
         /\ \A q \in {conn[c].cmds, conn[c].pending, conn[c].sent} :
              Len(q) <= Queue /\ \A i \in DOMAIN q : q[i] \in Messages
         /\ Len(conn[c].inbound) <= Queue
         /\ \A i \in DOMAIN conn[c].inbound : conn[c].inbound[i] \in Frames
         /\ conn[c].waiters \cup conn[c].lost \subseteq Attempts \cup Streams
    /\ call \in [Calls -> [phase : {"acquiring", "sending", "waiting", "done"},
                           left : 0 .. Retries, tries : 0 .. Retries + 1,
                           at : {None} \cup Conns,
                           reply : Outcomes \cup {"none", "Disconnected"},
                           result : Outcomes \cup Transient \cup {"none", "Closed"}]]
    /\ \A x \in Streams :
         /\ sub[x].phase \in {"idle", "open", "ended", "dropped"}
         /\ sub[x].at \in {None} \cup Conns
         /\ Len(sub[x].sink) <= Window
         /\ sub[x].drained \in 0 .. Window /\ sub[x].pending \in 0 .. Window
         /\ server[x].phase \in {"none", "live", "ended"}
         /\ server[x].credit \in 0 .. Window /\ server[x].left \in 0 .. Records
    /\ executed \subseteq Attempts
    /\ closed \in BOOLEAN

(* hub.rs, attempt and conn.rs, deliver: what a caller is told is about    *)
(* the attempt it last made.  An acknowledgement means that this attempt   *)
(* was carried out, a refusal that it was not, although answers to earlier *)
(* attempts may still arrive on the same connection.                       *)
AnswersAreOwn ==
    \A k \in Calls :
        LET told == IF call[k].phase = "done" THEN call[k].result ELSE call[k].reply
        IN  /\ told = "Ack" => Id(k) \in executed
            /\ told \in {"Refused", "Fatal"} => Id(k) \notin executed

(* hub.rs, next_id: no request is on its way under an id the server has    *)
(* already acted on, so an id names one attempt wherever it turns up.      *)
OnItsWay(c) == ToSet(conn[c].cmds) \cup ToSet(conn[c].pending) \cup ToSet(conn[c].sent)

IdsAreFresh ==
    \A c \in Conns : \A m \in OnItsWay(c) : m.kind = "Call" => m.id \notin executed

(* conn.rs:26, "Drop the waiter so the map cannot grow without bound": an  *)
(* exchange a connection still waits for has somebody waiting for it, or   *)
(* its Forget is queued behind it.  The code loses a Forget that finds the *)
(* queue full; those exchanges are set apart.                              *)
Wanted(id) == IF IsCall(id) THEN Awaits(CallerOf(id), id)
                            ELSE sub[id].phase \in {"open", "ended"}

WaitersAreWanted ==
    \A c \in Conns : Running(c) =>
        \A id \in conn[c].waiters :
            \/ Wanted(id)
            \/ id \in conn[c].lost
            \/ \E m \in ToSet(conn[c].cmds) : m.kind = "Forget" /\ m.id = id

(* Requests, attempts, waiters and answers stay matched across resends,    *)
(* expired deadlines and answers that come late.                           *)
ExchangesMatch == TypeOK /\ IdsAreFresh /\ AnswersAreOwn /\ WaitersAreWanted

(* sub.rs and the server's account of it: while a stream is up, the        *)
(* server's credit, the records under way, the records taken but not yet   *)
(* granted again and the grants under way make up the window.              *)
Units(S, q, x) == UNION {{i} \X (1 .. q[i].n) :
                           i \in {j \in DOMAIN q : q[j].kind \in S /\ q[j].id = x}}
SumOf(S, q, x) == Cardinality(Units(S, q, x))

CreditIsConserved ==
    \A x \in Streams :
        LET c == sub[x].at
            Granting(q) == SumOf({"Stream", "Credit"}, q, x)
        IN  /\ sub[x].phase = "open" /\ ~sub[x].overrun
            /\ conn[c].alive /\ server[x].phase # "ended"
            => server[x].credit + Granting(conn[c].cmds) + Granting(conn[c].pending)
                 + Granting(conn[c].sent) + SumOf({"Records"}, conn[c].inbound, x)
                 + SumOf({"Records"}, sub[x].sink, x)
                 + sub[x].drained + sub[x].pending = Window

(* conn.rs:194, "Full means the server pushed past the credit it was       *)
(* granted". Not so: this server never does, and a sink still fills up with *)
(* frames that cost no credit. See the README.                             *)
NeverOverrun == \A x \in Streams : sub[x].phase = "open" => ~sub[x].overrun

(* hub.rs:21, "If a connection dies, the calls riding it fail at once":    *)
(* every call returns, without the deadline of a queued or sent request    *)
(* ever having to expire, wherever the connection died under it.           *)
CallsReturn == \A k \in Calls : <>(call[k].phase = "done")

(* sub.rs, maybe_grant: while its consumer polls, a stream does not stall  *)
(* with records left at the server.                                        *)
Stalled(x, n) == /\ sub[x].phase = "open" /\ server[x].phase = "live"
                 /\ server[x].left = n

StreamsFlow ==
    \A x \in Streams : \A n \in 1 .. Records : Stalled(x, n) ~> ~Stalled(x, n)

(* sub.rs:26, "Dropping it cancels the subscription", and the server stops *)
(* pushing: for streams that were not overrun and whose Cancel found room. *)
DroppedIsCancelled ==
    \A x \in Streams :
        sub[x].phase = "dropped" /\ ~sub[x].lost /\ ~sub[x].overrun
          ~> server[x].phase # "live"
=====
