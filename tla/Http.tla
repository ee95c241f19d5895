-------------------------------- MODULE Http --------------------------------
(* The HTTP transport, both ends. On the client (lug-client/src/http.rs) a   *)
(* pump takes the hub's requests off the wire, runs every call as a POST of  *)
(* its own and every subscription as an SSE body, and steers a stream with   *)
(* calls that name the session its Welcome announced. On the server          *)
(* (lug-server/src/http.rs) a GET opens a session, enters it in a table and   *)
(* ties it to the life of the body.                                          *)
(*                                                                           *)
(* One wire is modelled from its dial to its end. The session of a stream is *)
(* named by the stream's id: mint never yields a name twice. Connecting,      *)
(* posting and replying are each one step of the network.                    *)
EXTENDS Naturals, Sequences, FiniteSets

CONSTANTS
    Ids,            \* the streams the hub opens
    Calls,          \* the grants, cancels and other calls it makes, as <<op, id>>
    Window,         \* the credit a subscription starts with
    Buffer,         \* what the wire's two channels hold
    Outbox,         \* what a session's outbox holds (limits.outbox)
    MaxRecords,     \* bound: records pushed per stream
    MaxBreaks,      \* bound: connections that break or are turned away
    NoId            \* the id of a call that is not about a stream

ASSUME HttpAssumption ==
    /\ IsFiniteSet(Ids) /\ NoId \notin Ids
    /\ Calls \subseteq ({"credit", "cancel"} \X Ids) \cup {<<"call", NoId>>}
    /\ Window \in Nat /\ Buffer \in Nat \ {0} /\ Outbox \in Nat \ {0}
    /\ MaxRecords \in Nat /\ MaxBreaks \in Nat

Kinds == {"welcome", "record", "end", "error", "ok", "reply"}

VARIABLES
    hub,        \* what the hub makes of each stream
    seen,       \* records of each stream the hub has taken
    dropped,    \* the hub let go of the wire
    out,        \* requests on their way to the pump
    inbound,    \* frames on their way to the hub
    pump,       \* the pump runs
    dead,       \* the watch that ends the wire
    sessions,   \* the streams whose Welcome the client has read
    task,       \* the reader of each stream
    hand,       \* the frame it holds until the hub has room
    post,       \* the task of each call
    table,      \* the server's sessions
    body,       \* the SSE body of each stream, on the server
    stream,     \* the stream task of each session
    granted, sent,
    outbox,     \* frames of each session the body has not sent
    breaks

hubVars == <<hub, seen, dropped>>
wire == <<out, inbound, pump, dead>>
reader == <<sessions, task, hand>>
server == <<table, body, stream, granted, sent, outbox>>
vars == <<hubVars, wire, reader, post, server, breaks>>

-----------------------------------------------------------------------------
NotPosted == [st |-> "idle", named |-> FALSE, late |-> FALSE, ok |-> FALSE]
Nothing == <<"none", NoId>>

Init ==
    /\ hub = [i \in Ids |-> "none"] /\ seen = [i \in Ids |-> 0] /\ dropped = FALSE
    /\ out = <<>> /\ inbound = <<>> /\ pump = TRUE /\ dead = FALSE
    /\ sessions = {} /\ task = [i \in Ids |-> "none"] /\ hand = [i \in Ids |-> Nothing]
    /\ post = [r \in Calls |-> NotPosted]
    /\ table = {} /\ body = [i \in Ids |-> "none"] /\ stream = [i \in Ids |-> "none"]
    /\ granted = [i \in Ids |-> 0] /\ sent = [i \in Ids |-> 0]
    /\ outbox = [i \in Ids |-> <<>>]
    /\ breaks = 0

(* Every holder of a sender is gone, and the hub reads the end of the wire. *)
Closed ==
    /\ ~pump
    /\ \A i \in Ids : task[i] \in {"none", "done"}
    /\ \A r \in Calls : post[r].st \in {"idle", "lost", "done"}

-----------------------------------------------------------------------------
(* The hub, as far as the wire sees it *)

CanSend == pump /\ ~dropped /\ Len(out) < Buffer

Subscribe(i) ==
    /\ hub[i] = "none" /\ CanSend
    /\ hub' = [hub EXCEPT ![i] = "open"]
    /\ out' = Append(out, <<"subscribe", i>>)
    /\ UNCHANGED <<seen, dropped, inbound, pump, dead, reader, post, server, breaks>>

(* A grant follows a record that was taken; a cancel follows a drop before *)
(* the end was read; any other call comes when it comes.                   *)
Wants(r) ==
    \/ r[1] = "credit" /\ hub[r[2]] = "open" /\ seen[r[2]] > 0
    \/ r[1] = "cancel" /\ hub[r[2]] = "open"
    \/ r[1] = "call"

Fire(r) ==
    /\ post[r].st = "idle" /\ CanSend /\ Wants(r)
    /\ post' = [post EXCEPT ![r].st = "queued"]
    /\ out' = Append(out, r)
    /\ hub' = IF r[1] = "cancel" THEN [hub EXCEPT ![r[2]] = "cancelled"] ELSE hub
    /\ UNCHANGED <<seen, dropped, inbound, pump, dead, reader, server, breaks>>

HubRecv ==
    /\ inbound # <<>> /\ ~dropped
    /\ LET f == Head(inbound) IN
         /\ seen' = IF f[1] = "record" THEN [seen EXCEPT ![f[2]] = @ + 1] ELSE seen
         /\ hub' = IF f[1] \in {"end", "error"} /\ hub[f[2]] = "open"
                   THEN [hub EXCEPT ![f[2]] = "ended"] ELSE hub
    /\ inbound' = Tail(inbound)
    /\ UNCHANGED <<dropped, out, pump, dead, reader, post, server, breaks>>

(* The hub lets go of a wire that ended, or of one it does not need. *)
HubDrop ==
    /\ ~dropped
    /\ dropped' = TRUE
    /\ inbound' = <<>>
    /\ UNCHANGED <<hub, seen, out, pump, dead, reader, post, server, breaks>>

-----------------------------------------------------------------------------
(* pump *)

(* MUTANT of NeedsSession: a cancel does not wait for the Welcome. *)
NeedsSessionToGrant(r) == r[1] = "credit"

NeedsSession(r) == r[1] \in {"credit", "cancel"}

PumpTake ==
    /\ pump /\ out # <<>>
    /\ out' = Tail(out)
    /\ LET r == Head(out) IN
         \/ /\ r[1] = "subscribe"
            /\ task' = [task EXCEPT ![r[2]] = "connecting"]
            /\ UNCHANGED post
         \/ /\ r[1] # "subscribe"
            /\ post' = [post EXCEPT ![r].st = IF NeedsSession(r) THEN "register" ELSE "posting"]
            /\ UNCHANGED task
    /\ UNCHANGED <<hubVars, inbound, pump, dead, sessions, hand, server, breaks>>

(* The pump ends with the hub's sender or with the wire, and takes the *)
(* requests it never took with it.                                     *)
PumpStop ==
    /\ pump /\ (dead \/ (dropped /\ out = <<>>))
    /\ pump' = FALSE /\ dead' = TRUE
    /\ out' = <<>>
    /\ post' = [r \in Calls |-> IF post[r].st = "queued" THEN [post[r] EXCEPT !.st = "lost"]
                                ELSE post[r]]
    /\ UNCHANGED <<hubVars, inbound, reader, server, breaks>>

-----------------------------------------------------------------------------
(* Sessions::wait: register for the next arrival, look, then sleep. *)

Register(r) ==
    /\ post[r].st = "register"
    /\ post' = [post EXCEPT ![r].st = "look"]
    /\ UNCHANGED <<hubVars, wire, reader, server, breaks>>

Look(r) ==
    /\ post[r].st = "look"
    /\ post' = [post EXCEPT ![r] = IF r[2] \in sessions
                                   THEN [@ EXCEPT !.st = "posting", !.named = TRUE]
                                   ELSE [@ EXCEPT !.st = "missed"]]
    /\ UNCHANGED <<hubVars, wire, reader, server, breaks>>

Sleep(r) ==
    /\ post[r].st = "missed"
    /\ post' = [post EXCEPT ![r].st = "asleep"]
    /\ UNCHANGED <<hubVars, wire, reader, server, breaks>>

(* Sessions::insert wakes the tasks that have registered: they look again. *)
Registered == {"missed", "asleep"}
Woken == [r \in Calls |-> IF post[r].st \in Registered THEN [post[r] EXCEPT !.st = "register"]
                          ELSE post[r]]

(* SESSION_WAIT is over: the call goes out with no session. *)
Waiting == {"register", "look", "missed", "asleep"}
WaitExpires(r) ==
    /\ post[r].st \in Waiting
    /\ post' = [post EXCEPT ![r].st = "posting", ![r].late = TRUE]
    /\ UNCHANGED <<hubVars, wire, reader, server, breaks>>

-----------------------------------------------------------------------------
(* call, on both sides *)

(* The server's call: a steering call finds its session in the table and its *)
(* stream in the session, or is refused; any other call is answered.         *)
Found(r) == post[r].named /\ r[2] \in table /\ stream[r[2]] = "live"
ServeCall(r) ==
    /\ post[r].st = "posting"
    /\ post' = [post EXCEPT ![r].st = "replied", ![r].ok = r[1] = "call" \/ Found(r)]
    /\ granted' = IF r[1] = "credit" /\ Found(r) THEN [granted EXCEPT ![r[2]] = @ + 1] ELSE granted
    /\ stream' = IF r[1] = "cancel" /\ Found(r) THEN [stream EXCEPT ![r[2]] = "cancelled"]
                 ELSE stream
    /\ UNCHANGED <<hubVars, wire, reader, table, body, sent, outbox, breaks>>

(* The reply goes to the hub when there is room for it. *)
Answer(r) == CASE r[1] = "credit" -> <<"ok", r[2]>>
               [] r[1] = "cancel" -> <<"end", r[2]>>
               [] OTHER -> <<"reply", NoId>>
CallReturns(r) ==
    /\ post[r].st = "replied" /\ post[r].ok
    /\ \/ dropped /\ UNCHANGED inbound
       \/ ~dropped /\ Len(inbound) < Buffer /\ inbound' = Append(inbound, Answer(r))
    /\ post' = [post EXCEPT ![r].st = "done"]
    /\ UNCHANGED <<hubVars, out, pump, dead, reader, server, breaks>>

(* A status other than 200 is a failed call, and a failed call ends the wire. *)
CallRefused(r) ==
    /\ post[r].st = "replied" /\ ~post[r].ok
    /\ dead' = TRUE
    /\ post' = [post EXCEPT ![r].st = "done"]
    /\ UNCHANGED <<hubVars, out, inbound, pump, reader, server, breaks>>

(* MUTANT of ReadsAs: a body that is cut short is a body that ended. *)
ReadsAsWhole(framing, at) == IF at = "head" THEN "error" ELSE "end"

(* read_head and Body::fill on a connection that ends early. Without a length *)
(* an end between two chunks, or anywhere when nothing frames the body, looks *)
(* like the end of the body.                                                  *)
ReadsAs(framing, at) ==
    CASE at = "head" -> "error"
      [] framing = "length" -> "error"
      [] framing = "chunked" -> IF at = "between" THEN "end" ELSE "error"
      [] OTHER -> "end"

(* The connection of a call breaks, before or after the server acted on it. *)
(* A reply carries its length. One that read as empty would be no reply and  *)
(* no failure either.                                                        *)
CallBreaks(r) ==
    /\ post[r].st \in {"posting", "replied"} /\ breaks < MaxBreaks
    /\ breaks' = breaks + 1
    /\ \E at \in {"head", "inside"} : dead' = (dead \/ ReadsAs("length", at) = "error")
    /\ post' = [post EXCEPT ![r].st = "done", ![r].ok = FALSE]
    /\ UNCHANGED <<hubVars, out, inbound, pump, reader, server>>

-----------------------------------------------------------------------------
(* StreamTask *)

Connect(i) ==
    /\ task[i] = "connecting"
    /\ task' = [task EXCEPT ![i] = "reading"]
    /\ body' = [body EXCEPT ![i] = "asked"]
    /\ UNCHANGED <<hubVars, wire, sessions, hand, post, table, stream, granted, sent, outbox, breaks>>

(* One data line. The Welcome announces the session of the stream. *)
Read(i) ==
    /\ task[i] = "reading" /\ hand[i] = Nothing /\ body[i] = "open" /\ outbox[i] # <<>>
    /\ hand' = [hand EXCEPT ![i] = Head(outbox[i])]
    /\ outbox' = [outbox EXCEPT ![i] = Tail(@)]
    /\ \/ /\ Head(outbox[i])[1] = "welcome"
          /\ sessions' = sessions \cup {i}
          /\ post' = Woken
       \/ /\ Head(outbox[i])[1] # "welcome"
          /\ UNCHANGED <<sessions, post>>
    /\ UNCHANGED <<hubVars, wire, task, table, body, stream, granted, sent, breaks>>

(* The reader waits for the hub, and stops reading meanwhile. *)
Room == Len(inbound) < Buffer
Deliver(i) ==
    /\ task[i] = "reading" /\ hand[i] # Nothing /\ ~dropped /\ Room
    /\ inbound' = IF Len(inbound) < Buffer THEN Append(inbound, hand[i]) ELSE inbound
    /\ hand' = [hand EXCEPT ![i] = Nothing]
    /\ UNCHANGED <<hubVars, out, pump, dead, sessions, task, post, server, breaks>>

(* What run does last, whichever way it ended. *)
TaskEnds(i) ==
    /\ task' = [task EXCEPT ![i] = "done"]
    /\ hand' = [hand EXCEPT ![i] = Nothing]
    /\ sessions' = sessions \ {i}

(* MUTANT of StopsReading: the reader does not watch for the end of the wire. *)
StopsReadingDropped(i) == dropped /\ hand[i] # Nothing

(* The wire is dead, or nobody is left to read for. *)
StopsReading(i) == dead \/ (dropped /\ hand[i] # Nothing)
TaskStops(i) ==
    /\ task[i] \in {"connecting", "reading"} /\ StopsReading(i)
    /\ TaskEnds(i)
    /\ UNCHANGED <<hubVars, wire, post, server, breaks>>

(* The connection fails, or the body ends: both are errors, and the wire *)
(* dies with the stream.                                                 *)
StreamBreaks(i) ==
    /\ task[i] \in {"connecting", "reading"} /\ breaks < MaxBreaks
    /\ breaks' = breaks + 1
    /\ dead' = TRUE
    /\ TaskEnds(i)
    /\ UNCHANGED <<hubVars, out, inbound, pump, post, server>>

(* A status other than 200 is an error too. *)
StreamRefused(i) ==
    /\ task[i] = "reading" /\ body[i] = "refused"
    /\ dead' = TRUE
    /\ TaskEnds(i)
    /\ UNCHANGED <<hubVars, out, inbound, pump, post, server, breaks>>

-----------------------------------------------------------------------------
(* stream, on the server *)

(* The GET is turned away before a session exists: its token is not the       *)
(* server's, which may have been restarted with another, or there is no        *)
(* random source to mint a name from.                                          *)
TurnAway(i) ==
    /\ body[i] = "asked" /\ breaks < MaxBreaks
    /\ breaks' = breaks + 1
    /\ body' = [body EXCEPT ![i] = "refused"]
    /\ UNCHANGED <<hubVars, wire, reader, post, table, stream, granted, sent, outbox>>

(* The GET: a session is entered in the table, says Welcome and subscribes. *)
(* A subscription that is refused says so on the body, behind the Welcome.  *)
(* Nothing reads the outbox before there is a body: with room for a single  *)
(* frame the refusal waits for good, and so does the handler. The guard     *)
(* that unregisters the session comes only after it.                        *)
Refusal(i) ==
    IF Outbox > 1 THEN <<<<"welcome", i>>, <<"error", i>>>> ELSE <<<<"welcome", i>>>>
Open(i) ==
    /\ body[i] = "asked"
    /\ table' = table \cup {i}
    /\ \/ /\ stream' = [stream EXCEPT ![i] = "live"]
          /\ granted' = [granted EXCEPT ![i] = Window]
          /\ outbox' = [outbox EXCEPT ![i] = <<<<"welcome", i>>>>]
          /\ body' = [body EXCEPT ![i] = "open"]
       \/ /\ outbox' = [outbox EXCEPT ![i] = Refusal(i)]
          /\ body' = [body EXCEPT ![i] = IF Outbox > 1 THEN "open" ELSE "stuck"]
          /\ UNCHANGED <<stream, granted>>
    /\ UNCHANGED <<hubVars, wire, reader, post, sent, breaks>>

(* The stream task pushes within its credit, and waits for the outbox. *)
OutboxRoom(i) == Len(outbox[i]) < Outbox
Push(i) ==
    /\ stream[i] = "live" /\ sent[i] < granted[i] /\ sent[i] < MaxRecords
    /\ OutboxRoom(i)
    /\ sent' = [sent EXCEPT ![i] = @ + 1]
    /\ outbox' = [outbox EXCEPT ![i] = Append(@, <<"record", i>>)]
    /\ UNCHANGED <<hubVars, wire, reader, post, table, body, stream, granted, breaks>>

(* A cancelled stream says End as it unwinds. One whose log stops does so *)
(* too, of its own accord. The body stays open: its session holds a       *)
(* sender of the outbox.                                                  *)
Finish(i) ==
    /\ stream[i] \in {"live", "cancelled"} /\ OutboxRoom(i)
    /\ stream' = [stream EXCEPT ![i] = "ended"]
    /\ outbox' = [outbox EXCEPT ![i] = Append(@, <<"end", i>>)]
    /\ UNCHANGED <<hubVars, wire, reader, post, table, body, granted, sent, breaks>>

(* MUTANT of Unregister: the entry outlives the body. *)
UnregisterNever(i) == table

(* A write, the keep-alive's at the latest, finds the client gone. Dropping *)
(* the body takes the table entry and the streams of the session with it.   *)
Unregister(i) == table \ {i}
BodyDrops(i) ==
    /\ body[i] = "open" /\ task[i] = "done"
    /\ body' = [body EXCEPT ![i] = "dropped"]
    /\ table' = Unregister(i)
    /\ stream' = [stream EXCEPT ![i] = "ended"]
    /\ outbox' = [outbox EXCEPT ![i] = <<>>]
    /\ UNCHANGED <<hubVars, wire, reader, post, granted, sent, breaks>>

-----------------------------------------------------------------------------
Wait(r) == Register(r) \/ Look(r) \/ Sleep(r) \/ WaitExpires(r)
Call(r) == ServeCall(r) \/ CallReturns(r) \/ CallRefused(r)
Reader(i) == Connect(i) \/ Read(i) \/ Deliver(i) \/ TaskStops(i) \/ StreamRefused(i)
Session(i) == Open(i) \/ Push(i) \/ BodyDrops(i)

Next ==
    \/ \E i \in Ids : Subscribe(i) \/ Reader(i) \/ StreamBreaks(i) \/ Session(i) \/ Finish(i)
                     \/ TurnAway(i)
    \/ \E r \in Calls : Fire(r) \/ Wait(r) \/ Call(r) \/ CallBreaks(r)
    \/ HubRecv \/ HubDrop \/ PumpTake \/ PumpStop

Spec == Init /\ [][Next]_vars

(* The runtimes poll every task that can go on, the server answers what it *)
(* was asked, timers fire and the hub reads what it is sent.               *)
Fairness ==
    /\ WF_vars(HubRecv) /\ WF_vars(PumpTake) /\ WF_vars(PumpStop)
    /\ \A i \in Ids : WF_vars(Reader(i)) /\ WF_vars(Session(i))
    /\ \A r \in Calls : WF_vars(Wait(r)) /\ WF_vars(Call(r))

FairSpec == Spec /\ Fairness

-----------------------------------------------------------------------------
(* Properties *)

TypeOK ==
    /\ hub \in [Ids -> {"none", "open", "cancelled", "ended"}]
    /\ seen \in [Ids -> 0..MaxRecords] /\ sent \in [Ids -> 0..MaxRecords]
    /\ granted \in [Ids -> 0..(Window + 1)]
    /\ Len(out) <= Buffer /\ Len(inbound) <= Buffer
    /\ \A k \in DOMAIN inbound : inbound[k] \in Kinds \X (Ids \cup {NoId})
    /\ {dropped, pump, dead} \subseteq BOOLEAN
    /\ sessions \subseteq Ids /\ table \subseteq Ids
    /\ task \in [Ids -> {"none", "connecting", "reading", "done"}]
    /\ body \in [Ids -> {"none", "asked", "refused", "open", "stuck", "dropped"}]
    /\ stream \in [Ids -> {"none", "live", "cancelled", "ended"}]
    /\ \A i \in Ids : Len(outbox[i]) <= Outbox
    /\ \A r \in Calls :
          /\ post[r].st \in {"idle", "queued", "register", "look", "missed", "asleep",
                             "posting", "replied", "done", "lost"}
          /\ post[r].named => r[1] # "call" /\ ~post[r].late
    /\ breaks \in 0..MaxBreaks

(* A Credit or Cancel never sleeps on a session that has been announced:    *)
(* registering before looking leaves no gap for the Welcome to fall into     *)
(* (Sessions::wait, http.rs:113-114).                                        *)
NoMissedSession == \A r \in Calls : post[r].st = "asleep" => r[2] \notin sessions

(* A steering call that waited for its session is refused only when its       *)
(* stream is over: it never gets to the server ahead of the session it names, *)
(* and never without a name unless its wait expired.                          *)
SteeringFindsItsStream ==
    \A r \in Calls :
        r[1] # "call" /\ post[r].st = "replied" /\ ~post[r].ok /\ ~post[r].late =>
            stream[r[2]] # "live"

(* Credits and cancels meet their stream however they race with its Welcome. *)
SteeringIsSafe == TypeOK /\ NoMissedSession /\ SteeringFindsItsStream

(* Every call and every stream is accounted for: a call brings its reply to  *)
(* the hub, or the wire is dead and its waiter is failed with all the others; *)
(* a reader ends only with the wire, whatever its body or the server's status *)
(* was. Nothing ends in silence (http.rs:182-190, 218-229).                   *)
NothingEndsInSilence ==
    /\ \A r \in Calls : post[r].st = "done" => post[r].ok \/ dead
    /\ \A i \in Ids : task[i] = "done" => dead \/ dropped

(* The records of a stream among the frames of s, and those on their way.    *)
Count(s, i) == Cardinality({k \in DOMAIN s : s[k] = <<"record", i>>})
InTransit(i) == Count(outbox[i], i) + Count(<<hand[i]>>, i) + Count(inbound, i)

(* While its connection lives no record of a stream is lost or doubled on   *)
(* its way through outbox, reader and wire, however slow the hub is.         *)
NothingIsDropped ==
    ~dropped =>
        \A i \in Ids :
            task[i] = "reading" /\ body[i] = "open" => sent[i] = InTransit(i) + seen[i]

(* No reply, record or failure gets lost between the two ends.              *)
NothingIsLost == NothingEndsInSilence /\ NothingIsDropped

(* A call that was taken off the wire ends: the wait for a session that     *)
(* never comes expires, and the hub's slowness does not hold it for good.    *)
CallsEnd == \A r \in Calls : post[r].st # "idle" ~> post[r].st \in {"done", "lost"}

(* When the wire dies, all of it does: every reader and every call ends, the *)
(* hub reads the end of the wire, and the server keeps no session of it.     *)
DeathIsTotal == dead ~> (Closed /\ table = {})

(* Whatever was begun on a wire ends, with the wire at the latest, if an     *)
(* outbox holds the Welcome and one frame more. Nothing checks that it does  *)
(* (config.rs 77): with room for one, a refused subscription leaves its      *)
(* session in the table after the wire has died.                             *)
WireSettles == CallsEnd /\ (Outbox > 1 => DeathIsTotal)

(* http.rs:7-8, of the two transports: "the hub above cannot tell which      *)
(* transport it is using". On a socket a Credit or Cancel for a stream that  *)
(* is over is answered with an Error nobody waits for; here it is a 400, and *)
(* ends every stream of the wire. See the README.                            *)
SteeringKeepsTheWire == dead => breaks > 0 \/ dropped \/ \E r \in Calls : post[r].late

(* http.rs:137-138: "only subscriptions hold a connection open". One that is *)
(* over keeps its connection for as long as the wire lives: see the README.  *)
OnlySubscriptionsHold ==
    \A i \in Ids : hub[i] \in {"cancelled", "ended"} ~> task[i] = "done"

=============================================================================
