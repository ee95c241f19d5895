-------------------------- MODULE Subscription_proofs --------------------------
(***************************************************************************)
(* What a client hears of a log, and what it costs, for any number of      *)
(* streams and tasks, any limits and any log.                              *)
(***************************************************************************)
EXTENDS Subscription, FiniteSetTheorems, TLAPS

(* What travels, and what the tasks and the client keep. *)
Patches == UNION {{b[i] : i \in DOMAIN b} : b \in Batches \cup Recoverable}
Entries == [version : Nat, patch : Patches]
FrameOf(S) ==
    {f \in [kind : Kinds, id : S, from : Nat, to : Nat, entries : Seq(Entries)] :
        f.kind # "records" => f.entries = <<>>}
Frames == FrameOf(Ids)
Replies == {f \in Frames : f.kind \in {"ok", "error"}}
Modes == {"records", "reducible"}
Asked == [from : Nat, mode : Modes, credit : Nat]
Requests == [kind : {"subscribe", "credit", "cancel"}, id : Ids, sub : Asked]
Clients == [phase : {"free", "open"}, pos : Nat, credit : Nat, got : Nat, cancelled : BOOLEAN]
TaskStates == [id : Ids \cup {None}, pc : Places, mode : Modes, cursor : Nat, used : Nat,
               granted : Nat, seenFlow : Nat, seenMark : Nat, frame : FrameOf(Ids \cup {None}),
               then : {"done", "loop", "exit"}]

Shaped ==
    /\ log \in Seq(Patches) /\ ring \in Seq(Entries) /\ published \in Nat /\ floor \in Nat
    /\ up \in BOOLEAN
    /\ client \in [Ids -> Clients]
    /\ requests \in Seq(Requests)
    /\ pending \in [spawn : Tasks \cup {None}, frames : Seq(Replies)]
    /\ table \in [Ids -> Tasks \cup {None}]
    /\ task \in [Tasks -> TaskStates]
    /\ out \in Seq(Frames)
    /\ reading \in BOOLEAN /\ writing \in BOOLEAN /\ opened \in Nat /\ failures \in Nat

\* The queues within their limits.
Bounded ==
    /\ Len(requests) <= MaxRequests /\ Len(out) <= OutboxCapacity
    /\ Len(pending.frames) <= 1
    /\ ~writing => out = <<>>
    /\ published <= Len(log) /\ floor \in 1..(Len(log) + 1)

\* The ring is a window of the log that ends at the watermark or, in the middle of a
\* commit, at the end of the log.
Mirrors(rg, L, base) ==
    \A k \in DOMAIN rg : rg[k].version = base + k /\ rg[k].patch = L[base + k]
Windowed ==
    ring # <<>> => \E base \in Nat : /\ Mirrors(ring, log, base)
                                    /\ base + Len(ring) \in {published, Len(log)}

\* A task that was spawned and has not said End.
Alive(t) == task[t].pc \notin {"unborn", "done"}

\* What a task is sending, and what it may push.
Tasked(t) ==
    /\ task[t].used <= task[t].granted /\ task[t].seenFlow <= task[t].granted
    /\ task[t].pc \in {"reading", "asking"} => task[t].used < task[t].seenFlow
    /\ task[t].pc = "sending" =>
          /\ task[t].frame.kind \in {"view", "records", "gap", "error"}
          /\ task[t].frame.id = task[t].id
          /\ task[t].then \in {"loop", "exit"}
Tasking == \A t \in Tasks : Alive(t) => task[t].id \in Ids /\ Tasked(t)

\* One task at most under an id; the table knows it until it forgets.
Registered ==
    /\ \A t, u \in Tasks : Alive(t) /\ Alive(u) /\ task[t].id = task[u].id => t = u
    /\ \A id \in Ids : table[id] # None =>
          /\ Alive(table[id]) /\ task[table[id]].id = id
          /\ task[table[id]].pc # "ending"
    /\ pending.spawn # None => task[pending.spawn].pc = "spawning"

\* The frames of a stream, from its view to its End.
Moving == {"view", "records", "gap"}
OfStream == Moving \cup {"end"}
Quiet(id) == \A k \in DOMAIN out : out[k].id = id => out[k].kind \notin OfStream

\* No task serves an id.
Unserved(id) == \A t \in Tasks : Alive(t) => task[t].id # id

\* A Subscribe on its way is for an id whose client stands at its cursor, and that
\* nothing is left of an earlier stream of.
Waiting(r) ==
    /\ client[r.id].phase = "open" /\ client[r.id].pos = r.sub.from /\ client[r.id].got = 0
    /\ Quiet(r.id) /\ Unserved(r.id)

\* An id that is in use is asked for, or served, or over, in turn.
Living ==
    /\ \A t \in Tasks : Alive(t) => client[task[t].id].phase = "open"
    /\ \A id \in Ids : client[id].phase = "free" => Quiet(id)
    /\ \A k \in DOMAIN requests : requests[k].kind = "subscribe" =>
          /\ Waiting(requests[k])
          /\ \A j \in DOMAIN requests :
                requests[j].kind = "subscribe" /\ requests[j].id = requests[k].id => j = k
    /\ \A k \in DOMAIN out : out[k].kind = "end" =>
          /\ Unserved(out[k].id)
          /\ \A j \in DOMAIN out : j > k /\ out[j].id = out[k].id => out[j].kind \notin OfStream

(* A frame is right at p, and where it takes a client that stands there. *)
Fits(L, f, p) ==
    /\ f.kind = "records" =>
          /\ f.entries # <<>> /\ f.to = p + Len(f.entries) /\ f.to <= Len(L)
          /\ \A i \in DOMAIN f.entries : /\ f.entries[i].version = p + i
                                         /\ f.entries[i].patch = L[p + i]
    /\ f.kind = "gap" => f.from = p /\ f.to > p
Moved(f, p) ==
    CASE f.kind = "view" -> Larger(p, f.to)
      [] f.kind \in {"records", "gap"} -> f.to
      [] OTHER -> p

\* Hearing the frames of s takes a client from p to q under an id, and each is right
\* when it comes.
Walk(L, s, id, p, q) ==
    \E P \in [0..Len(s) -> Nat] :
        /\ P[0] = p /\ P[Len(s)] = q
        /\ \A k \in 1..Len(s) :
              IF s[k].id = id
                THEN Fits(L, s[k], P[k - 1]) /\ P[k] = Moved(s[k], P[k - 1])
                ELSE P[k] = P[k - 1]
Reaches(id, q) == Walk(log, out, id, client[id].pos, q)

\* What is in the outbox takes the client to where the task of the stream stands.
Stands(t, q) ==
    /\ Reaches(task[t].id, q)
    /\ IF task[t].pc = "sending"
         THEN Fits(log, task[t].frame, q) /\ task[t].cursor = Moved(task[t].frame, q)
         ELSE task[t].cursor = q
Chained ==
    writing =>
        /\ \A id \in Ids : client[id].phase = "open" => \E q \in Nat : Reaches(id, q)
        /\ \A t \in Tasks : Alive(t) => \E q \in Nat : Stands(t, q)

\* A gap covers only what was reclaimed, from the moment it is written.
Reclaimed ==
    /\ GapIsReclaimed
    /\ \A t \in Tasks : task[t].pc = "sending" /\ task[t].frame.kind = "gap" =>
          task[t].frame.to < floor

\* The grants behind the k first requests.
Grants(s, k, id) == {j \in DOMAIN s : j > k /\ s[j].kind = "credit" /\ s[j].id = id}
Pledged(s, k, id) == Cardinality(Grants(s, k, id))

\* Records a task has in hand.
Holding(t) == IF task[t].pc = "sending" THEN Len(task[t].frame.entries) ELSE 0

\* A task knows no more credit than the client has sent, and has used up what the
\* client has heard, what is on its way and what it holds.
Credited ==
    /\ \A t \in Tasks : Alive(t) =>
          LET id == task[t].id IN
            /\ task[t].granted + Pledged(requests, 0, id) <= client[id].credit
            /\ client[id].got + Carried(out, id) + Holding(t) <= task[t].used
    /\ \A k \in DOMAIN requests :
          /\ requests[k].kind = "subscribe" =>
                requests[k].sub.credit + Pledged(requests, k, requests[k].id)
                   <= client[requests[k].id].credit
          /\ requests[k].kind = "credit" => requests[k].sub.credit = 1

\* Neither a request nor a reply is on its way under an id.
CutOff(id) ==
    /\ \A k \in DOMAIN requests : requests[k].id # id
    /\ \A k \in DOMAIN pending.frames : pending.frames[k].id # id

\* The client asks nothing more of a stream.
Silent(id) == client[id].cancelled \/ ~reading

\* Nothing but frames is left of a stream that was cancelled, and nothing behind its End.
Ending ==
    /\ \A id \in Ids : client[id].phase = "free" =>
          CutOff(id) /\ \A k \in DOMAIN out : out[k].id # id
    /\ \A t \in Tasks : Alive(t) /\ ~Open(t) => CutOff(task[t].id) /\ Silent(task[t].id)
    /\ \A t \in Tasks : task[t].pc \in {"exit", "ending"} => ~Open(t)
    /\ \A k \in DOMAIN out : out[k].kind = "end" =>
          /\ CutOff(out[k].id) /\ Silent(out[k].id)
          /\ \A j \in DOMAIN out : j > k => out[j].id # out[k].id
    /\ \A k \in DOMAIN requests : requests[k].kind = "cancel" =>
          /\ Silent(requests[k].id)
          /\ \A j \in DOMAIN requests : j > k => requests[j].id # requests[k].id
    /\ \A t \in Tasks : task[t].pc = "sending" => task[t].then = "loop"
Ended == failures = 0 /\ writing => Ending

IInv ==
    /\ Shaped /\ Bounded /\ Windowed /\ Tasking /\ Registered /\ Living /\ Chained
    /\ Reclaimed /\ Credited /\ WithinCredit /\ Ended

-----------------------------------------------------------------------------
(* Facts about frames and sequences. *)

\* The fields of a frame.
LEMMA FrameFields ==
    ASSUME NEW S, NEW f \in FrameOf(S)
    PROVE  /\ f.kind \in Kinds /\ f.id \in S /\ f.from \in Nat /\ f.to \in Nat
           /\ f.entries \in Seq(Entries) /\ Len(f.entries) \in Nat
           /\ DOMAIN f.entries = 1..Len(f.entries)
           /\ f.kind # "records" => f.entries = <<>> /\ Len(f.entries) = 0
           /\ f.entries = <<>> <=> Len(f.entries) = 0
  <1>1. f \in [kind : Kinds, id : S, from : Nat, to : Nat, entries : Seq(Entries)]
        /\ (f.kind # "records" => f.entries = <<>>)
    BY DEF FrameOf
  <1>2. /\ f.kind \in Kinds /\ f.id \in S /\ f.from \in Nat /\ f.to \in Nat
        /\ f.entries \in Seq(Entries)
    BY <1>1
  <1>3. \A s \in Seq(Entries) :
           /\ Len(s) \in Nat /\ DOMAIN s = 1..Len(s) /\ (s = <<>> <=> Len(s) = 0)
    OBVIOUS
  <1>. QED
    BY <1>1, <1>2, <1>3

\* A frame that carries nothing.
LEMMA PlainMade ==
    ASSUME NEW S, NEW id \in S, NEW kind \in {"ok", "error", "end"}
    PROVE  /\ Plain(kind, id) \in FrameOf(S)
           /\ Plain(kind, id).kind = kind /\ Plain(kind, id).id = id
           /\ Plain(kind, id).entries = <<>>
  <1>1. <<>> \in Seq(Entries) /\ kind \in Kinds /\ kind # "records" /\ 0 \in Nat
    BY DEF Kinds
  <1>. QED
    BY <1>1 DEF Plain, Frame, FrameOf

\* A frame under the id of a stream is one the outbox may hold.
LEMMA FrameOfId ==
    ASSUME NEW S, NEW T, NEW f \in FrameOf(S), f.id \in T
    PROVE  f \in FrameOf(T)
  BY DEF FrameOf

\* The places of a sequence that something joins at the end.
LEMMA Joined ==
    ASSUME NEW S, NEW s \in Seq(S), NEW x
    PROVE  /\ Len(s) \in Nat /\ DOMAIN s = 1..Len(s)
           /\ Len(Append(s, x)) = Len(s) + 1 /\ DOMAIN Append(s, x) = 1..(Len(s) + 1)
           /\ \A k \in DOMAIN s : k \in DOMAIN Append(s, x) /\ Append(s, x)[k] = s[k]
           /\ Len(s) + 1 \in DOMAIN Append(s, x) /\ Append(s, x)[Len(s) + 1] = x
           /\ \A k \in DOMAIN Append(s, x) : k \in DOMAIN s \/ k = Len(s) + 1
           /\ x \in S => Append(s, x) \in Seq(S)
  <1>1. /\ Len(s) \in Nat /\ DOMAIN s = 1..Len(s)
        /\ Len(Append(s, x)) = Len(s) + 1 /\ DOMAIN Append(s, x) = 1..(Len(s) + 1)
        /\ \A k \in 1..Len(s) : Append(s, x)[k] = s[k]
        /\ Append(s, x)[Len(s) + 1] = x
        /\ x \in S => Append(s, x) \in Seq(S)
    OBVIOUS
  <1>2. \A n \in Nat : /\ n + 1 \in 1..(n + 1)
                       /\ \A k \in 1..n : k \in 1..(n + 1)
                       /\ \A k \in 1..(n + 1) : k \in 1..n \/ k = n + 1
    OBVIOUS
  <1>. HIDE <1>1
  <1>. QED
    BY <1>1, <1>2

\* The places of a sequence that loses its head.
LEMMA Left ==
    ASSUME NEW S, NEW s \in Seq(S), s # <<>>
    PROVE  /\ Len(s) \in Nat \ {0} /\ DOMAIN s = 1..Len(s) /\ 1 \in DOMAIN s
           /\ Head(s) = s[1] /\ Head(s) \in S
           /\ Tail(s) \in Seq(S) /\ Len(Tail(s)) = Len(s) - 1
           /\ DOMAIN Tail(s) = 1..(Len(s) - 1)
           /\ \A k \in DOMAIN Tail(s) : /\ k \in Nat /\ k >= 1
                                        /\ k + 1 \in DOMAIN s /\ Tail(s)[k] = s[k + 1]
           /\ \A k \in DOMAIN s : k # 1 => k - 1 \in DOMAIN Tail(s) /\ Tail(s)[k - 1] = s[k]
  <1>1. /\ Len(s) \in Nat \ {0} /\ DOMAIN s = 1..Len(s)
        /\ Head(s) = s[1] /\ Head(s) \in S
        /\ Tail(s) \in Seq(S) /\ Len(Tail(s)) = Len(s) - 1
        /\ DOMAIN Tail(s) = 1..(Len(s) - 1)
        /\ \A k \in 1..(Len(s) - 1) : Tail(s)[k] = s[k + 1]
    OBVIOUS
  <1>2. \A n \in Nat \ {0} :
           /\ 1 \in 1..n
           /\ \A k \in 1..(n - 1) : k \in Nat /\ k >= 1 /\ k + 1 \in 1..n
           /\ \A k \in 1..n : k # 1 => k - 1 \in 1..(n - 1) /\ (k - 1) + 1 = k
    OBVIOUS
  <1>3. \A k \in DOMAIN s : k # 1 => Tail(s)[k - 1] = s[k]
    BY ONLY <1>1, <1>2
  <1>. HIDE <1>1
  <1>. QED
    BY <1>1, <1>2, <1>3

-----------------------------------------------------------------------------
(* Where the frames on their way take a client. *)

\* A frame moves to a version.
LEMMA MovedType ==
    ASSUME NEW S, NEW f \in FrameOf(S), NEW p \in Nat
    PROVE  Moved(f, p) \in Nat
  BY FrameFields DEF Moved, Larger

\* An empty outbox takes nobody anywhere.
LEMMA WalkEmpty ==
    ASSUME NEW L, NEW id, NEW p \in Nat
    PROVE  Walk(L, <<>>, id, p, p)
  <1>1. /\ Len(<<>>) = 0 /\ [k \in 0..0 |-> p] \in [0..0 -> Nat]
        /\ [k \in 0..0 |-> p][0] = p /\ 1..0 = {}
    OBVIOUS
  <1>. QED
    BY <1>1 DEF Walk

\* Replies do not move a client.
LEMMA WalkStill ==
    ASSUME NEW L, NEW s \in Seq(Frames), NEW id, NEW p \in Nat,
           \A k \in DOMAIN s : s[k].id = id => s[k].kind \notin Moving
    PROVE  Walk(L, s, id, p, p)
  <1>. DEFINE P == [k \in 0..Len(s) |-> p]
  <1>1. /\ Len(s) \in Nat /\ DOMAIN s = 1..Len(s)
    OBVIOUS
  <1>2. P \in [0..Len(s) -> Nat] /\ \A k \in 0..Len(s) : P[k] = p
    OBVIOUS
  <1>3. \A n \in Nat : 0 \in 0..n /\ n \in 0..n /\ \A k \in 1..n : k \in 0..n /\ k - 1 \in 0..n
    OBVIOUS
  <1>. HIDE DEF P
  <1>4. ASSUME NEW k \in 1..Len(s), s[k].id = id
        PROVE  Fits(L, s[k], p) /\ Moved(s[k], p) = p
    BY <1>1, <1>4 DEF Fits, Moved, Moving
  <1>. QED
    BY <1>1, <1>2, <1>3, <1>4 DEF Walk

\* A frame that joins is heard after the others.
LEMMA WalkJoin ==
    ASSUME NEW L, NEW s \in Seq(Frames), NEW f \in Frames, NEW id, NEW p \in Nat, NEW q \in Nat,
           Walk(L, s, id, p, q), f.id = id => Fits(L, f, q)
    PROVE  Walk(L, Append(s, f), id, p, IF f.id = id THEN Moved(f, q) ELSE q)
  <1>. DEFINE a == Append(s, f)
              n == Len(s)
              r == IF f.id = id THEN Moved(f, q) ELSE q
  <1>1. /\ n \in Nat /\ Len(a) = n + 1 /\ a[n + 1] = f /\ \A k \in 1..n : a[k] = s[k]
    OBVIOUS
  <1>2. r \in Nat
    BY MovedType DEF Frames
  <1>3. PICK P \in [0..n -> Nat] :
           /\ P[0] = p /\ P[n] = q
           /\ \A k \in 1..n :
                 IF s[k].id = id
                   THEN Fits(L, s[k], P[k - 1]) /\ P[k] = Moved(s[k], P[k - 1])
                   ELSE P[k] = P[k - 1]
    BY DEF Walk
  <1>. DEFINE Q == [k \in 0..(n + 1) |-> IF k = n + 1 THEN r ELSE P[k]]
  <1>. HIDE DEF a, n, r
  <1>4. /\ Q \in [0..(n + 1) -> Nat] /\ Q[n + 1] = r
        /\ \A k \in 0..n : Q[k] = P[k]
    BY <1>1, <1>2
  <1>5. /\ 0 \in 0..n /\ n \in 0..n /\ (n + 1) - 1 = n
        /\ \A k \in 1..n : k \in 0..n /\ k - 1 \in 0..n
        /\ \A k \in 1..(n + 1) : k \in 1..n \/ k = n + 1
    BY <1>1
  <1>. HIDE DEF Q
  <1>6. ASSUME NEW k \in 1..(n + 1)
        PROVE  IF a[k].id = id
                 THEN Fits(L, a[k], Q[k - 1]) /\ Q[k] = Moved(a[k], Q[k - 1])
                 ELSE Q[k] = Q[k - 1]
    <2>1. CASE k \in 1..n
      BY <1>1, <1>3, <1>4, <1>5, <2>1
    <2>2. CASE k = n + 1
      <3>1. a[k] = f /\ Q[k - 1] = q /\ Q[k] = r
        BY <1>1, <1>3, <1>4, <1>5, <2>2
      <3>. QED
        BY <3>1 DEF r
    <2>. QED
      BY <1>5, <2>1, <2>2
  <1>7. Walk(L, a, id, p, r)
    <2>1. Q \in [0..Len(a) -> Nat] /\ Q[0] = p /\ Q[Len(a)] = r
      BY <1>1, <1>3, <1>4, <1>5
    <2>2. \A k \in 1..Len(a) :
             IF a[k].id = id
               THEN Fits(L, a[k], Q[k - 1]) /\ Q[k] = Moved(a[k], Q[k - 1])
               ELSE Q[k] = Q[k - 1]
      BY <1>1, <1>6
    <2>. QED
      BY <2>1, <2>2 DEF Walk
  <1>. QED
    BY <1>7 DEF a, r

\* The head of the outbox is right for the client, and takes it on.
LEMMA WalkLeave ==
    ASSUME NEW L, NEW s \in Seq(Frames), s # <<>>, NEW id, NEW p \in Nat, NEW q,
           Walk(L, s, id, p, q)
    PROVE  /\ Head(s).id = id => Fits(L, Head(s), p)
           /\ Walk(L, Tail(s), id, IF Head(s).id = id THEN Moved(Head(s), p) ELSE p, q)
  <1>. DEFINE b == Tail(s)
              n == Len(s)
              r == IF Head(s).id = id THEN Moved(Head(s), p) ELSE p
  <1>1. /\ n \in Nat \ {0} /\ Len(b) = n - 1 /\ Head(s) = s[1]
        /\ \A k \in 1..(n - 1) : b[k] = s[k + 1]
    BY Left
  <1>2. PICK P \in [0..n -> Nat] :
           /\ P[0] = p /\ P[n] = q
           /\ \A k \in 1..n :
                 IF s[k].id = id
                   THEN Fits(L, s[k], P[k - 1]) /\ P[k] = Moved(s[k], P[k - 1])
                   ELSE P[k] = P[k - 1]
    BY DEF Walk
  <1>. DEFINE Q == [k \in 0..(n - 1) |-> P[k + 1]]
  <1>. HIDE DEF b, n, r
  <1>3. /\ 1 \in 1..n /\ 1 - 1 = 0 /\ 0 \in 0..(n - 1) /\ n - 1 \in 0..(n - 1) /\ (n - 1) + 1 = n
        /\ 0 + 1 = 1
        /\ \A k \in 0..(n - 1) : k + 1 \in 0..n
        /\ \A k \in 1..(n - 1) : /\ k \in 0..(n - 1) /\ k - 1 \in 0..(n - 1) /\ k + 1 \in 1..n
                                 /\ (k - 1) + 1 = k /\ (k + 1) - 1 = k
    BY <1>1
  <1>4. Q \in [0..(n - 1) -> Nat] /\ \A k \in 0..(n - 1) : Q[k] = P[k + 1]
    BY <1>3
  <1>. HIDE DEF Q
  <1>5. IF s[1].id = id THEN Fits(L, s[1], p) /\ P[1] = Moved(s[1], p) ELSE P[1] = p
    BY <1>2, <1>3
  <1>6. P[1] = r /\ (Head(s).id = id => Fits(L, Head(s), p))
    BY <1>1, <1>5 DEF r
  <1>7. ASSUME NEW k \in 1..(n - 1)
        PROVE  IF b[k].id = id
                 THEN Fits(L, b[k], Q[k - 1]) /\ Q[k] = Moved(b[k], Q[k - 1])
                 ELSE Q[k] = Q[k - 1]
    <2>1. b[k] = s[k + 1] /\ Q[k] = P[k + 1] /\ Q[k - 1] = P[k]
      BY <1>1, <1>3, <1>4
    <2>2. IF s[k + 1].id = id
            THEN Fits(L, s[k + 1], P[k]) /\ P[k + 1] = Moved(s[k + 1], P[k])
            ELSE P[k + 1] = P[k]
      BY <1>2, <1>3
    <2>. QED
      BY <2>1, <2>2
  <1>8. Walk(L, b, id, r, q)
    <2>1. Q \in [0..Len(b) -> Nat] /\ Q[0] = r /\ Q[Len(b)] = q
      BY <1>1, <1>2, <1>3, <1>4, <1>6
    <2>2. \A k \in 1..Len(b) :
             IF b[k].id = id
               THEN Fits(L, b[k], Q[k - 1]) /\ Q[k] = Moved(b[k], Q[k - 1])
               ELSE Q[k] = Q[k - 1]
      BY <1>1, <1>7
    <2>. QED
      BY <2>1, <2>2 DEF Walk
  <1>. QED
    BY <1>6, <1>8 DEF b, r

\* What was right stays right as the log grows.
LEMMA FitsLonger ==
    ASSUME NEW S, NEW L \in Seq(S), NEW b \in Seq(S), NEW T, NEW f \in FrameOf(T), NEW p \in Nat,
           Fits(L, f, p)
    PROVE  Fits(L \o b, f, p)
  <1>1. /\ Len(L \o b) = Len(L) + Len(b) /\ Len(L) \in Nat /\ Len(b) \in Nat
        /\ \A v \in 1..Len(L) : (L \o b)[v] = L[v]
    OBVIOUS
  <1>2. /\ f.to \in Nat /\ DOMAIN f.entries = 1..Len(f.entries) /\ Len(f.entries) \in Nat
    BY FrameFields
  <1>. DEFINE M == L \o b
  <1>3. Len(M) >= Len(L) /\ Len(M) \in Nat /\ \A v \in 1..Len(L) : M[v] = L[v]
    BY <1>1
  <1>. HIDE DEF M
  <1>4. ASSUME f.kind = "records"
        PROVE  /\ f.entries # <<>> /\ f.to = p + Len(f.entries) /\ f.to <= Len(M)
               /\ \A i \in DOMAIN f.entries : /\ f.entries[i].version = p + i
                                              /\ f.entries[i].patch = M[p + i]
    <2>1. /\ f.entries # <<>> /\ f.to = p + Len(f.entries) /\ f.to <= Len(L)
          /\ \A i \in DOMAIN f.entries : /\ f.entries[i].version = p + i
                                         /\ f.entries[i].patch = L[p + i]
      BY <1>4 DEF Fits
    <2>2. \A i \in 1..Len(f.entries) : p + i \in 1..Len(L)
      BY <1>1, <1>2, <2>1
    <2>3. f.to <= Len(M)
      BY <1>1, <1>2, <1>3, <2>1
    <2>. QED
      BY <1>2, <1>3, <2>1, <2>2, <2>3
  <1>5. Fits(M, f, p)
    BY <1>4 DEF Fits
  <1>. QED
    BY <1>5 DEF M

LEMMA WalkLonger ==
    ASSUME NEW S, NEW L \in Seq(S), NEW b \in Seq(S), NEW s \in Seq(Frames), NEW id,
           NEW p, NEW q, Walk(L, s, id, p, q)
    PROVE  Walk(L \o b, s, id, p, q)
  <1>1. PICK P \in [0..Len(s) -> Nat] :
           /\ P[0] = p /\ P[Len(s)] = q
           /\ \A k \in 1..Len(s) :
                 IF s[k].id = id
                   THEN Fits(L, s[k], P[k - 1]) /\ P[k] = Moved(s[k], P[k - 1])
                   ELSE P[k] = P[k - 1]
    BY DEF Walk
  <1>2. Len(s) \in Nat /\ \A k \in 1..Len(s) : s[k] \in FrameOf(Ids)
    BY DEF Frames
  <1>3. \A k \in 1..Len(s) : k - 1 \in 0..Len(s)
    BY <1>2
  <1>4. \A k \in 1..Len(s) : P[k - 1] \in Nat
    BY <1>1, <1>3
  <1>5. \A k \in 1..Len(s) : Fits(L, s[k], P[k - 1]) => Fits(L \o b, s[k], P[k - 1])
    BY <1>2, <1>4, FitsLonger
  <1>. QED
    BY <1>1, <1>5 DEF Walk

-----------------------------------------------------------------------------
(* Counting what is on its way under an id. *)

Load(s, id) == UNION {Parcel(s, i) : i \in {j \in DOMAIN s : s[j].id = id}}
Weight(f, id) == IF f.id = id THEN Len(f.entries) ELSE 0

\* A place in the load is a frame under the id and one of its entries.
LEMMA LoadPlaces ==
    ASSUME NEW s, NEW id
    PROVE  \A x : x \in Load(s, id) <=>
              \E j \in DOMAIN s : /\ s[j].id = id
                                  /\ x \in {j} \X DOMAIN s[j].entries
  BY DEF Load, Parcel

\* The places are finitely many.
LEMMA LoadFinite ==
    ASSUME NEW s \in Seq(Frames), NEW id
    PROVE  /\ IsFiniteSet(Load(s, id)) /\ Carried(s, id) = Cardinality(Load(s, id))
           /\ Carried(s, id) \in Nat
  <1>. DEFINE J == {j \in DOMAIN s : s[j].id = id}
              PP == {Parcel(s, i) : i \in J}
  <1>1. IsFiniteSet(J)
    <2>1. DOMAIN s = 1..Len(s) /\ Len(s) \in Nat
      OBVIOUS
    <2>2. IsFiniteSet(1..Len(s))
      BY <2>1, FS_Interval
    <2>. QED
      BY <2>1, <2>2, FS_Subset
  <1>2. IsFiniteSet(PP)
    <2>. DEFINE h == [i \in J |-> Parcel(s, i)]
    <2>1. h \in [J -> PP] /\ \A X \in PP : \E i \in J : h[i] = X
      OBVIOUS
    <2>. HIDE DEF h, J, PP
    <2>2. h \in Surjection(J, PP)
      BY <2>1, Zenon DEF Surjection
    <2>. QED
      BY <1>1, <2>2, FS_Surjection
  <1>3. \A i \in J : IsFiniteSet(Parcel(s, i))
    <2>. SUFFICES ASSUME NEW i \in J PROVE IsFiniteSet(Parcel(s, i))
      OBVIOUS
    <2>1. s[i] \in FrameOf(Ids)
      BY DEF Frames
    <2>2. DOMAIN s[i].entries = 1..Len(s[i].entries) /\ Len(s[i].entries) \in Nat
      BY <2>1, FrameFields
    <2>. DEFINE n == Len(s[i].entries)
    <2>3. n \in Nat
      BY <2>2
    <2>4. IsFiniteSet({i})
      BY FS_Singleton
    <2>. HIDE DEF n
    <2>5. IsFiniteSet(1..n)
      BY <2>3, FS_Interval
    <2>. QED
      BY <2>2, <2>4, <2>5, FS_Product DEF Parcel, n
  <1>4. IsFiniteSet(UNION PP)
    BY <1>2, <1>3, FS_UNION
  <1>5. IsFiniteSet(Load(s, id)) /\ Carried(s, id) = Cardinality(Load(s, id))
    BY <1>4 DEF Load, Carried
  <1>. QED
    BY <1>5, FS_CardinalityType

\* The places of one frame.
LEMMA ParcelSize ==
    ASSUME NEW j, NEW f \in Frames
    PROVE  /\ IsFiniteSet({j} \X DOMAIN f.entries)
           /\ Cardinality({j} \X DOMAIN f.entries) = Len(f.entries)
           /\ Len(f.entries) \in Nat
  <1>1. DOMAIN f.entries = 1..Len(f.entries) /\ Len(f.entries) \in Nat
    BY FrameFields DEF Frames
  <1>. DEFINE n == Len(f.entries)
  <1>2. n \in Nat
    BY <1>1
  <1>. HIDE DEF n
  <1>3. IsFiniteSet(1..n) /\ Cardinality(1..n) = n
    BY <1>2, FS_Interval
  <1>4. IsFiniteSet({j}) /\ Cardinality({j}) = 1
    BY FS_Singleton
  <1>5. IsFiniteSet({j} \X (1..n)) /\ Cardinality({j} \X (1..n)) = 1 * n
    BY <1>3, <1>4, FS_Product
  <1>. QED
    BY <1>1, <1>2, <1>5 DEF n

\* Nothing is on its way among frames that carry nothing.
LEMMA CarriedNone ==
    ASSUME NEW s, NEW id, \A k \in DOMAIN s : s[k].id = id => s[k].entries = <<>>
    PROVE  Carried(s, id) = 0
  <1>1. DOMAIN <<>> = {}
    OBVIOUS
  <1>2. Load(s, id) = {}
    BY <1>1, LoadPlaces
  <1>. QED
    BY <1>2, FS_EmptySet DEF Carried, Load

\* A frame that joins adds its records.
LEMMA CarriedJoin ==
    ASSUME NEW s \in Seq(Frames), NEW f \in Frames, NEW id
    PROVE  Carried(Append(s, f), id) = Carried(s, id) + Weight(f, id)
  <1>. DEFINE a == Append(s, f)
              n == Len(s) + 1
              X == {n} \X DOMAIN f.entries
  <1>1. /\ a \in Seq(Frames) /\ n \in DOMAIN a /\ a[n] = f
        /\ \A k \in DOMAIN s : k \in DOMAIN a /\ a[k] = s[k]
        /\ \A k \in DOMAIN a : k \in DOMAIN s \/ k = n
        /\ n \notin DOMAIN s
    <2>1. DOMAIN s = 1..Len(s) /\ Len(s) \in Nat
      OBVIOUS
    <2>2. n \notin DOMAIN s
      BY <2>1
    <2>. QED
      BY <2>2, Joined
  <1>2. /\ IsFiniteSet(Load(s, id)) /\ Carried(s, id) = Cardinality(Load(s, id))
        /\ Carried(s, id) \in Nat
        /\ Carried(a, id) = Cardinality(Load(a, id))
    BY <1>1, LoadFinite
  <1>. HIDE DEF a, n
  <1>3. CASE f.id = id
    <2>1. Load(a, id) = Load(s, id) \cup X
      <3>1. ASSUME NEW x, x \in Load(a, id)
            PROVE  x \in Load(s, id) \cup X
        <4>1. PICK j \in DOMAIN a : a[j].id = id /\ x \in {j} \X DOMAIN a[j].entries
          BY <3>1, LoadPlaces
        <4>2. CASE j \in DOMAIN s
          BY <1>1, <4>1, <4>2, LoadPlaces
        <4>3. CASE j = n
          BY <1>1, <4>1, <4>3
        <4>. QED
          BY <1>1, <4>2, <4>3
      <3>2. ASSUME NEW x, x \in Load(s, id)
            PROVE  x \in Load(a, id)
        <4>1. PICK j \in DOMAIN s : s[j].id = id /\ x \in {j} \X DOMAIN s[j].entries
          BY <3>2, LoadPlaces
        <4>. QED
          BY <1>1, <4>1, LoadPlaces
      <3>3. ASSUME NEW x, x \in X
            PROVE  x \in Load(a, id)
        BY <1>1, <1>3, <3>3, LoadPlaces
      <3>. QED
        BY <3>1, <3>2, <3>3
    <2>2. Load(s, id) \cap X = {}
      <3>1. ASSUME NEW x, x \in Load(s, id), x \in X
            PROVE  FALSE
        <4>1. PICK j \in DOMAIN s : x \in {j} \X DOMAIN s[j].entries
          BY <3>1, LoadPlaces
        <4>2. x[1] = j /\ x[1] = n
          BY <3>1, <4>1
        <4>. QED
          BY <1>1, <4>2
      <3>. QED
        BY <3>1
    <2>3. IsFiniteSet(X) /\ Cardinality(X) = Len(f.entries) /\ Len(f.entries) \in Nat
      BY ParcelSize
    <2>. HIDE DEF X
    <2>4. Cardinality(Load(a, id))
             = Cardinality(Load(s, id)) + Cardinality(X) - Cardinality({})
      BY <1>2, <2>1, <2>2, <2>3, FS_Union
    <2>5. Cardinality({}) = 0
      BY FS_EmptySet
    <2>6. Carried(a, id) = Carried(s, id) + Len(f.entries)
      BY <1>2, <2>3, <2>4, <2>5
    <2>. QED
      BY <1>3, <2>6 DEF Weight, a
  <1>4. CASE f.id # id
    <2>1. Load(a, id) = Load(s, id)
      <3>1. ASSUME NEW x, x \in Load(a, id)
            PROVE  x \in Load(s, id)
        <4>1. PICK j \in DOMAIN a : a[j].id = id /\ x \in {j} \X DOMAIN a[j].entries
          BY <3>1, LoadPlaces
        <4>2. j \in DOMAIN s
          BY <1>1, <1>4, <4>1
        <4>. QED
          BY <1>1, <4>1, <4>2, LoadPlaces
      <3>2. ASSUME NEW x, x \in Load(s, id)
            PROVE  x \in Load(a, id)
        <4>1. PICK j \in DOMAIN s : s[j].id = id /\ x \in {j} \X DOMAIN s[j].entries
          BY <3>2, LoadPlaces
        <4>. QED
          BY <1>1, <4>1, LoadPlaces
      <3>. QED
        BY <3>1, <3>2
    <2>2. Carried(a, id) = Carried(s, id) + 0
      BY <1>2, <2>1
    <2>. QED
      BY <1>4, <2>2 DEF Weight, a
  <1>. QED
    BY <1>3, <1>4

\* A frame that leaves takes its records with it.
LEMMA CarriedLeave ==
    ASSUME NEW s \in Seq(Frames), s # <<>>, NEW id
    PROVE  /\ Carried(s, id) = Weight(Head(s), id) + Carried(Tail(s), id)
           /\ Weight(Head(s), id) \in Nat
  <1>. DEFINE b == Tail(s)
              X == {1} \X DOMAIN s[1].entries
              T == {x \in Load(s, id) : x[1] # 1}
              R == Load(b, id)
              g == [x \in R |-> <<x[1] + 1, x[2]>>]
  <1>1. /\ 1 \in DOMAIN s /\ Head(s) = s[1] /\ Head(s) \in Frames /\ b \in Seq(Frames)
        /\ \A k \in DOMAIN b : k \in Nat /\ k >= 1 /\ k + 1 \in DOMAIN s /\ b[k] = s[k + 1]
        /\ \A k \in DOMAIN s : k # 1 => k - 1 \in DOMAIN b /\ b[k - 1] = s[k]
        /\ \A k \in DOMAIN s : k \in Nat
    BY Left
  <1>2. /\ IsFiniteSet(R) /\ Carried(b, id) = Cardinality(R) /\ Carried(b, id) \in Nat
        /\ IsFiniteSet(Load(s, id)) /\ Carried(s, id) = Cardinality(Load(s, id))
    BY <1>1, LoadFinite
  <1>3. IsFiniteSet(X) /\ Cardinality(X) = Len(Head(s).entries) /\ Len(Head(s).entries) \in Nat
    BY <1>1, ParcelSize
  <1>. HIDE DEF b
  <1>4. \A x \in R : x[1] \in Nat /\ x[1] >= 1 /\ x = <<x[1], x[2]>> /\ <<x[1] + 1, x[2]>> \in T
    <2>. SUFFICES ASSUME NEW x \in R
                  PROVE  /\ x[1] \in Nat /\ x[1] >= 1 /\ x = <<x[1], x[2]>>
                         /\ <<x[1] + 1, x[2]>> \in T
      OBVIOUS
    <2>1. PICK j \in DOMAIN b : b[j].id = id /\ x \in {j} \X DOMAIN b[j].entries
      BY LoadPlaces
    <2>2. x = <<j, x[2]>> /\ x[1] = j /\ x[2] \in DOMAIN b[j].entries
      BY <2>1
    <2>3. j \in Nat /\ j >= 1 /\ j + 1 \in DOMAIN s /\ b[j] = s[j + 1]
      BY <1>1
    <2>4. <<j + 1, x[2]>> \in {j + 1} \X DOMAIN s[j + 1].entries /\ s[j + 1].id = id
      BY <2>1, <2>2, <2>3
    <2>5. <<j + 1, x[2]>> \in Load(s, id)
      BY <2>3, <2>4, LoadPlaces
    <2>6. <<j + 1, x[2]>>[1] # 1
      BY <2>3
    <2>. QED
      BY <2>2, <2>3, <2>5, <2>6
  <1>5. \A y \in T : \E x \in R : y = <<x[1] + 1, x[2]>>
    <2>. SUFFICES ASSUME NEW y \in T PROVE \E x \in R : y = <<x[1] + 1, x[2]>>
      OBVIOUS
    <2>1. PICK j \in DOMAIN s : s[j].id = id /\ y \in {j} \X DOMAIN s[j].entries
      BY LoadPlaces
    <2>2. y = <<j, y[2]>> /\ y[1] = j /\ y[2] \in DOMAIN s[j].entries /\ j # 1
      BY <2>1
    <2>3. j - 1 \in DOMAIN b /\ b[j - 1] = s[j] /\ (j - 1) + 1 = j
      BY <1>1, <2>2
    <2>4. <<j - 1, y[2]>> \in {j - 1} \X DOMAIN b[j - 1].entries /\ b[j - 1].id = id
      BY <2>1, <2>2, <2>3
    <2>5. <<j - 1, y[2]>> \in R
      BY <2>3, <2>4, LoadPlaces
    <2>6. y = <<<<j - 1, y[2]>>[1] + 1, <<j - 1, y[2]>>[2]>>
      BY <2>2, <2>3
    <2>. QED
      BY <2>5, <2>6
  <1>6. g \in [R -> T] /\ \A x \in R : g[x] = <<x[1] + 1, x[2]>>
    BY <1>4
  <1>. HIDE DEF g
  <1>7. \A x, y \in R : g[x] = g[y] => x = y
    <2>. SUFFICES ASSUME NEW x \in R, NEW y \in R, g[x] = g[y] PROVE x = y
      OBVIOUS
    <2>1. <<x[1] + 1, x[2]>> = <<y[1] + 1, y[2]>>
      BY <1>6
    <2>2. x[1] + 1 = y[1] + 1 /\ x[2] = y[2]
      BY <2>1
    <2>3. x[1] \in Nat /\ y[1] \in Nat
      BY <1>4
    <2>4. \A m, n \in Nat : m + 1 = n + 1 => m = n
      OBVIOUS
    <2>5. x[1] = y[1]
      BY <2>2, <2>3, <2>4
    <2>. QED
      BY <1>4, <2>2, <2>5
  <1>8. \A y \in T : \E x \in R : g[x] = y
    BY <1>5, <1>6
  <1>9. ASSUME NEW x, x \in Load(s, id), x[1] = 1
        PROVE  s[1].id = id /\ x \in X
    <2>1. PICK j \in DOMAIN s : s[j].id = id /\ x \in {j} \X DOMAIN s[j].entries
      BY <1>9, LoadPlaces
    <2>2. j = 1
      BY <1>9, <2>1
    <2>. QED
      BY <2>1, <2>2
  <1>10. s[1].id = id => \A x \in X : x \in Load(s, id) /\ x[1] = 1
    BY <1>1, LoadPlaces
  <1>11. T \subseteq Load(s, id) /\ \A x \in T : x[1] # 1
    OBVIOUS
  <1>12. \A x \in Load(s, id) : x[1] # 1 => x \in T
    OBVIOUS
  <1>. HIDE DEF T, R
  <1>13. g \in Bijection(R, T)
    BY <1>6, <1>7, <1>8 DEF Bijection, Injection, Surjection, IsInjective
  <1>14. IsFiniteSet(T) /\ Cardinality(T) = Cardinality(R)
    BY <1>2, <1>13, FS_Bijection DEF ExistsBijection
  <1>15. CASE s[1].id = id
    <2>1. Load(s, id) = T \cup X /\ T \cap X = {}
      BY <1>9, <1>10, <1>11, <1>12, <1>15
    <2>. HIDE DEF X
    <2>2. Cardinality(Load(s, id)) = Cardinality(T) + Cardinality(X) - Cardinality({})
      BY <1>3, <1>14, <2>1, FS_Union
    <2>3. Cardinality({}) = 0
      BY FS_EmptySet
    <2>4. Weight(Head(s), id) = Len(Head(s).entries)
      BY <1>1, <1>15 DEF Weight
    <2>5. Carried(s, id) = Len(Head(s).entries) + Carried(b, id)
      BY <1>2, <1>3, <1>14, <2>2, <2>3
    <2>. QED
      BY <1>3, <2>4, <2>5 DEF b
  <1>16. CASE s[1].id # id
    <2>1. Load(s, id) = T
      BY <1>9, <1>11, <1>12, <1>16
    <2>2. Weight(Head(s), id) = 0
      BY <1>1, <1>16 DEF Weight
    <2>3. Carried(s, id) = 0 + Carried(b, id)
      BY <1>2, <1>14, <2>1
    <2>. QED
      BY <2>2, <2>3 DEF b
  <1>. QED
    BY <1>15, <1>16

-----------------------------------------------------------------------------
(* Counting the grants on their way under an id. *)

\* The grants are finitely many.
LEMMA PledgedType ==
    ASSUME NEW S, NEW s \in Seq(S), NEW k, NEW id
    PROVE  /\ IsFiniteSet(Grants(s, k, id)) /\ Pledged(s, k, id) = Cardinality(Grants(s, k, id))
           /\ Pledged(s, k, id) \in Nat
  <1>1. DOMAIN s = 1..Len(s) /\ Len(s) \in Nat
    OBVIOUS
  <1>2. IsFiniteSet(1..Len(s))
    BY <1>1, FS_Interval
  <1>3. IsFiniteSet(Grants(s, k, id))
    BY <1>1, <1>2, FS_Subset DEF Grants
  <1>. QED
    BY <1>3, FS_CardinalityType DEF Pledged

\* Nothing is granted behind the end, nor by other requests.
LEMMA PledgedNone ==
    ASSUME NEW s, NEW k, NEW id,
           \A j \in DOMAIN s : j > k => ~(s[j].kind = "credit" /\ s[j].id = id)
    PROVE  Pledged(s, k, id) = 0
  <1>1. Grants(s, k, id) = {}
    BY DEF Grants
  <1>. QED
    BY <1>1, FS_EmptySet DEF Pledged

Pledge(r, id) == IF r.kind = "credit" /\ r.id = id THEN 1 ELSE 0

\* A request that joins.
LEMMA PledgedJoin ==
    ASSUME NEW S, NEW s \in Seq(S), NEW r, NEW k \in 0..Len(s), NEW id
    PROVE  Pledged(Append(s, r), k, id) = Pledged(s, k, id) + Pledge(r, id)
  <1>. DEFINE a == Append(s, r)
              n == Len(s) + 1
  <1>1. /\ n \in DOMAIN a /\ a[n] = r /\ n > k
        /\ \A j \in DOMAIN s : j \in DOMAIN a /\ a[j] = s[j]
        /\ \A j \in DOMAIN a : j \in DOMAIN s \/ j = n
        /\ n \notin DOMAIN s
    <2>1. DOMAIN s = 1..Len(s) /\ Len(s) \in Nat
      OBVIOUS
    <2>2. n \notin DOMAIN s /\ n > k
      BY <2>1
    <2>. QED
      BY <2>2, Joined
  <1>2. /\ IsFiniteSet(Grants(s, k, id)) /\ Pledged(s, k, id) = Cardinality(Grants(s, k, id))
        /\ Pledged(s, k, id) \in Nat
    BY PledgedType
  <1>. HIDE DEF a, n
  <1>3. CASE r.kind = "credit" /\ r.id = id
    <2>1. Grants(a, k, id) = Grants(s, k, id) \cup {n} /\ n \notin Grants(s, k, id)
      BY <1>1, <1>3 DEF Grants
    <2>2. Pledged(a, k, id) = Pledged(s, k, id) + 1
      BY <1>2, <2>1, FS_AddElement DEF Pledged
    <2>. QED
      BY <1>3, <2>2 DEF Pledge, a
  <1>4. CASE ~(r.kind = "credit" /\ r.id = id)
    <2>1. Grants(a, k, id) = Grants(s, k, id)
      BY <1>1, <1>4 DEF Grants
    <2>2. Pledged(a, k, id) = Pledged(s, k, id) + 0
      BY <1>2, <2>1 DEF Pledged
    <2>. QED
      BY <1>4, <2>2 DEF Pledge, a
  <1>. QED
    BY <1>3, <1>4

\* A request that is taken: those behind it move up.
LEMMA PledgedLeave ==
    ASSUME NEW S, NEW s \in Seq(S), s # <<>>, NEW k \in Nat, k + 1 \in 1..Len(s), NEW id
    PROVE  Pledged(Tail(s), k, id) = Pledged(s, k + 1, id)
  <1>. DEFINE b == Tail(s)
              R == Grants(b, k, id)
              T == Grants(s, k + 1, id)
              g == [x \in R |-> x + 1]
  <1>1. /\ b \in Seq(S)
        /\ \A j \in DOMAIN b : j \in Nat /\ j + 1 \in DOMAIN s /\ b[j] = s[j + 1]
        /\ \A j \in DOMAIN s : j # 1 => j - 1 \in DOMAIN b /\ b[j - 1] = s[j]
        /\ \A j \in DOMAIN s : j \in Nat
    BY Left
  <1>2. IsFiniteSet(R)
    BY <1>1, PledgedType
  <1>. HIDE DEF b
  <1>3. \A x \in R : x \in Nat /\ x + 1 \in T
    BY <1>1 DEF Grants
  <1>4. \A y \in T : y - 1 \in R /\ y = (y - 1) + 1
    BY <1>1 DEF Grants
  <1>5. g \in [R -> T]
    BY <1>3
  <1>6. \A x, y \in R : g[x] = g[y] => x = y
    BY <1>3
  <1>7. \A y \in T : \E x \in R : g[x] = y
    BY <1>4
  <1>. HIDE DEF g, R, T
  <1>8. g \in Bijection(R, T)
    BY <1>5, <1>6, <1>7 DEF Bijection, Injection, Surjection, IsInjective
  <1>9. Cardinality(T) = Cardinality(R)
    BY <1>2, <1>8, FS_Bijection DEF ExistsBijection
  <1>. QED
    BY <1>9 DEF Pledged, R, T, b

\* The first request is one of those behind none.
LEMMA PledgedFirst ==
    ASSUME NEW S, NEW s \in Seq(S), s # <<>>, NEW id
    PROVE  Pledged(s, 0, id) = Pledge(Head(s), id) + Pledged(Tail(s), 0, id)
  <1>1. /\ 1 \in DOMAIN s /\ Head(s) = s[1] /\ Len(s) \in Nat \ {0}
        /\ \A j \in DOMAIN s : j \in Nat /\ j > 0 /\ (j > 1 \/ j = 1)
    BY Left
  <1>2. Pledged(Tail(s), 0, id) = Pledged(s, 1, id)
    <2>1. 0 + 1 \in 1..Len(s) /\ 0 + 1 = 1
      BY <1>1
    <2>. QED
      BY <2>1, PledgedLeave
  <1>3. /\ IsFiniteSet(Grants(s, 1, id)) /\ Pledged(s, 1, id) = Cardinality(Grants(s, 1, id))
        /\ Pledged(s, 1, id) \in Nat
    BY PledgedType
  <1>4. CASE Head(s).kind = "credit" /\ Head(s).id = id
    <2>1. Grants(s, 0, id) = Grants(s, 1, id) \cup {1} /\ 1 \notin Grants(s, 1, id)
      BY <1>1, <1>4 DEF Grants
    <2>2. Pledged(s, 0, id) = Pledged(s, 1, id) + 1
      BY <1>3, <2>1, FS_AddElement DEF Pledged
    <2>. QED
      BY <1>2, <1>3, <1>4, <2>2 DEF Pledge
  <1>5. CASE ~(Head(s).kind = "credit" /\ Head(s).id = id)
    <2>1. Grants(s, 0, id) = Grants(s, 1, id)
      BY <1>1, <1>5 DEF Grants
    <2>2. Pledged(s, 0, id) = Pledged(s, 1, id)
      BY <2>1 DEF Pledged
    <2>. QED
      BY <1>2, <1>3, <1>5, <2>2 DEF Pledge
  <1>. QED
    BY <1>4, <1>5

-----------------------------------------------------------------------------
(* The ring and the records of the log. *)

\* The records of the log in a range.
LEMMA BetweenType ==
    ASSUME log \in Seq(Patches), NEW from \in Nat, NEW to \in Nat, from <= to, to <= Len(log)
    PROVE  /\ EntriesBetween(from, to) \in Seq(Entries)
           /\ Len(EntriesBetween(from, to)) = to - from
           /\ DOMAIN EntriesBetween(from, to) = 1..(to - from)
           /\ \A i \in 1..(to - from) :
                 /\ EntriesBetween(from, to)[i].version = from + i
                 /\ EntriesBetween(from, to)[i].patch = log[from + i]
  <1>. DEFINE n == to - from
              E(i) == [version |-> from + i, patch |-> log[from + i]]
  <1>1. n \in Nat /\ Len(log) \in Nat
    OBVIOUS
  <1>2. \A i \in 1..n : from + i \in 1..Len(log) /\ from + i \in Nat
    OBVIOUS
  <1>3. \A v \in 1..Len(log) : log[v] \in Patches
    OBVIOUS
  <1>4. \A i \in 1..n : E(i) \in Entries /\ E(i).version = from + i /\ E(i).patch = log[from + i]
    BY <1>2, <1>3 DEF Entries
  <1>5. EntriesBetween(from, to) = [i \in 1..n |-> E(i)]
    BY DEF EntriesBetween
  <1>. HIDE DEF n, E
  <1>6. /\ [i \in 1..n |-> E(i)] \in Seq(Entries) /\ Len([i \in 1..n |-> E(i)]) = n
        /\ DOMAIN [i \in 1..n |-> E(i)] = 1..n
        /\ \A v \in 1..n : [i \in 1..n |-> E(i)][v] = E(v)
    BY <1>1, <1>4
  <1>. QED
    BY <1>4, <1>5, <1>6 DEF n

\* The records of the log behind a version.
Follows(es, L, p) ==
    \A i \in 1..Len(es) : es[i].version = p + i /\ es[i].patch = L[p + i]

\* Records that follow the ring push the oldest out of it, and leave no hole.
LEMMA MirrorsPush ==
    ASSUME NEW rg \in Seq(Entries), NEW es \in Seq(Entries), NEW L, NEW base \in Nat,
           Mirrors(rg, L, base), NEW end, base + Len(rg) = end,
           Follows(es, L, end)
    PROVE  /\ RingPush(rg, es) \in Seq(Entries)
           /\ \E b \in Nat : /\ Mirrors(RingPush(rg, es), L, b)
                             /\ b + Len(RingPush(rg, es)) = end + Len(es)
  <1>. DEFINE all == rg \o es
  <1>1. /\ all \in Seq(Entries) /\ Len(all) = Len(rg) + Len(es)
        /\ Len(rg) \in Nat /\ Len(es) \in Nat
        /\ DOMAIN all = 1..Len(all) /\ DOMAIN rg = 1..Len(rg)
        /\ \A i \in 1..Len(rg) : all[i] = rg[i]
        /\ \A i \in 1..Len(es) : all[Len(rg) + i] = es[i]
    OBVIOUS
  <1>2. RingPush(rg, es) =
           IF Len(all) <= RingCapacity THEN all
           ELSE SubSeq(all, Len(all) - RingCapacity + 1, Len(all))
    BY DEF RingPush
  <1>. HIDE DEF all
  <1>3. \A i \in 1..Len(all) : all[i].version = base + i /\ all[i].patch = L[base + i]
    <2>. SUFFICES ASSUME NEW i \in 1..Len(all)
                  PROVE  all[i].version = base + i /\ all[i].patch = L[base + i]
      OBVIOUS
    <2>1. CASE i \in 1..Len(rg)
      BY <1>1, <2>1 DEF Mirrors
    <2>2. CASE i \notin 1..Len(rg)
      <3>1. /\ i - Len(rg) \in 1..Len(es) /\ i = Len(rg) + (i - Len(rg))
            /\ end + (i - Len(rg)) = base + i
        BY <1>1, <2>2
      <3>2. all[i] = es[i - Len(rg)]
        BY <1>1, <3>1
      <3>. QED
        BY <3>1, <3>2 DEF Follows
    <2>. QED
      BY <2>1, <2>2
  <1>4. CASE Len(all) <= RingCapacity
    <2>1. Mirrors(all, L, base) /\ base + Len(all) = end + Len(es)
      BY <1>1, <1>3 DEF Mirrors
    <2>2. RingPush(rg, es) = all
      BY <1>2, <1>4
    <2>. QED
      BY <1>1, <2>1, <2>2
  <1>5. CASE ~(Len(all) <= RingCapacity)
    <2>. DEFINE k == Len(all) - RingCapacity
                cut == SubSeq(all, k + 1, Len(all))
    <2>1. /\ k \in Nat /\ k <= Len(all) /\ Len(all) \in Nat
          /\ Len(all) - k = RingCapacity /\ RingCapacity \in Nat \ {0}
      BY <1>1, <1>5, RingCapacityAssumption
    <2>2. RingPush(rg, es) = cut
      BY <1>2, <1>5
    <2>. HIDE DEF k
    <2>3. /\ Len(cut) = Len(all) - k /\ DOMAIN cut = 1..(Len(all) - k)
          /\ cut \in Seq(Entries)
          /\ \A i \in 1..(Len(all) - k) : cut[i] = all[k + i]
      BY <1>1, <2>1
    <2>. HIDE DEF cut
    <2>4. \A i \in 1..(Len(all) - k) : k + i \in 1..Len(all) /\ base + (k + i) = (base + k) + i
      BY <2>1
    <2>5. Mirrors(cut, L, base + k)
      <3>. SUFFICES ASSUME NEW i \in 1..(Len(all) - k)
                    PROVE  cut[i].version = (base + k) + i /\ cut[i].patch = L[(base + k) + i]
        BY <2>3 DEF Mirrors
      <3>1. cut[i].version = base + (k + i) /\ cut[i].patch = L[base + (k + i)]
        BY <1>3, <2>3, <2>4
      <3>. QED
        BY <2>4, <3>1
    <2>6. base + k \in Nat /\ (base + k) + Len(cut) = end + Len(es)
      BY <1>1, <2>1, <2>3
    <2>. QED
      BY <2>2, <2>3, <2>5, <2>6
  <1>. QED
    BY <1>4, <1>5

\* A read of the ring behind a cursor is the log behind it.
LEMMA MirrorsRead ==
    ASSUME NEW rg \in Seq(Entries), NEW L, NEW base \in Nat, Mirrors(rg, L, base),
           Len(L) \in Nat, base + Len(rg) <= Len(L),
           NEW c \in Nat, ~TooOld(rg, c), RingReadAfter(rg, c, 1) # <<>>,
           NEW n \in Nat \ {0}, NEW es, es = RingReadAfter(rg, c, n)
    PROVE  /\ es \in Seq(Entries) /\ es # <<>> /\ Len(es) \in 1..n
           /\ c + Len(es) <= Len(L)
           /\ \A i \in 1..Len(es) : es[i].version = c + i /\ es[i].patch = L[c + i]
  <1>. DEFINE m == Len(rg)
              k == c - base
              last == IF k + n < m THEN k + n ELSE m
  <1>1. m \in Nat /\ m # 0 /\ rg # <<>> /\ 1 \in DOMAIN rg /\ DOMAIN rg = 1..m
    <2>1. rg # <<>>
      BY DEF RingReadAfter
    <2>. QED
      BY <2>1
  <1>2. RingOldest(rg) = base + 1
    BY <1>1 DEF RingOldest, Mirrors
  <1>3. ~(c + 1 < base + 1)
    BY <1>1, <1>2 DEF TooOld
  <1>4. k \in Nat /\ c + 1 - (base + 1) = k /\ c = base + k
    BY <1>3
  <1>5. \A l : RingReadAfter(rg, c, l) =
                  SubSeq(rg, k + 1, IF k + l < m THEN k + l ELSE m)
    BY <1>1, <1>2, <1>4 DEF RingReadAfter
  <1>. HIDE DEF m, k
  <1>6. k < m
    <2>1. CASE ~(k < m)
      <3>1. ~(k + 1 < m) /\ m < k + 1
        BY <1>1, <1>4, <2>1
      <3>2. RingReadAfter(rg, c, 1) = SubSeq(rg, k + 1, m)
        BY <1>5, <3>1
      <3>3. SubSeq(rg, k + 1, m) = <<>>
        BY <1>1, <1>4, <3>1 DEF m
      <3>. QED
        BY <3>2, <3>3
    <2>. QED
      BY <2>1
  <1>7. last \in Nat /\ last <= m /\ last - k \in 1..n
    BY <1>1, <1>4, <1>6
  <1>8. es = SubSeq(rg, k + 1, last)
    BY <1>5
  <1>. HIDE DEF last
  <1>9. /\ es \in Seq(Entries) /\ Len(es) = last - k
        /\ \A i \in 1..(last - k) : es[i] = rg[k + i]
    <2>1. \A s \in Seq(Entries), a, b \in Nat, e \in {es} :
             a <= b /\ b <= Len(s) /\ e = SubSeq(s, a + 1, b) =>
                /\ e \in Seq(Entries) /\ Len(e) = b - a
                /\ \A i \in 1..(b - a) : e[i] = s[a + i]
      OBVIOUS
    <2>2. k <= last /\ last <= Len(rg)
      BY <1>1, <1>4, <1>7 DEF m
    <2>. QED
      BY <1>4, <1>7, <1>8, <2>1, <2>2, Zenon
  <1>10. \A i \in 1..(last - k) : k + i \in 1..m /\ base + (k + i) = c + i
    BY <1>1, <1>4, <1>7
  <1>11. \A i \in 1..(last - k) : es[i].version = c + i /\ es[i].patch = L[c + i]
    BY <1>1, <1>9, <1>10 DEF Mirrors
  <1>12. es # <<>> /\ c + Len(es) <= Len(L)
    BY <1>1, <1>4, <1>7, <1>9 DEF m
  <1>. QED
    BY <1>7, <1>9, <1>11, <1>12

-----------------------------------------------------------------------------
(* What the steps of a stream task do to it. *)

\* Only t changes among the tasks.
Others(t) ==
    /\ task' \in [Tasks -> TaskStates]
    /\ \A u \in Tasks : u # t => task'[u] = task[u]

\* It keeps its stream, and the credit it was given.
Kept(t) ==
    /\ Others(t)
    /\ task'[t].id = task[t].id /\ task'[t].granted = task[t].granted
    /\ task'[t].cursor = task[t].cursor /\ task'[t].used = task[t].used

Strolling == {"loop", "starved", "waiting", "dry", "reading", "asking"}

\* It looks, waits, asks, or leaves the loop.
Strolls(t) ==
    /\ Kept(t)
    /\ task[t].pc \in Strolling
    /\ task'[t].pc \in Strolling \cup {"exit"}
    /\ task'[t].seenFlow <= task[t].granted
    /\ task'[t].pc \in {"reading", "asking"} => task[t].used < task'[t].seenFlow
    /\ task'[t].pc = "exit" => ~Open(t)
    /\ UNCHANGED <<table, out, failures>>

\* It has something to say that continues where it stands.
Prepares(t) ==
    /\ Others(t)
    /\ task'[t].id = task[t].id /\ task'[t].granted = task[t].granted
    /\ task[t].pc \in {"reading", "asking", "viewing"} /\ task'[t].pc = "sending"
    /\ task'[t].frame \in Frames
    /\ task'[t].frame.kind \in {"view", "records", "gap", "error"}
    /\ task'[t].frame.id = task[t].id
    /\ Fits(log, task'[t].frame, task[t].cursor)
    /\ task'[t].cursor = Moved(task'[t].frame, task[t].cursor)
    /\ task'[t].used = task[t].used + Len(task'[t].frame.entries)
    /\ task'[t].used <= task[t].granted
    /\ task'[t].seenFlow = task[t].seenFlow
    /\ task'[t].frame.kind = "gap" => task'[t].frame.to < floor
    /\ \/ task'[t].then = "loop" /\ failures' = failures
       \/ task'[t].then = "exit" /\ failures' = failures + 1
    /\ UNCHANGED <<table, out>>

\* It has said it, or there is nobody to hear.
Sends(t) ==
    /\ Kept(t)
    /\ task[t].pc = "sending" /\ task'[t].seenFlow = task[t].seenFlow
    /\ \/ /\ writing /\ Len(out) < OutboxCapacity
          /\ out' = Append(out, task[t].frame) /\ task'[t].pc = task[t].then
       \/ ~writing /\ out' = out /\ task'[t].pc = "exit"
    /\ UNCHANGED <<table, failures>>

Forgets(t) ==
    /\ Kept(t)
    /\ task[t].pc = "exit" /\ task'[t].pc = "ending" /\ task'[t].seenFlow = task[t].seenFlow
    /\ table' = [table EXCEPT ![task[t].id] = None]
    /\ UNCHANGED <<out, failures>>

Ends(t) ==
    /\ Others(t)
    /\ task[t].pc = "ending" /\ task'[t].pc = "done"
    /\ \/ /\ writing /\ Len(out) < OutboxCapacity
          /\ out' = Append(out, Plain("end", task[t].id))
       \/ ~writing /\ out' = out
    /\ UNCHANGED <<table, failures>>

TaskStep(t) ==
    /\ TaskFrame
    /\ \/ Strolls(t) \/ Prepares(t) \/ Sends(t) \/ Forgets(t) \/ Ends(t)

-----------------------------------------------------------------------------
(* The fields the steps of a task write. *)

LEMMA TaskSet ==
    ASSUME task \in [Tasks -> TaskStates], NEW t \in Tasks, NEW s \in TaskStates,
           task' = [task EXCEPT ![t] = s]
    PROVE  Others(t) /\ task'[t] = s
  BY DEF Others

LEMMA TaskGoto ==
    ASSUME task \in [Tasks -> TaskStates], NEW t \in Tasks, NEW pc \in Places, Goto(t, pc)
    PROVE  /\ Kept(t) /\ task'[t].pc = pc /\ task'[t].seenFlow = task[t].seenFlow
  <1>. DEFINE s == [task[t] EXCEPT !.pc = pc]
  <1>1. task[t] \in TaskStates
    OBVIOUS
  <1>2. s \in TaskStates
    BY <1>1 DEF TaskStates
  <1>3. /\ s.pc = pc /\ s.seenFlow = task[t].seenFlow
        /\ s.id = task[t].id /\ s.granted = task[t].granted
        /\ s.cursor = task[t].cursor /\ s.used = task[t].used
    BY <1>1 DEF TaskStates
  <1>4. task' = [task EXCEPT ![t] = s]
    BY DEF Goto
  <1>. HIDE DEF s
  <1>5. Others(t) /\ task'[t] = s
    BY <1>2, <1>4, TaskSet
  <1>. QED
    BY <1>3, <1>5 DEF Kept

LEMMA TaskThen ==
    ASSUME task \in [Tasks -> TaskStates], NEW t \in Tasks, NEW f \in Frames,
           NEW pc \in {"done", "loop", "exit"}, NEW c \in Nat, NEW n \in Nat,
           Then(t, f, pc, c, n)
    PROVE  /\ Others(t)
           /\ task'[t].id = task[t].id /\ task'[t].granted = task[t].granted
           /\ task'[t].seenFlow = task[t].seenFlow
           /\ task'[t].pc = "sending" /\ task'[t].then = pc /\ task'[t].frame = f
           /\ task'[t].cursor = c /\ task'[t].used = n
  <1>. DEFINE s == [task[t] EXCEPT !.pc = "sending", !.frame = f, !.then = pc,
                                   !.cursor = c, !.used = n]
  <1>1. task[t] \in TaskStates /\ f \in FrameOf(Ids \cup {None}) /\ "sending" \in Places
    BY FrameFields, FrameOfId DEF Frames, Places
  <1>2. s \in TaskStates
    BY <1>1 DEF TaskStates
  <1>3. /\ s.id = task[t].id /\ s.granted = task[t].granted /\ s.seenFlow = task[t].seenFlow
        /\ s.pc = "sending" /\ s.then = pc /\ s.frame = f /\ s.cursor = c /\ s.used = n
    BY <1>1 DEF TaskStates
  <1>4. task' = [task EXCEPT ![t] = s]
    BY DEF Then
  <1>. HIDE DEF s
  <1>5. Others(t) /\ task'[t] = s
    BY <1>2, <1>4, TaskSet
  <1>. QED
    BY <1>3, <1>5

\* A task that looks knows all its credit, and has some left if it goes on.
LEMMA LookEffects ==
    ASSUME Shaped, Tasking, NEW t \in Tasks, Look(t)
    PROVE  Strolls(t)
  <1>. DEFINE pc == IF task[t].used >= task[t].granted THEN "starved"
                    ELSE IF task[t].cursor >= published THEN "waiting" ELSE "reading"
              mark == IF task[t].used >= task[t].granted THEN task[t].seenMark ELSE published
              s == [task[t] EXCEPT !.seenFlow = task[t].granted, !.seenMark = mark, !.pc = pc]
  <1>1. /\ task \in [Tasks -> TaskStates] /\ task[t] \in TaskStates /\ published \in Nat
        /\ task[t].used \in Nat /\ task[t].granted \in Nat
    BY DEF Shaped, TaskStates
  <1>2. pc \in Places /\ mark \in Nat /\ pc \in Strolling
    BY <1>1 DEF Places, TaskStates, Strolling
  <1>3. pc \in {"reading", "asking"} => task[t].used < task[t].granted
    BY <1>1
  <1>4. task' = [task EXCEPT ![t] = s]
    BY DEF Look
  <1>. HIDE DEF pc, mark
  <1>5. s \in TaskStates
    BY <1>1, <1>2 DEF TaskStates
  <1>6. /\ s.id = task[t].id /\ s.granted = task[t].granted /\ s.cursor = task[t].cursor
        /\ s.used = task[t].used /\ s.pc = pc /\ s.seenFlow = task[t].granted
    BY <1>1 DEF TaskStates
  <1>. HIDE DEF s
  <1>7. Others(t) /\ task'[t] = s
    BY <1>1, <1>4, <1>5, TaskSet
  <1>8. Kept(t)
    BY <1>6, <1>7 DEF Kept
  <1>9. task[t].pc \in Strolling /\ UNCHANGED <<table, out, failures>>
    BY DEF Look, At, Internal, Strolling
  <1>10. task'[t].pc # "exit" /\ task'[t].seenFlow <= task[t].granted
    BY <1>1, <1>2, <1>6, <1>7 DEF Strolling
  <1>. QED
    BY <1>2, <1>3, <1>6, <1>7, <1>8, <1>9, <1>10 DEF Strolls

LEMMA WakeEffects ==
    ASSUME Shaped, Tasking, NEW t \in Tasks, Wake(t) \/ Leave(t)
    PROVE  Strolls(t)
  <1>1. task \in [Tasks -> TaskStates] /\ task[t].seenFlow <= task[t].granted
    <2>1. Alive(t)
      BY DEF Alive, Wake, Leave
    <2>. QED
      BY <2>1 DEF Shaped, Tasking, Tasked
  <1>2. task[t].pc \in Strolling /\ UNCHANGED <<table, out, failures>>
    BY DEF Wake, Leave, Internal, Strolling
  <1>3. CASE Wake(t)
    <2>1. "loop" \in Places /\ Goto(t, "loop")
      BY <1>3 DEF Wake, Places
    <2>2. Kept(t) /\ task'[t].pc = "loop" /\ task'[t].seenFlow = task[t].seenFlow
      BY <1>1, <2>1, TaskGoto
    <2>. QED
      BY <1>1, <1>2, <2>2 DEF Strolls, Strolling
  <1>4. CASE Leave(t)
    <2>1. "exit" \in Places /\ Goto(t, "exit") /\ ~Open(t)
      BY <1>4 DEF Leave, Places
    <2>2. Kept(t) /\ task'[t].pc = "exit" /\ task'[t].seenFlow = task[t].seenFlow
      BY <1>1, <2>1, TaskGoto
    <2>. QED
      BY <1>1, <1>2, <2>1, <2>2 DEF Strolls
  <1>. QED
    BY <1>3, <1>4

\* Asking the actor, or learning that there is nothing.
LEMMA AskEffects ==
    ASSUME Shaped, Tasking, NEW t \in Tasks, task[t].pc \in {"reading", "asking"},
           NEW pc \in {"asking", "dry"}, Goto(t, pc), UNCHANGED <<table, out, failures>>
    PROVE  Strolls(t)
  <1>1. /\ task \in [Tasks -> TaskStates] /\ task[t].seenFlow <= task[t].granted
        /\ task[t].used < task[t].seenFlow
    <2>1. Alive(t)
      BY DEF Alive
    <2>. QED
      BY <2>1 DEF Shaped, Tasking, Tasked
  <1>2. pc \in Places /\ pc \in Strolling /\ pc # "exit" /\ task[t].pc \in Strolling
    BY DEF Places, Strolling
  <1>3. Kept(t) /\ task'[t].pc = pc /\ task'[t].seenFlow = task[t].seenFlow
    BY <1>1, <1>2, TaskGoto
  <1>. QED
    BY <1>1, <1>2, <1>3 DEF Strolls

\* The records a push takes are the log behind the cursor, within the allowance.
LEMMA PushEffects ==
    ASSUME Shaped, Tasking, NEW t \in Tasks, task[t].pc \in {"reading", "asking"},
           NEW es \in Seq(Entries), es # <<>>, Len(es) <= Allowance(t),
           task[t].cursor + Len(es) <= Len(log),
           \A i \in 1..Len(es) : /\ es[i].version = task[t].cursor + i
                                 /\ es[i].patch = log[task[t].cursor + i],
           Push(t, es), UNCHANGED <<table, out, failures>>
    PROVE  Prepares(t)
  <1>. DEFINE c == task[t].cursor
              n == Len(es)
  <1>1. Alive(t)
    BY DEF Alive
  <1>2. /\ task \in [Tasks -> TaskStates] /\ task[t] \in TaskStates /\ task[t].id \in Ids
        /\ task[t].seenFlow <= task[t].granted /\ task[t].used < task[t].seenFlow
    BY <1>1 DEF Shaped, Tasking, Tasked
  <1>3. /\ c \in Nat /\ task[t].used \in Nat /\ task[t].seenFlow \in Nat
        /\ task[t].granted \in Nat
    BY <1>2 DEF TaskStates
  <1>4. n \in Nat /\ n # 0 /\ DOMAIN es = 1..n /\ n \in 1..n
    OBVIOUS
  <1>5. es[n].version = c + n
    BY <1>4
  <1>6. n <= task[t].seenFlow - task[t].used
    BY <1>3, <1>4, SubscriptionAssumption DEF Allowance, Smaller
  <1>. DEFINE f == Frame("records", task[t].id, c, c + n, es)
  <1>7. /\ f \in Frames /\ f.kind = "records" /\ f.id = task[t].id /\ f.to = c + n
        /\ f.entries = es
    <2>1. "records" \in Kinds /\ c + n \in Nat
      BY <1>3, <1>4 DEF Kinds
    <2>. QED
      BY <1>2, <1>3, <2>1 DEF Frame, Frames, FrameOf
  <1>8. Then(t, f, "loop", c + n, task[t].used + n)
    BY <1>5 DEF Push
  <1>. HIDE DEF f, c, n
  <1>9. /\ Others(t)
        /\ task'[t].id = task[t].id /\ task'[t].granted = task[t].granted
        /\ task'[t].seenFlow = task[t].seenFlow
        /\ task'[t].pc = "sending" /\ task'[t].then = "loop" /\ task'[t].frame = f
        /\ task'[t].cursor = c + n /\ task'[t].used = task[t].used + n
    <2>1. c + n \in Nat /\ task[t].used + n \in Nat
      BY <1>3, <1>4
    <2>. QED
      BY <1>2, <1>7, <1>8, <2>1, TaskThen
  <1>10. Fits(log, f, c) /\ Moved(f, c) = c + n
    BY <1>4, <1>7 DEF Fits, Moved, c, n
  <1>11. task[t].used + n <= task[t].granted
    BY <1>2, <1>3, <1>4, <1>6
  <1>12. Len(f.entries) = n
    BY <1>7 DEF n
  <1>13. Fits(log, task'[t].frame, task[t].cursor)
         /\ task'[t].cursor = Moved(task'[t].frame, task[t].cursor)
    BY <1>9, <1>10 DEF c
  <1>. QED
    BY <1>7, <1>9, <1>11, <1>12, <1>13 DEF Prepares

\* An allowance leaves room for one record.
LEMMA AllowanceType ==
    ASSUME Shaped, Tasking, NEW t \in Tasks, task[t].pc \in {"reading", "asking"}
    PROVE  Allowance(t) \in Nat \ {0}
  <1>1. Alive(t)
    BY DEF Alive
  <1>2. task[t] \in TaskStates /\ task[t].used < task[t].seenFlow
    BY <1>1 DEF Shaped, Tasking, Tasked
  <1>3. task[t].used \in Nat /\ task[t].seenFlow \in Nat
    BY <1>2 DEF TaskStates
  <1>. QED
    BY <1>2, <1>3, SubscriptionAssumption DEF Allowance, Smaller

LEMMA ReadEffects ==
    ASSUME Shaped, Bounded, Windowed, Tasking, NEW t \in Tasks, ReadRing(t)
    PROVE  Strolls(t) \/ Prepares(t)
  <1>. DEFINE c == task[t].cursor
  <1>1. /\ task[t].pc = "reading" /\ task[t].pc \in {"reading", "asking"}
        /\ UNCHANGED <<table, out, failures>>
    BY DEF ReadRing, At, Internal
  <1>2. CASE TooOld(ring, c) \/ RingReadAfter(ring, c, 1) = <<>>
    <2>1. Goto(t, "asking")
      BY <1>2 DEF ReadRing
    <2>. QED
      BY <1>1, <2>1, AskEffects
  <1>3. CASE ~(TooOld(ring, c) \/ RingReadAfter(ring, c, 1) = <<>>)
    <2>1. PICK n \in 1..Allowance(t) : Push(t, RingReadAfter(ring, c, n))
      BY <1>3 DEF ReadRing
    <2>2. n \in Nat \ {0} /\ n <= Allowance(t) /\ Allowance(t) \in Nat
      BY <1>1, AllowanceType
    <2>3. PICK es : es = RingReadAfter(ring, c, n)
      OBVIOUS
    <2>4. ring # <<>>
      BY <1>3 DEF RingReadAfter
    <2>5. PICK base \in Nat : /\ Mirrors(ring, log, base)
                              /\ base + Len(ring) \in {published, Len(log)}
      BY <2>4 DEF Windowed
    <2>6. /\ ring \in Seq(Entries) /\ Len(log) \in Nat /\ base + Len(ring) <= Len(log)
          /\ c \in Nat
      <3>1. Len(log) \in Nat
        BY DEF Shaped
      <3>. QED
        BY <2>5, <3>1 DEF Shaped, Bounded, TaskStates
    <2>. HIDE DEF c
    <2>7. /\ es \in Seq(Entries) /\ es # <<>> /\ Len(es) \in 1..n
          /\ c + Len(es) <= Len(log)
          /\ \A i \in 1..Len(es) : es[i].version = c + i /\ es[i].patch = log[c + i]
      BY <1>3, <2>2, <2>3, <2>5, <2>6, MirrorsRead
    <2>8. Push(t, es) /\ Len(es) <= Allowance(t)
      BY <2>1, <2>2, <2>3, <2>7
    <2>. QED
      BY <1>1, <2>7, <2>8, PushEffects DEF c
  <1>. QED
    BY <1>2, <1>3

\* The records of a catch-up, a gap up to the floor, or nothing.
LEMMA CatchUpEffects ==
    ASSUME Shaped, Bounded, Tasking, NEW t \in Tasks, AnswerCatchUp(t)
    PROVE  Strolls(t) \/ Prepares(t)
  <1>. DEFINE c == task[t].cursor
              n == Allowance(t)
  <1>1. /\ task[t].pc = "asking" /\ task[t].pc \in {"reading", "asking"} /\ Alive(t)
        /\ UNCHANGED <<table, out, failures>>
    BY DEF AnswerCatchUp, At, Internal, Alive
  <1>2. n \in Nat \ {0}
    BY <1>1, AllowanceType
  <1>3. /\ task \in [Tasks -> TaskStates] /\ task[t] \in TaskStates /\ task[t].id \in Ids
        /\ log \in Seq(Patches) /\ Len(log) \in Nat /\ floor \in Nat
        /\ task[t].used <= task[t].granted
    BY <1>1 DEF Shaped, Tasking, Tasked
  <1>4. c \in Nat /\ task[t].used \in Nat
    BY <1>3 DEF TaskStates
  <1>5. CASE c + 1 < floor
    <2>. DEFINE f == Frame("gap", task[t].id, c, floor - 1, <<>>)
    <2>1. CatchUp(c, n) = [kind |-> "gap", to |-> floor - 1, entries |-> <<>>]
      BY <1>3, <1>4, <1>5 DEF CatchUp
    <2>2. Then(t, f, "loop", floor - 1, task[t].used)
      BY <2>1 DEF AnswerCatchUp
    <2>3. floor - 1 \in Nat /\ floor - 1 > c /\ floor - 1 < floor
      BY <1>3, <1>4, <1>5
    <2>4. /\ f \in Frames /\ f.kind = "gap" /\ f.id = task[t].id /\ f.from = c
          /\ f.to = floor - 1 /\ f.entries = <<>>
      <3>1. "gap" \in Kinds /\ <<>> \in Seq(Entries)
        BY DEF Kinds
      <3>. QED
        BY <1>3, <1>4, <2>3, <3>1 DEF Frame, Frames, FrameOf
    <2>. HIDE DEF f
    <2>5. /\ Others(t)
          /\ task'[t].id = task[t].id /\ task'[t].granted = task[t].granted
          /\ task'[t].seenFlow = task[t].seenFlow
          /\ task'[t].pc = "sending" /\ task'[t].then = "loop" /\ task'[t].frame = f
          /\ task'[t].cursor = floor - 1 /\ task'[t].used = task[t].used
      BY <1>3, <1>4, <2>2, <2>3, <2>4, TaskThen
    <2>6. Fits(log, f, c) /\ Moved(f, c) = floor - 1
      BY <2>3, <2>4 DEF Fits, Moved
    <2>7. Len(f.entries) = 0 /\ task[t].used + 0 = task[t].used
      BY <1>4, <2>4
    <2>8. Fits(log, task'[t].frame, c) /\ task'[t].cursor = Moved(task'[t].frame, c)
      BY <2>5, <2>6
    <2>. QED
      BY <1>1, <1>3, <2>3, <2>4, <2>5, <2>7, <2>8 DEF Prepares
  <1>6. CASE ~(c + 1 < floor) /\ c < Len(log)
    <2>. DEFINE to == Smaller(c + n, Len(log))
                es == EntriesBetween(c, to)
    <2>1. c + 1 >= floor
      BY <1>3, <1>4, <1>6
    <2>2. CatchUp(c, n) = [kind |-> "records", to |-> 0, entries |-> StoredAfter(c, n)]
      BY <1>6, <2>1 DEF CatchUp
    <2>3. Push(t, es)
      BY <2>2 DEF AnswerCatchUp, StoredAfter
    <2>4. to \in Nat /\ c < to /\ to <= Len(log) /\ to - c <= n /\ to - c \in 1..n
      BY <1>2, <1>3, <1>4, <1>6 DEF Smaller
    <2>. HIDE DEF to, c, n
    <2>5. c \in Nat /\ c <= to
      BY <1>4, <2>4
    <2>6. /\ es \in Seq(Entries) /\ Len(es) = to - c
          /\ \A i \in 1..(to - c) : es[i].version = c + i /\ es[i].patch = log[c + i]
      BY <1>3, <2>4, <2>5, BetweenType
    <2>. HIDE DEF es
    <2>7. es # <<>> /\ Len(es) <= n /\ c + Len(es) <= Len(log)
      BY <1>3, <2>4, <2>5, <2>6
    <2>8. \A i \in 1..Len(es) : es[i].version = c + i /\ es[i].patch = log[c + i]
      BY <2>6
    <2>. QED
      BY <1>1, <2>3, <2>6, <2>7, <2>8, PushEffects DEF c, n
  <1>7. CASE ~(c + 1 < floor) /\ ~(c < Len(log))
    <2>1. CatchUp(c, n) = [kind |-> "empty", to |-> 0, entries |-> <<>>]
      BY <1>3, <1>4, <1>7 DEF CatchUp
    <2>2. Goto(t, "dry")
      BY <2>1 DEF AnswerCatchUp
    <2>. QED
      BY <1>1, <2>2, AskEffects
  <1>. QED
    BY <1>5, <1>6, <1>7

\* A frame without records or gap, sent from where the task stands.
LEMMA SayEffects ==
    ASSUME Shaped, Tasking, NEW t \in Tasks, task[t].pc \in {"reading", "asking", "viewing"},
           NEW f \in Frames, f.id = task[t].id, f.kind \in {"view", "error"},
           NEW pc, NEW c \in Nat, c = Moved(f, task[t].cursor),
           \/ pc = "loop" /\ failures' = failures
           \/ pc = "exit" /\ failures' = failures + 1,
           Then(t, f, pc, c, task[t].used), UNCHANGED <<table, out>>
    PROVE  Prepares(t)
  <1>1. Alive(t)
    BY DEF Alive
  <1>2. /\ task \in [Tasks -> TaskStates] /\ task[t] \in TaskStates
        /\ task[t].used <= task[t].granted /\ task[t].used \in Nat
    BY <1>1 DEF Shaped, Tasking, Tasked, TaskStates
  <1>3. pc \in {"done", "loop", "exit"}
    OBVIOUS
  <1>4. /\ Others(t)
        /\ task'[t].id = task[t].id /\ task'[t].granted = task[t].granted
        /\ task'[t].seenFlow = task[t].seenFlow
        /\ task'[t].pc = "sending" /\ task'[t].then = pc /\ task'[t].frame = f
        /\ task'[t].cursor = c /\ task'[t].used = task[t].used
    BY <1>2, <1>3, TaskThen
  <1>5. Len(f.entries) = 0
    BY FrameFields DEF Frames
  <1>6. task[t].used + 0 = task[t].used
    BY <1>2
  <1>7. Fits(log, f, task[t].cursor) /\ f.kind # "gap"
    BY DEF Fits
  <1>8. /\ task'[t].used = task[t].used + Len(task'[t].frame.entries)
        /\ Fits(log, task'[t].frame, task[t].cursor)
        /\ task'[t].cursor = Moved(task'[t].frame, task[t].cursor)
    BY <1>4, <1>5, <1>6, <1>7
  <1>9. /\ task'[t].frame.kind \in {"view", "records", "gap", "error"}
        /\ \/ task'[t].then = "loop" /\ failures' = failures
           \/ task'[t].then = "exit" /\ failures' = failures + 1
    BY <1>4
  <1>. QED
    BY <1>2, <1>4, <1>7, <1>8, <1>9 DEF Prepares

LEMMA ViewEffects ==
    ASSUME Shaped, Tasking, NEW t \in Tasks, AnswerView(t)
    PROVE  Prepares(t)
  <1>. DEFINE f == Frame("view", task[t].id, 0, Len(log), <<>>)
              c == Larger(task[t].cursor, Len(log))
  <1>1. /\ task[t].pc = "viewing" /\ Alive(t) /\ UNCHANGED <<table, out, failures>>
        /\ Then(t, f, "loop", c, task[t].used)
    BY DEF AnswerView, At, Internal, Alive
  <1>2. task[t].id \in Ids /\ Len(log) \in Nat /\ task[t].cursor \in Nat
    BY <1>1 DEF Shaped, Tasking, TaskStates
  <1>3. /\ f \in Frames /\ f.kind = "view" /\ f.id = task[t].id /\ f.to = Len(log)
    <2>1. "view" \in Kinds /\ <<>> \in Seq(Entries) /\ 0 \in Nat
      BY DEF Kinds
    <2>. QED
      BY <1>2, <2>1 DEF Frame, Frames, FrameOf
  <1>. HIDE DEF f
  <1>4. c \in Nat /\ c = Moved(f, task[t].cursor)
    BY <1>2, <1>3 DEF Larger, Moved
  <1>. HIDE DEF c
  <1>. QED
    BY <1>1, <1>3, <1>4, SayEffects

LEMMA FailEffects ==
    ASSUME Shaped, Tasking, NEW t \in Tasks, AnswerFails(t)
    PROVE  Prepares(t)
  <1>. DEFINE f == Plain("error", task[t].id)
  <1>1. /\ task[t].pc \in {"reading", "asking", "viewing"} /\ Alive(t)
        /\ UNCHANGED <<table, out>> /\ failures' = failures + 1
        /\ Then(t, f, "exit", task[t].cursor, task[t].used)
    BY DEF AnswerFails, Alive
  <1>2. task[t].id \in Ids /\ task[t].cursor \in Nat
    BY <1>1 DEF Shaped, Tasking, TaskStates
  <1>3. /\ f \in Frames /\ f.kind = "error" /\ f.id = task[t].id
    BY <1>2, PlainMade DEF Frames
  <1>. HIDE DEF f
  <1>4. task[t].cursor = Moved(f, task[t].cursor)
    BY <1>3 DEF Moved
  <1>. QED
    BY <1>1, <1>2, <1>3, <1>4, SayEffects

LEMMA SendEffects ==
    ASSUME Shaped, Tasking, NEW t \in Tasks, Send(t)
    PROVE  Sends(t)
  <1>1. /\ task[t].pc = "sending" /\ UNCHANGED <<table, failures>> /\ Alive(t)
        /\ \/ /\ writing /\ Len(out) < OutboxCapacity
              /\ out' = Append(out, task[t].frame) /\ Goto(t, task[t].then)
           \/ ~writing /\ out' = out /\ Goto(t, "exit")
    BY DEF Send, At, Alive
  <1>2. task \in [Tasks -> TaskStates] /\ task[t].then \in {"loop", "exit"}
    BY <1>1 DEF Shaped, Tasking, Tasked
  <1>3. {"loop", "exit"} \subseteq Places
    BY DEF Places
  <1>4. CASE /\ writing /\ Len(out) < OutboxCapacity
             /\ out' = Append(out, task[t].frame) /\ Goto(t, task[t].then)
    <2>1. Kept(t) /\ task'[t].pc = task[t].then /\ task'[t].seenFlow = task[t].seenFlow
      BY <1>2, <1>3, <1>4, TaskGoto
    <2>. QED
      BY <1>1, <1>4, <2>1 DEF Sends
  <1>5. CASE ~writing /\ out' = out /\ Goto(t, "exit")
    <2>1. Kept(t) /\ task'[t].pc = "exit" /\ task'[t].seenFlow = task[t].seenFlow
      BY <1>2, <1>3, <1>5, TaskGoto
    <2>. QED
      BY <1>1, <1>5, <2>1 DEF Sends
  <1>. QED
    BY <1>1, <1>4, <1>5

\* What a task that holds nothing is.
LEMMA UnbornType ==
    /\ Unborn \in TaskStates
    /\ [Unborn EXCEPT !.pc = "done"] \in TaskStates
    /\ [Unborn EXCEPT !.pc = "done"].pc = "done"
    /\ Unborn.pc = "unborn"
  <1>1. Plain("end", None) \in FrameOf(Ids \cup {None})
    BY PlainMade
  <1>. DEFINE f == Plain("end", None)
  <1>2. f \in FrameOf(Ids \cup {None})
    BY <1>1
  <1>. HIDE DEF f
  <1>3. Unborn = [id |-> None, pc |-> "unborn", mode |-> "records", cursor |-> 0, used |-> 0,
                  granted |-> 0, seenFlow |-> 0, seenMark |-> 0, frame |-> f, then |-> "done"]
    BY DEF Unborn, f
  <1>4. {"unborn", "done"} \subseteq Places /\ "records" \in Modes /\ 0 \in Nat
        /\ None \in Ids \cup {None}
    BY DEF Places, Modes
  <1>5. Unborn \in TaskStates /\ Unborn.pc = "unborn"
    BY <1>2, <1>3, <1>4 DEF TaskStates
  <1>. QED
    BY <1>4, <1>5 DEF TaskStates

LEMMA EndEffects ==
    ASSUME Shaped, NEW t \in Tasks, Forget(t) \/ SendEnd(t)
    PROVE  Forgets(t) \/ Ends(t)
  <1>1. task \in [Tasks -> TaskStates]
    BY DEF Shaped
  <1>2. CASE Forget(t)
    <2>1. /\ Goto(t, "ending") /\ "ending" \in Places /\ task[t].pc = "exit"
          /\ table' = [table EXCEPT ![task[t].id] = None] /\ UNCHANGED <<out, failures>>
      BY <1>2 DEF Forget, Places, At
    <2>2. Kept(t) /\ task'[t].pc = "ending" /\ task'[t].seenFlow = task[t].seenFlow
      BY <1>1, <2>1, TaskGoto
    <2>. QED
      BY <2>1, <2>2 DEF Forgets
  <1>3. CASE SendEnd(t)
    <2>1. Others(t) /\ task'[t] = [Unborn EXCEPT !.pc = "done"]
      BY <1>1, <1>3, UnbornType, TaskSet DEF SendEnd
    <2>2. task'[t].pc = "done"
      BY <2>1, UnbornType
    <2>. QED
      BY <1>3, <2>1, <2>2 DEF Ends, SendEnd, At
  <1>. QED
    BY <1>2, <1>3

\* Every step of a stream task is one of these.
LEMMA TaskEffects ==
    ASSUME Shaped, Bounded, Windowed, Tasking, NEW t \in Tasks, Run(t) \/ AnswerFails(t)
    PROVE  TaskStep(t)
  <1>1. TaskFrame
    BY DEF Run, Look, Wake, Leave, ReadRing, Send, Forget, SendEnd, AnswerCatchUp, AnswerView,
           AnswerFails, Internal
  <1>2. Strolls(t) \/ Prepares(t) \/ Sends(t) \/ Forgets(t) \/ Ends(t)
    BY LookEffects, WakeEffects, ReadEffects, SendEffects, EndEffects, CatchUpEffects,
       ViewEffects, FailEffects DEF Run
  <1>. QED
    BY <1>1, <1>2 DEF TaskStep

-----------------------------------------------------------------------------
(* What the client and the session do. *)

\* A request joins those on their way; only the client of its id changes.
Asking(id) ==
    /\ client' \in [Ids -> Clients]
    /\ \A j \in Ids : j # id => client'[j] = client[j]
    /\ reading /\ Len(requests) < MaxRequests /\ opened' \in Nat
    /\ UNCHANGED <<feedVars, pending, table, task, out, reading, writing, failures>>

Opens(id, r) ==
    /\ Asking(id) /\ requests' = Append(requests, r)
    /\ r \in Requests /\ r.kind = "subscribe" /\ r.id = id
    /\ client[id].phase = "free"
    /\ client'[id].phase = "open" /\ client'[id].pos = r.sub.from
    /\ client'[id].credit = r.sub.credit /\ client'[id].got = 0

Asks(id, r) ==
    /\ Asking(id) /\ requests' = Append(requests, r)
    /\ r \in Requests /\ r.id = id
    /\ client[id].phase = "open" /\ ~client[id].cancelled
    /\ client'[id].phase = "open" /\ client'[id].pos = client[id].pos
    /\ client'[id].got = client[id].got
    /\ \/ /\ r.kind = "credit" /\ r.sub.credit = 1
          /\ client'[id].credit = client[id].credit + 1 /\ ~client'[id].cancelled
       \/ /\ r.kind = "cancel"
          /\ client'[id].credit = client[id].credit /\ client'[id].cancelled

\* The client hears the head of the outbox.
Hears(f) ==
    /\ out # <<>> /\ f = Head(out) /\ f \in Frames /\ out' = Tail(out) /\ writing
    /\ client' \in [Ids -> Clients]
    /\ \A j \in Ids : j # f.id => client'[j] = client[j]
    /\ f.kind = "end" => client'[f.id].phase = "free"
    /\ f.kind # "end" =>
          /\ client'[f.id].phase = client[f.id].phase
          /\ client'[f.id].credit = client[f.id].credit
          /\ client'[f.id].cancelled = client[f.id].cancelled
          /\ client'[f.id].pos = Moved(f, client[f.id].pos)
          /\ client'[f.id].got = client[f.id].got + Len(f.entries)
    /\ UNCHANGED <<feedVars, requests, pending, table, task, reading, writing, opened, failures>>

\* The session takes the request r.
Takes(r) ==
    /\ reading /\ pending.frames = <<>>
    /\ requests # <<>> /\ r = Head(requests) /\ r \in Requests /\ requests' = Tail(requests)
    /\ UNCHANGED <<feedVars, client, out, reading, writing, opened, failures>>

\* A reply to it waits for the outbox.
Owes(r, spawn) ==
    /\ pending' \in [spawn : Tasks \cup {None}, frames : Seq(Replies)]
    /\ pending'.spawn = spawn /\ Len(pending'.frames) = 1 /\ pending'.frames[1].id = r.id

Refuses(r) == Takes(r) /\ Owes(r, None) /\ UNCHANGED <<table, task>>

Spawns(r, t) ==
    /\ Takes(r) /\ Owes(r, t)
    /\ r.kind = "subscribe" /\ table[r.id] = None
    /\ table' = [table EXCEPT ![r.id] = t]
    /\ Others(t) /\ task[t].pc = "unborn"
    /\ task'[t].pc = "spawning" /\ task'[t].id = r.id /\ task'[t].cursor = r.sub.from
    /\ task'[t].used = 0
    /\ task'[t].granted = r.sub.credit /\ task'[t].seenFlow = r.sub.credit

Raises(r, t) ==
    /\ Takes(r) /\ Owes(r, None)
    /\ r.kind = "credit" /\ table[r.id] = t
    /\ table' = table
    /\ Others(t) /\ task'[t].granted = task[t].granted + r.sub.credit
    /\ task'[t].id = task[t].id /\ task'[t].pc = task[t].pc
    /\ task'[t].cursor = task[t].cursor /\ task'[t].used = task[t].used
    /\ task'[t].seenFlow = task[t].seenFlow /\ task'[t].frame = task[t].frame
    /\ task'[t].then = task[t].then

Cancels(r) ==
    /\ Takes(r)
    /\ r.kind = "cancel" /\ table' = [table EXCEPT ![r.id] = None]
    /\ UNCHANGED <<pending, task>>

\* The reply goes out, and the stream it is about starts.
Replied ==
    /\ Len(pending.frames) = 1 /\ pending.frames[1] \in Replies
    /\ pending' \in [spawn : Tasks \cup {None}, frames : Seq(Replies)]
    /\ pending'.spawn = None /\ pending'.frames = <<>>
    /\ \/ writing /\ Len(out) < OutboxCapacity /\ out' = Append(out, pending.frames[1])
       \/ ~writing /\ out' = out
    /\ \/ pending.spawn = None /\ task' = task
       \/ /\ pending.spawn \in Tasks /\ Kept(pending.spawn)
          /\ task'[pending.spawn].pc \in {"viewing", "loop"}
          /\ task'[pending.spawn].seenFlow = task[pending.spawn].seenFlow
    /\ UNCHANGED <<feedVars, client, requests, table, reading, writing, opened, failures>>

-----------------------------------------------------------------------------

\* What a client may ask for is what a subscription may be.
LEMMA AskedType ==
    /\ \A sub \in Subscriptions : sub \in Asked
    /\ NoSub \in Asked /\ NoSub.credit = 0
    /\ [NoSub EXCEPT !.credit = 1] \in Asked /\ [NoSub EXCEPT !.credit = 1].credit = 1
  BY SubscriptionAssumption DEF Asked, Modes, NoSub

LEMMA RequestMade ==
    ASSUME NEW kind \in {"subscribe", "credit", "cancel"}, NEW id \in Ids, NEW sub \in Asked
    PROVE  /\ Request(kind, id, sub) \in Requests
           /\ Request(kind, id, sub).kind = kind /\ Request(kind, id, sub).id = id
           /\ Request(kind, id, sub).sub = sub
  BY DEF Request, Requests

\* One client changes.
LEMMA ClientSet ==
    ASSUME client \in [Ids -> Clients], NEW id \in Ids, NEW c \in Clients,
           client' = [client EXCEPT ![id] = c]
    PROVE  /\ client' \in [Ids -> Clients] /\ client'[id] = c
           /\ \A j \in Ids : j # id => client'[j] = client[j]
  OBVIOUS

LEMMA OpenEffects ==
    ASSUME Shaped, NEW id \in Ids, NEW sub \in Subscriptions, OpenStream(id, sub)
    PROVE  \E r : Opens(id, r)
  <1>. DEFINE r == Request("subscribe", id, sub)
              c == [phase |-> "open", pos |-> sub.from, credit |-> sub.credit,
                    got |-> 0, cancelled |-> FALSE]
  <1>1. sub \in Asked
    BY AskedType
  <1>2. r \in Requests /\ r.kind = "subscribe" /\ r.id = id /\ r.sub = sub
    BY <1>1, RequestMade
  <1>3. c \in Clients
    BY <1>1 DEF Asked, Clients
  <1>4. /\ c.phase = "open" /\ c.pos = sub.from /\ c.credit = sub.credit /\ c.got = 0
    OBVIOUS
  <1>5. client \in [Ids -> Clients] /\ client' = [client EXCEPT ![id] = c]
    BY DEF OpenStream, Shaped
  <1>6. Ask(id, r) /\ client[id].phase = "free" /\ opened' \in Nat
    BY DEF OpenStream, Shaped
  <1>. HIDE DEF r, c
  <1>7. /\ client' \in [Ids -> Clients] /\ client'[id] = c
        /\ \A j \in Ids : j # id => client'[j] = client[j]
    BY <1>3, <1>5, ClientSet
  <1>8. Opens(id, r)
    BY <1>2, <1>4, <1>6, <1>7 DEF Opens, Asking, Ask
  <1>. QED
    BY <1>8

LEMMA SteerEffects ==
    ASSUME Shaped, NEW id \in Ids, GrantMore(id) \/ CancelStream(id)
    PROVE  \E r : Asks(id, r)
  <1>1. client \in [Ids -> Clients] /\ client[id] \in Clients
    BY DEF Shaped
  <1>2. /\ client[id].phase = "open" /\ ~client[id].cancelled /\ opened' \in Nat
    BY DEF GrantMore, CancelStream, Shaped
  <1>3. CASE GrantMore(id)
    <2>0. PICK sub \in Asked : sub = [NoSub EXCEPT !.credit = 1] /\ sub.credit = 1
      BY AskedType
    <2>. DEFINE r == Request("credit", id, sub)
                c == [client[id] EXCEPT !.credit = @ + 1]
    <2>1. r \in Requests /\ r.kind = "credit" /\ r.id = id /\ r.sub.credit = 1
      BY <2>0 DEF Request, Requests
    <2>2. c \in Clients
      BY <1>1 DEF Clients
    <2>3. /\ c.phase = client[id].phase /\ c.pos = client[id].pos /\ c.got = client[id].got
          /\ c.credit = client[id].credit + 1 /\ c.cancelled = client[id].cancelled
      BY <1>1 DEF Clients
    <2>4. client' = [client EXCEPT ![id] = c] /\ Ask(id, r)
      BY <1>1, <1>3, <2>0 DEF GrantMore
    <2>. HIDE DEF r, c
    <2>5. /\ client' \in [Ids -> Clients] /\ client'[id] = c
          /\ \A j \in Ids : j # id => client'[j] = client[j]
      BY <1>1, <2>2, <2>4, ClientSet
    <2>6. Asks(id, r)
      BY <1>2, <2>1, <2>3, <2>4, <2>5 DEF Asks, Asking, Ask
    <2>. QED
      BY <2>6
  <1>4. CASE CancelStream(id)
    <2>. DEFINE r == Request("cancel", id, NoSub)
                c == [client[id] EXCEPT !.cancelled = TRUE]
    <2>1. r \in Requests /\ r.kind = "cancel" /\ r.id = id
      BY AskedType, RequestMade
    <2>2. c \in Clients
      BY <1>1 DEF Clients
    <2>3. /\ c.phase = client[id].phase /\ c.pos = client[id].pos /\ c.got = client[id].got
          /\ c.credit = client[id].credit /\ c.cancelled
      BY <1>1 DEF Clients
    <2>4. client' = [client EXCEPT ![id] = c] /\ Ask(id, r)
      BY <1>1, <1>4 DEF CancelStream
    <2>. HIDE DEF r, c
    <2>5. /\ client' \in [Ids -> Clients] /\ client'[id] = c
          /\ \A j \in Ids : j # id => client'[j] = client[j]
      BY <1>1, <2>2, <2>4, ClientSet
    <2>6. Asks(id, r)
      BY <1>2, <2>1, <2>3, <2>4, <2>5 DEF Asks, Asking, Ask
    <2>. QED
      BY <2>6
  <1>. QED
    BY <1>3, <1>4

LEMMA HearEffects ==
    ASSUME Final = {"end"}, Shaped, Hear
    PROVE  \E f : Hears(f)
  <1>. DEFINE f == Head(out)
              c == client[f.id]
              moved == CASE f.kind = "view"    -> [c EXCEPT !.pos = Larger(@, f.to)]
                         [] f.kind = "gap"     -> [c EXCEPT !.pos = f.to]
                         [] f.kind = "records" -> [c EXCEPT !.pos = f.to,
                                                            !.got = @ + Len(f.entries)]
                         [] OTHER              -> c
              next == IF f.kind \in Final THEN Closed ELSE moved
  <1>1. /\ out # <<>> /\ f \in Frames /\ out' = Tail(out) /\ writing
        /\ UNCHANGED <<feedVars, requests, pending, table, task, reading, writing, opened,
                       failures>>
    BY DEF Hear, Shaped
  <1>2. f \in FrameOf(Ids)
    BY <1>1 DEF Frames
  <1>3. /\ f.kind \in Kinds /\ f.id \in Ids /\ f.to \in Nat /\ Len(f.entries) \in Nat
        /\ f.kind # "records" => Len(f.entries) = 0
    BY <1>2, FrameFields
  <1>4. client \in [Ids -> Clients] /\ c \in Clients
    BY <1>3 DEF Shaped
  <1>5. client' = [client EXCEPT ![f.id] = next]
    BY DEF Hear
  <1>6. Closed \in Clients /\ Closed.phase = "free"
    BY DEF Closed, Clients
  <1>. HIDE DEF f, c
  <1>7. c.pos \in Nat /\ c.got \in Nat
    BY <1>4 DEF Clients
  <1>8. /\ moved \in Clients /\ moved.phase = c.phase /\ moved.credit = c.credit
        /\ moved.cancelled = c.cancelled /\ moved.pos = Moved(f, c.pos)
        /\ moved.got = c.got + Len(f.entries)
    <2>1. CASE f.kind = "view"
      <3>1. Larger(c.pos, f.to) \in Nat /\ Len(f.entries) = 0 /\ c.got + 0 = c.got
        BY <1>3, <1>7, <2>1 DEF Larger
      <3>. QED
        BY <1>4, <2>1, <3>1 DEF Clients, Moved
    <2>2. CASE f.kind = "gap"
      <3>1. Len(f.entries) = 0 /\ c.got + 0 = c.got
        BY <1>3, <1>7, <2>2
      <3>. QED
        BY <1>3, <1>4, <2>2, <3>1 DEF Clients, Moved
    <2>3. CASE f.kind = "records"
      <3>1. c.got + Len(f.entries) \in Nat
        BY <1>3, <1>7
      <3>. QED
        BY <1>3, <1>4, <2>3, <3>1 DEF Clients, Moved
    <2>4. CASE f.kind \notin {"view", "gap", "records"}
      <3>1. Len(f.entries) = 0 /\ c.got + 0 = c.got
        BY <1>3, <1>7, <2>4
      <3>. QED
        BY <1>4, <2>4, <3>1 DEF Moved
    <2>. QED
      BY <2>1, <2>2, <2>3, <2>4
  <1>. HIDE DEF moved
  <1>9. next \in Clients
    BY <1>6, <1>8
  <1>10. /\ f.kind = "end" => next = Closed
         /\ f.kind # "end" => next = moved
    OBVIOUS
  <1>. HIDE DEF next
  <1>11. /\ client' \in [Ids -> Clients] /\ client'[f.id] = next
         /\ \A j \in Ids : j # f.id => client'[j] = client[j]
    BY <1>3, <1>4, <1>5, <1>9, ClientSet
  <1>12. Hears(f)
    BY <1>1, <1>6, <1>8, <1>10, <1>11 DEF Hears, f, c
  <1>. QED
    BY <1>12

\* A reply that is owed.
LEMMA OweEffects ==
    ASSUME NEW r, r.id \in Ids, NEW kind \in {"ok", "error"}, NEW spawn \in Tasks \cup {None},
           pending' = [spawn |-> spawn, frames |-> <<Plain(kind, r.id)>>]
    PROVE  Owes(r, spawn)
  <1>1. Plain(kind, r.id) \in Replies /\ Plain(kind, r.id).id = r.id
    <2>1. PICK i \in Ids : i = r.id
      OBVIOUS
    <2>2. Plain(kind, i) \in FrameOf(Ids) /\ Plain(kind, i).kind = kind /\ Plain(kind, i).id = i
      BY PlainMade
    <2>. QED
      BY <2>1, <2>2 DEF Replies, Frames
  <1>2. /\ <<Plain(kind, r.id)>> \in Seq(Replies) /\ Len(<<Plain(kind, r.id)>>) = 1
        /\ <<Plain(kind, r.id)>>[1] = Plain(kind, r.id)
    BY <1>1
  <1>. QED
    BY <1>1, <1>2 DEF Owes

LEMMA TakeEffects ==
    ASSUME Shaped, NEW kind, Taking(kind)
    PROVE  Takes(Head(requests)) /\ Head(requests).kind = kind /\ Head(requests).id \in Ids
  <1>1. requests \in Seq(Requests) /\ requests # <<>>
    BY DEF Shaped, Taking
  <1>2. Head(requests) \in Requests
    BY <1>1
  <1>. QED
    BY <1>1, <1>2 DEF Taking, Takes, Requests

LEMMA SubscribeEffects ==
    ASSUME Shaped, Subscribe
    PROVE  \E r : \/ Refuses(r) /\ r.kind = "subscribe" /\ table[r.id] # None
                  \/ \E t \in Tasks : Spawns(r, t)
  <1>. DEFINE r == Head(requests)
  <1>1. Takes(r) /\ r.kind = "subscribe" /\ r.id \in Ids
    BY TakeEffects DEF Subscribe
  <1>2. CASE table[r.id] # None
    <2>1. pending' = [spawn |-> None, frames |-> <<Plain("error", r.id)>>]
          /\ UNCHANGED <<table, task>>
      BY <1>2 DEF Subscribe, Owe
    <2>2. Owes(r, None)
      BY <1>1, <2>1, OweEffects
    <2>. QED
      BY <1>1, <1>2, <2>1, <2>2 DEF Refuses
  <1>3. CASE table[r.id] = None
    <2>1. PICK t \in Tasks :
             /\ task[t].pc = "unborn"
             /\ table' = [table EXCEPT ![r.id] = t]
             /\ task' = [task EXCEPT ![t] =
                   [Unborn EXCEPT !.id = r.id, !.pc = "spawning", !.mode = r.sub.mode,
                                  !.cursor = r.sub.from, !.granted = r.sub.credit,
                                  !.seenFlow = r.sub.credit]]
             /\ pending' = [spawn |-> t, frames |-> <<Plain("ok", r.id)>>]
      BY <1>3 DEF Subscribe
    <2>. DEFINE s == [Unborn EXCEPT !.id = r.id, !.pc = "spawning", !.mode = r.sub.mode,
                                    !.cursor = r.sub.from, !.granted = r.sub.credit,
                                    !.seenFlow = r.sub.credit]
    <2>2. r.sub \in Asked /\ Unborn \in TaskStates /\ "spawning" \in Places
      BY <1>1, UnbornType DEF Takes, Requests, Places
    <2>3. /\ r.sub.mode \in Modes /\ r.sub.from \in Nat /\ r.sub.credit \in Nat
          /\ r.id \in Ids \cup {None}
      BY <1>1, <2>2 DEF Asked
    <2>4. Unborn.used = 0
      BY DEF Unborn
    <2>. HIDE DEF r
    <2>5. /\ s \in TaskStates
          /\ s.pc = "spawning" /\ s.id = r.id /\ s.cursor = r.sub.from /\ s.used = 0
          /\ s.granted = r.sub.credit /\ s.seenFlow = r.sub.credit
      BY <2>2, <2>3, <2>4 DEF TaskStates
    <2>. HIDE DEF s
    <2>6. Others(t) /\ task'[t] = s
      BY <2>1, <2>5, TaskSet DEF Shaped, s
    <2>7. Owes(r, t)
      BY <1>1, <2>1, OweEffects
    <2>8. Spawns(r, t)
      BY <1>1, <1>3, <2>1, <2>5, <2>6, <2>7 DEF Spawns
    <2>. QED
      BY <2>8
  <1>. QED
    BY <1>2, <1>3

LEMMA GrantEffects ==
    ASSUME Shaped, Grant
    PROVE  \E r : \/ Refuses(r) /\ r.kind = "credit" /\ table[r.id] = None
                  \/ \E t \in Tasks : Raises(r, t)
  <1>. DEFINE r == Head(requests)
  <1>1. Takes(r) /\ r.kind = "credit" /\ r.id \in Ids
    BY TakeEffects DEF Grant
  <1>2. CASE table[r.id] = None
    <2>1. pending' = [spawn |-> None, frames |-> <<Plain("error", r.id)>>]
          /\ UNCHANGED <<table, task>>
      BY <1>2 DEF Grant, Owe
    <2>2. Owes(r, None)
      BY <1>1, <2>1, OweEffects
    <2>. QED
      BY <1>1, <1>2, <2>1, <2>2 DEF Refuses
  <1>3. CASE table[r.id] # None
    <2>1. PICK t : t = table[r.id]
      OBVIOUS
    <2>2. t \in Tasks /\ task \in [Tasks -> TaskStates] /\ task[t] \in TaskStates
      BY <1>1, <1>3, <2>1 DEF Shaped
    <2>. DEFINE s == [task[t] EXCEPT !.granted = @ + r.sub.credit]
    <2>3. /\ task' = [task EXCEPT ![t].granted = @ + r.sub.credit]
          /\ pending' = [spawn |-> None, frames |-> <<Plain("ok", r.id)>>]
          /\ table' = table
      BY <1>3, <2>1 DEF Grant, Owe
    <2>4. task' = [task EXCEPT ![t] = s]
      BY <2>2, <2>3
    <2>5. r.sub \in Asked
      BY <1>1 DEF Takes, Requests
    <2>6. r.sub.credit \in Nat
      BY <2>5 DEF Asked
    <2>. HIDE DEF r
    <2>7. s \in TaskStates
      BY <2>2, <2>6 DEF TaskStates
    <2>8. /\ s.granted = task[t].granted + r.sub.credit
          /\ s.id = task[t].id /\ s.pc = task[t].pc
          /\ s.cursor = task[t].cursor /\ s.used = task[t].used
          /\ s.seenFlow = task[t].seenFlow /\ s.frame = task[t].frame
          /\ s.then = task[t].then
      BY <2>2 DEF TaskStates
    <2>. HIDE DEF s
    <2>9. Others(t) /\ task'[t] = s
      BY <2>2, <2>4, <2>7, TaskSet
    <2>10. Owes(r, None)
      BY <1>1, <2>3, OweEffects
    <2>11. Raises(r, t)
      BY <1>1, <2>1, <2>3, <2>8, <2>9, <2>10 DEF Raises
    <2>. QED
      BY <2>2, <2>11
  <1>. QED
    BY <1>2, <1>3

LEMMA CancelEffects ==
    ASSUME Shaped, Cancel
    PROVE  \E r : \/ Refuses(r) /\ r.kind = "cancel" /\ table[r.id] = None
                  \/ Cancels(r)
  <1>. DEFINE r == Head(requests)
  <1>1. Takes(r) /\ r.kind = "cancel" /\ r.id \in Ids /\ task' = task
    BY TakeEffects DEF Cancel
  <1>2. CASE table[r.id] = None
    <2>1. pending' = [spawn |-> None, frames |-> <<Plain("error", r.id)>>]
          /\ table' = table
      BY <1>2 DEF Cancel, Owe
    <2>2. Owes(r, None)
      BY <1>1, <2>1, OweEffects
    <2>. QED
      BY <1>1, <1>2, <2>1, <2>2 DEF Refuses
  <1>3. CASE table[r.id] # None
    <2>1. table' = [table EXCEPT ![r.id] = None] /\ pending' = pending
      BY <1>3 DEF Cancel
    <2>2. Cancels(r)
      BY <1>1, <2>1 DEF Cancels
    <2>. QED
      BY <2>2
  <1>. QED
    BY <1>2, <1>3

LEMMA ReplyEffects ==
    ASSUME Shaped, Bounded, ReplySent
    PROVE  Replied
  <1>1. /\ pending \in [spawn : Tasks \cup {None}, frames : Seq(Replies)]
        /\ Len(pending.frames) <= 1 /\ pending.frames # <<>> /\ out \in Seq(Frames)
        /\ task \in [Tasks -> TaskStates]
    BY DEF Shaped, Bounded, ReplySent
  <1>2. PICK fs \in Seq(Replies) : fs = pending.frames
    BY <1>1
  <1>3. Len(fs) = 1 /\ fs[1] \in Replies /\ fs[1] \in Frames
    <2>0. fs # <<>> /\ Len(fs) <= 1
      BY <1>1, <1>2, Zenon
    <2>1. Len(fs) = 1
      <3>1. \A s \in Seq(Replies) : Len(s) \in Nat /\ (s = <<>> <=> Len(s) = 0)
        OBVIOUS
      <3>2. Len(fs) \in Nat /\ Len(fs) # 0
        BY <1>2, <2>0, <3>1, Zenon
      <3>. QED
        BY <2>0, <3>2
    <2>2. fs[1] \in Replies
      BY <1>2, <2>1
    <2>. QED
      BY <2>1, <2>2 DEF Replies
  <1>4. out \o fs = Append(out, fs[1])
    <2>1. fs = <<fs[1]>>
      BY <1>3
    <2>2. \A x : out \o <<x>> = Append(out, x)
      BY <1>1
    <2>. QED
      BY <2>1, <2>2
  <1>5. /\ pending' = [spawn |-> None, frames |-> <<>>]
        /\ \/ writing /\ Len(out) < OutboxCapacity /\ out' = out \o pending.frames
           \/ ~writing /\ out' = out
        /\ UNCHANGED <<feedVars, client, requests, table, reading, writing, opened, failures>>
        /\ task' = IF pending.spawn = None THEN task
                   ELSE [task EXCEPT ![pending.spawn].pc = Started(pending.spawn)]
    BY DEF ReplySent
  <1>6. /\ pending' \in [spawn : Tasks \cup {None}, frames : Seq(Replies)]
        /\ pending'.spawn = None /\ pending'.frames = <<>>
    BY <1>5
  <1>7. \/ writing /\ Len(out) < OutboxCapacity /\ out' = Append(out, pending.frames[1])
        \/ ~writing /\ out' = out
    BY <1>2, <1>4, <1>5
  <1>8. \/ pending.spawn = None /\ task' = task
        \/ /\ pending.spawn \in Tasks /\ Kept(pending.spawn)
           /\ task'[pending.spawn].pc \in {"viewing", "loop"}
           /\ task'[pending.spawn].seenFlow = task[pending.spawn].seenFlow
    <2>1. CASE pending.spawn = None
      BY <1>5, <2>1
    <2>2. CASE pending.spawn # None
      <3>1. PICK t \in Tasks : t = pending.spawn
        BY <1>1, <2>2
      <3>2. Started(t) \in {"viewing", "loop"} /\ Started(t) \in Places
        BY DEF Started, Places
      <3>3. Goto(t, Started(t))
        BY <1>5, <2>2, <3>1 DEF Goto
      <3>4. Kept(t) /\ task'[t].pc = Started(t) /\ task'[t].seenFlow = task[t].seenFlow
        BY <1>1, <3>2, <3>3, TaskGoto
      <3>. QED
        BY <3>1, <3>2, <3>4
    <2>. QED
      BY <2>1, <2>2
  <1>. QED
    BY <1>2, <1>3, <1>5, <1>6, <1>7, <1>8 DEF Replied

\* The steps of the connection and of its log, by what they do.
AnyStep ==
    \/ FeedStep /\ UNCHANGED <<sessionVars, task, writing, opened, failures>>
    \/ \E id \in Ids : \E r : Opens(id, r) \/ Asks(id, r)
    \/ \E f : Hears(f)
    \/ \E r : /\ Refuses(r)
              /\ IF r.kind = "subscribe" THEN table[r.id] # None ELSE table[r.id] = None
    \/ \E r : \E t \in Tasks : Spawns(r, t) \/ Raises(r, t)
    \/ \E r : Cancels(r)
    \/ Replied
    \/ Close
    \/ WriterStops
    \/ \E t \in Tasks : TaskStep(t)
    \/ UNCHANGED vars

LEMMA StepsAre ==
    ASSUME Final = {"end"}, Shaped, Bounded, Windowed, Tasking, [Next]_vars
    PROVE  AnyStep
  <1>1. ASSUME NEW id \in Ids, NEW sub \in Subscriptions, OpenStream(id, sub)
        PROVE  AnyStep
    BY <1>1, OpenEffects DEF AnyStep
  <1>2. ASSUME NEW id \in Ids, GrantMore(id) \/ CancelStream(id)
        PROVE  AnyStep
    BY <1>2, SteerEffects DEF AnyStep
  <1>3. CASE Hear
    BY <1>3, HearEffects DEF AnyStep
  <1>4. CASE Subscribe
    BY <1>4, SubscribeEffects DEF AnyStep
  <1>5. CASE Grant
    BY <1>5, GrantEffects DEF AnyStep
  <1>6. CASE Cancel
    BY <1>6, CancelEffects DEF AnyStep
  <1>7. CASE ReplySent
    BY <1>7, ReplyEffects DEF AnyStep
  <1>8. ASSUME NEW t \in Tasks, Run(t) \/ AnswerFails(t)
        PROVE  AnyStep
    BY <1>8, TaskEffects DEF AnyStep
  <1>9. CASE UNCHANGED vars
    BY <1>9 DEF AnyStep
  <1>10. CASE \/ Close \/ WriterStops
              \/ FeedStep /\ UNCHANGED <<sessionVars, task, writing, opened, failures>>
    BY <1>10 DEF AnyStep
  <1>. QED
    BY <1>1, <1>2, <1>3, <1>4, <1>5, <1>6, <1>7, <1>8, <1>9, <1>10 DEF Next, Server, Over

-----------------------------------------------------------------------------
(* The log and its ring. *)

\* What a commit appends, and what opening finds.
LEMMA BatchType == \A b \in Batches \cup Recoverable : b \in Seq(Patches)
  <1>. SUFFICES ASSUME NEW b \in Batches \cup Recoverable PROVE b \in Seq(Patches)
    OBVIOUS
  <1>. DEFINE S == {b[i] : i \in DOMAIN b}
  <1>1. b \in Seq(S)
    BY FeedAssumption
  <1>2. S \subseteq Patches
    BY DEF Patches
  <1>. HIDE DEF S
  <1>. QED
    BY <1>1, <1>2

\* The log grows, the floor rises, and the ring stays a window of the log.
Fed ==
    /\ \E b \in Seq(Patches) : log' = log \o b
    /\ ring' \in Seq(Entries) /\ published' \in Nat /\ floor' \in Nat /\ up' \in BOOLEAN
    /\ published' <= Len(log') /\ floor' \in 1..(Len(log') + 1) /\ floor <= floor'

LEMMA FeedEffects ==
    ASSUME Shaped, Bounded, Windowed, FeedStep
    PROVE  Fed /\ Windowed'
  <1>1. /\ log \in Seq(Patches) /\ ring \in Seq(Entries) /\ published \in Nat /\ floor \in Nat
        /\ up \in BOOLEAN /\ Len(log) \in Nat /\ Len(ring) \in Nat
        /\ published <= Len(log) /\ floor \in 1..(Len(log) + 1)
    BY DEF Shaped, Bounded
  <1>2. <<>> \in Seq(Patches) /\ log \o <<>> = log
    BY <1>1
  <1>3. CASE Commit
    <2>1. PICK b \in Batches : log' = log \o b
      BY <1>3 DEF Commit
    <2>2. b \in Seq(Patches)
      BY BatchType
    <2>3. /\ ring' = ring /\ published' = published /\ floor' = floor /\ up' = up
          /\ published = Len(log)
      BY <1>3 DEF Commit, Between
    <2>4. /\ Len(log') \in Nat /\ Len(log) <= Len(log')
          /\ \A v \in 1..Len(log) : log'[v] = log[v]
      <3>1. /\ Len(log \o b) = Len(log) + Len(b) /\ Len(b) \in Nat
            /\ \A v \in 1..Len(log) : (log \o b)[v] = log[v]
        BY <1>1, <2>2
      <3>. QED
        BY <1>1, <2>1, <3>1
    <2>5. Windowed'
      <3>1. SUFFICES ASSUME ring # <<>>
                     PROVE  \E base \in Nat : /\ Mirrors(ring, log', base)
                                              /\ base + Len(ring) \in {published, Len(log')}
        BY <2>3 DEF Windowed
      <3>2. PICK base \in Nat : /\ Mirrors(ring, log, base)
                                /\ base + Len(ring) \in {published, Len(log)}
        BY <3>1 DEF Windowed
      <3>3. DOMAIN ring = 1..Len(ring) /\ base + Len(ring) = Len(log)
        BY <1>1, <2>3, <3>2
      <3>4. \A k \in 1..Len(ring) : base + k \in 1..Len(log)
        BY <1>1, <3>3
      <3>5. Mirrors(ring, log', base)
        BY <2>4, <3>2, <3>3, <3>4 DEF Mirrors
      <3>. QED
        BY <2>3, <3>3, <3>5
    <2>6. published' <= Len(log') /\ floor' \in 1..(Len(log') + 1) /\ floor <= floor'
      BY <1>1, <2>3, <2>4
    <2>. QED
      BY <1>1, <2>1, <2>2, <2>3, <2>5, <2>6 DEF Fed
  <1>4. CASE PushEntries
    <2>1. /\ log' = log /\ published' = published /\ floor' = floor /\ up' = up
          /\ published < Len(log) /\ ~Pushed
          /\ ring' = RingPush(ring, EntriesBetween(published, Len(log)))
      BY <1>4 DEF PushEntries
    <2>2. PICK es : es = EntriesBetween(published, Len(log))
      OBVIOUS
    <2>3. /\ es \in Seq(Entries) /\ Len(es) = Len(log) - published
          /\ \A i \in 1..Len(es) : /\ es[i].version = published + i
                                   /\ es[i].patch = log[published + i]
      <3>1. published <= Len(log) /\ Len(log) <= Len(log)
        BY <1>1
      <3>. QED
        BY <1>1, <2>2, <3>1, BetweenType
    <2>4. \E base \in Nat : Mirrors(ring, log, base) /\ base + Len(ring) = published
      <3>1. CASE ring = <<>>
        <4>1. Mirrors(ring, log, published) /\ published + Len(ring) = published
          BY <1>1, <3>1 DEF Mirrors
        <4>. QED
          BY <1>1, <4>1
      <3>2. CASE ring # <<>>
        <4>1. PICK base \in Nat : /\ Mirrors(ring, log, base)
                                  /\ base + Len(ring) \in {published, Len(log)}
          BY <3>2 DEF Windowed
        <4>2. Len(ring) \in DOMAIN ring
          BY <1>1, <3>2
        <4>3. ring[Len(ring)].version = base + Len(ring)
          BY <4>1, <4>2 DEF Mirrors
        <4>4. base + Len(ring) # Len(log)
          BY <2>1, <3>2, <4>3 DEF Pushed
        <4>. QED
          BY <4>1, <4>4
      <3>. QED
        BY <3>1, <3>2
    <2>5. PICK base \in Nat : Mirrors(ring, log, base) /\ base + Len(ring) = published
      BY <2>4
    <2>6. /\ RingPush(ring, es) \in Seq(Entries)
          /\ \E b \in Nat : /\ Mirrors(RingPush(ring, es), log, b)
                            /\ b + Len(RingPush(ring, es)) = published + Len(es)
      <3>1. Follows(es, log, published)
        BY <2>3 DEF Follows
      <3>. QED
        BY <1>1, <2>3, <2>5, <3>1, MirrorsPush
    <2>7. PICK c \in Nat : Mirrors(ring', log, c) /\ c + Len(ring') = Len(log)
      <3>1. published + Len(es) = Len(log)
        BY <1>1, <2>1, <2>3
      <3>. QED
        BY <2>1, <2>2, <2>6, <3>1
    <2>8. Windowed'
      BY <2>1, <2>7 DEF Windowed
    <2>9. ring' \in Seq(Entries)
      BY <2>1, <2>2, <2>6
    <2>10. \E d \in Seq(Patches) : log' = log \o d
      BY <1>2, <2>1
    <2>11. log' = log /\ published' = published /\ floor' = floor /\ up' = up
      BY <2>1
    <2>12. /\ published' \in Nat /\ floor' \in Nat /\ published' <= Len(log')
           /\ floor' \in 1..(Len(log') + 1) /\ floor <= floor'
      BY <1>1, <2>11
    <2>13. up' \in BOOLEAN
      BY <1>1, <2>11
    <2>14. Fed
      BY <2>9, <2>10, <2>12, <2>13 DEF Fed
    <2>. QED
      BY <2>8, <2>14
  <1>5. CASE AnnounceWatermark
    <2>1. /\ log' = log /\ ring' = ring /\ floor' = floor /\ up' = up /\ published' = Len(log)
          /\ ring # <<>> /\ ring[Len(ring)].version = Len(log)
      BY <1>5 DEF AnnounceWatermark, Pushed
    <2>2. PICK base \in Nat : /\ Mirrors(ring, log, base)
                              /\ base + Len(ring) \in {published, Len(log)}
      BY <2>1 DEF Windowed
    <2>3. Len(ring) \in DOMAIN ring
      BY <1>1, <2>1
    <2>4. base + Len(ring) = Len(log)
      BY <2>1, <2>2, <2>3 DEF Mirrors
    <2>5. Windowed'
      BY <2>1, <2>2, <2>4 DEF Windowed
    <2>6. \E b \in Seq(Patches) : log' = log \o b
      BY <1>2, <2>1
    <2>. QED
      BY <1>1, <2>1, <2>5, <2>6 DEF Fed
  <1>6. CASE ReclaimTo
    <2>1. PICK f \in (floor + 1)..(Len(log) + 1) : floor' = f
      BY <1>6 DEF ReclaimTo
    <2>2. log' = log /\ ring' = ring /\ published' = published /\ up' = up
      BY <1>6 DEF ReclaimTo
    <2>3. Windowed'
      BY <2>2 DEF Windowed
    <2>4. floor' \in Nat /\ floor' \in 1..(Len(log) + 1) /\ floor <= floor'
      BY <1>1, <2>1
    <2>5. \E b \in Seq(Patches) : log' = log \o b
      BY <1>2, <2>2
    <2>. QED
      BY <1>1, <2>2, <2>3, <2>4, <2>5 DEF Fed
  <1>. QED
    BY <1>3, <1>4, <1>5, <1>6 DEF FeedStep

\* Steps that are not of the log leave it alone.
LEMMA FeedOnly ==
    ASSUME AnyStep
    PROVE  \/ FeedStep /\ UNCHANGED <<sessionVars, task, writing, opened, failures>>
           \/ UNCHANGED feedVars
  BY DEF AnyStep, Opens, Asks, Asking, Hears, Refuses, Spawns, Raises, Cancels, Takes, Replied,
         Close, WriterStops, TaskStep, TaskFrame, vars

LEMMA WindowedNext ==
    ASSUME Shaped, Bounded, Windowed, AnyStep
    PROVE  Windowed'
  <1>1. CASE FeedStep
    BY <1>1, FeedEffects
  <1>2. CASE UNCHANGED feedVars
    BY <1>2 DEF Windowed, feedVars
  <1>. QED
    BY <1>1, <1>2, FeedOnly

-----------------------------------------------------------------------------
(* Types and limits. *)

\* The frame a task sends is one of its stream.
LEMMA SentFrame ==
    ASSUME Shaped, Tasking, NEW t \in Tasks
    PROVE  /\ task[t].pc = "sending" => task[t].frame \in Frames /\ task[t].frame.id = task[t].id
           /\ Alive(t) => task[t].id \in Ids
           /\ Alive(t) => Plain("end", task[t].id) \in Frames
           /\ Plain("end", task[t].id).kind = "end" /\ Plain("end", task[t].id).id = task[t].id
           /\ Plain("end", task[t].id).entries = <<>>
  <1>1. task[t] \in TaskStates
    BY DEF Shaped
  <1>2. task[t].frame \in FrameOf(Ids \cup {None})
    BY <1>1 DEF TaskStates
  <1>3. Alive(t) => task[t].id \in Ids
    BY DEF Tasking
  <1>4. ASSUME task[t].pc = "sending"
        PROVE  task[t].frame \in Frames /\ task[t].frame.id = task[t].id
    <2>1. Alive(t)
      BY <1>4 DEF Alive
    <2>2. task[t].frame.id = task[t].id /\ task[t].id \in Ids
      BY <1>4, <2>1 DEF Tasking, Tasked
    <2>. QED
      BY <1>2, <2>2, FrameOfId DEF Frames
  <1>5. Alive(t) => Plain("end", task[t].id) \in Frames
    BY <1>3, PlainMade DEF Frames
  <1>6. /\ Plain("end", task[t].id).kind = "end" /\ Plain("end", task[t].id).id = task[t].id
        /\ Plain("end", task[t].id).entries = <<>>
    BY DEF Plain, Frame
  <1>. QED
    BY <1>3, <1>4, <1>5, <1>6

\* Every step of the outbox: nothing, the head leaves, one joins, or all is lost.
Outgoing ==
    \/ out' = out
    \/ out # <<>> /\ out' = Tail(out) /\ \E f : Hears(f)
    \/ \E f \in Frames : writing /\ Len(out) < OutboxCapacity /\ out' = Append(out, f)
    \/ out' = <<>>

LEMMA OutSteps ==
    ASSUME Shaped, Tasking, AnyStep
    PROVE  Outgoing
  <1>1. ASSUME NEW t \in Tasks, TaskStep(t)
        PROVE  Outgoing
    <2>1. CASE Strolls(t) \/ Prepares(t) \/ Forgets(t)
      BY <2>1 DEF Strolls, Prepares, Forgets, Outgoing
    <2>2. CASE Sends(t)
      BY <2>2, SentFrame DEF Sends, Outgoing
    <2>3. CASE Ends(t)
      <3>1. Alive(t)
        BY <2>3 DEF Ends, Alive
      <3>. QED
        BY <2>3, <3>1, SentFrame DEF Ends, Outgoing
    <2>. QED
      BY <1>1, <2>1, <2>2, <2>3 DEF TaskStep
  <1>2. CASE Replied
    BY <1>2 DEF Replied, Replies, Outgoing
  <1>3. ASSUME NEW f, Hears(f)
        PROVE  Outgoing
    BY <1>3 DEF Hears, Outgoing
  <1>4. CASE WriterStops
    BY <1>4 DEF WriterStops, Outgoing
  <1>5. ASSUME \/ FeedStep /\ UNCHANGED <<sessionVars, task, writing, opened, failures>>
               \/ \E id \in Ids : \E r : Opens(id, r) \/ Asks(id, r)
               \/ \E r : Refuses(r)
               \/ \E r : \E t \in Tasks : Spawns(r, t) \/ Raises(r, t)
               \/ \E r : Cancels(r)
               \/ Close \/ UNCHANGED vars
        PROVE  Outgoing
    <2>1. out' = out
      BY <1>5 DEF Opens, Asks, Asking, Refuses, Spawns, Raises, Cancels, Takes, Close, vars,
                  sessionVars
    <2>. QED
      BY <2>1 DEF Outgoing
  <1>. QED
    BY <1>1, <1>2, <1>3, <1>4, <1>5 DEF AnyStep

\* And every step of the requests.
Incoming ==
    \/ requests' = requests
    \/ \E r \in Requests : Len(requests) < MaxRequests /\ requests' = Append(requests, r)
    \/ requests # <<>> /\ requests' = Tail(requests)
    \/ requests' = <<>>

LEMMA InSteps ==
    ASSUME AnyStep
    PROVE  Incoming
  <1>1. ASSUME NEW id \in Ids, NEW r, Opens(id, r) \/ Asks(id, r)
        PROVE  Incoming
    BY <1>1 DEF Opens, Asks, Asking, Incoming
  <1>2. ASSUME \/ \E r : Refuses(r)
               \/ \E r : \E t \in Tasks : Spawns(r, t) \/ Raises(r, t)
               \/ \E r : Cancels(r)
        PROVE  Incoming
    BY <1>2 DEF Refuses, Spawns, Raises, Cancels, Takes, Incoming
  <1>3. ASSUME \/ FeedStep /\ UNCHANGED <<sessionVars, task, writing, opened, failures>>
               \/ \E f : Hears(f)
               \/ Replied \/ WriterStops \/ UNCHANGED vars
               \/ \E t \in Tasks : TaskStep(t)
        PROVE  Incoming
    <2>1. requests' = requests
      BY <1>3 DEF Hears, Replied, WriterStops, vars, sessionVars, TaskStep, TaskFrame
    <2>. QED
      BY <2>1 DEF Incoming
  <1>4. CASE Close
    BY <1>4 DEF Close, Incoming
  <1>. QED
    BY <1>1, <1>2, <1>3, <1>4 DEF AnyStep

\* The tasks are the session's and their own.
LEMMA TasksKept ==
    ASSUME Shaped, AnyStep
    PROVE  task' \in [Tasks -> TaskStates] /\ table' \in [Ids -> Tasks \cup {None}]
  <1>1. task \in [Tasks -> TaskStates] /\ table \in [Ids -> Tasks \cup {None}]
    BY DEF Shaped
  <1>2. ASSUME NEW t \in Tasks, TaskStep(t)
        PROVE  task' \in [Tasks -> TaskStates] /\ table' \in [Ids -> Tasks \cup {None}]
    <2>1. Others(t)
      BY <1>2 DEF TaskStep, Strolls, Prepares, Sends, Forgets, Ends, Kept
    <2>2. table' = table \/ table' = [table EXCEPT ![task[t].id] = None]
      BY <1>2 DEF TaskStep, Strolls, Prepares, Sends, Forgets, Ends
    <2>. QED
      BY <1>1, <2>1, <2>2 DEF Others
  <1>3. ASSUME NEW r, NEW t \in Tasks, Spawns(r, t) \/ Raises(r, t)
        PROVE  task' \in [Tasks -> TaskStates] /\ table' \in [Ids -> Tasks \cup {None}]
    <2>1. Others(t)
      BY <1>3 DEF Spawns, Raises
    <2>2. table' = table \/ table' = [table EXCEPT ![r.id] = t]
      BY <1>3 DEF Spawns, Raises
    <2>. QED
      BY <1>1, <2>1, <2>2 DEF Others
  <1>4. CASE Replied
    BY <1>1, <1>4 DEF Replied, Kept, Others
  <1>5. ASSUME NEW r, Cancels(r)
        PROVE  task' \in [Tasks -> TaskStates] /\ table' \in [Ids -> Tasks \cup {None}]
    <2>1. task' = task /\ table' = [table EXCEPT ![r.id] = None]
      BY <1>5 DEF Cancels
    <2>. QED
      BY <1>1, <2>1
  <1>6. CASE Close
    <2>1. task' = task /\ table' = [id \in Ids |-> None]
      BY <1>6 DEF Close
    <2>. QED
      BY <1>1, <2>1
  <1>7. ASSUME \/ FeedStep /\ UNCHANGED <<sessionVars, task, writing, opened, failures>>
               \/ \E id \in Ids : \E r : Opens(id, r) \/ Asks(id, r)
               \/ \E f : Hears(f)
               \/ \E r : Refuses(r)
               \/ WriterStops \/ UNCHANGED vars
        PROVE  task' \in [Tasks -> TaskStates] /\ table' \in [Ids -> Tasks \cup {None}]
    <2>1. task' = task /\ table' = table
      BY <1>7 DEF Opens, Asks, Asking, Hears, Refuses, WriterStops, vars, sessionVars
    <2>. QED
      BY <1>1, <2>1
  <1>. QED
    BY <1>2, <1>3, <1>4, <1>5, <1>6, <1>7 DEF AnyStep

\* The client, the reply and the rest.
LEMMA RestKept ==
    ASSUME Shaped, AnyStep
    PROVE  /\ client' \in [Ids -> Clients]
           /\ pending' \in [spawn : Tasks \cup {None}, frames : Seq(Replies)]
           /\ reading' \in BOOLEAN /\ writing' \in BOOLEAN
           /\ opened' \in Nat /\ failures' \in Nat
  <1>1. /\ client \in [Ids -> Clients]
        /\ pending \in [spawn : Tasks \cup {None}, frames : Seq(Replies)]
        /\ reading \in BOOLEAN /\ writing \in BOOLEAN /\ opened \in Nat /\ failures \in Nat
    BY DEF Shaped
  <1>2. client' \in [Ids -> Clients]
    <2>1. \/ client' = client
          \/ client' \in [Ids -> Clients]
      BY DEF AnyStep, Opens, Asks, Asking, Hears, Refuses, Spawns, Raises, Cancels, Takes,
             Replied, Close, WriterStops, TaskStep, TaskFrame, vars, sessionVars
    <2>. QED
      BY <1>1, <2>1
  <1>3. pending' \in [spawn : Tasks \cup {None}, frames : Seq(Replies)]
    <2>1. \/ pending' = pending
          \/ pending' \in [spawn : Tasks \cup {None}, frames : Seq(Replies)]
      BY DEF AnyStep, Opens, Asks, Asking, Hears, Refuses, Spawns, Raises, Cancels, Owes,
             Replied, Close, WriterStops, TaskStep, TaskFrame, vars, sessionVars
    <2>. QED
      BY <1>1, <2>1
  <1>4. reading' \in BOOLEAN /\ writing' \in BOOLEAN
    <2>1. /\ reading' = reading \/ reading' = FALSE
          /\ writing' = writing \/ writing' = FALSE
      BY DEF AnyStep, Opens, Asks, Asking, Hears, Refuses, Spawns, Raises, Cancels, Takes,
             Replied, Close, WriterStops, TaskStep, TaskFrame, vars, sessionVars
    <2>. QED
      BY <1>1, <2>1
  <1>5. opened' \in Nat
    <2>1. opened' = opened \/ opened' \in Nat
      BY DEF AnyStep, Opens, Asks, Asking, Hears, Refuses, Spawns, Raises, Cancels, Takes,
             Replied, Close, WriterStops, TaskStep, TaskFrame, vars
    <2>. QED
      BY <1>1, <2>1
  <1>6. failures' \in Nat
    <2>1. failures' = failures \/ failures' = failures + 1
      BY DEF AnyStep, Opens, Asks, Asking, Hears, Refuses, Spawns, Raises, Cancels, Takes,
             Replied, Close, WriterStops, TaskStep, Strolls, Prepares, Sends, Forgets, Ends, vars
    <2>. QED
      BY <1>1, <2>1
  <1>. QED
    BY <1>2, <1>3, <1>4, <1>5, <1>6

LEMMA ShapedNext ==
    ASSUME Shaped, Bounded, Windowed, Tasking, AnyStep
    PROVE  Shaped'
  <1>1. out' \in Seq(Frames)
    <2>1. out \in Seq(Frames) /\ Outgoing
      BY OutSteps DEF Shaped
    <2>2. <<>> \in Seq(Frames)
      OBVIOUS
    <2>3. out # <<>> => Tail(out) \in Seq(Frames)
      BY <2>1, Left
    <2>4. \A f \in Frames : Append(out, f) \in Seq(Frames)
      BY <2>1, Joined
    <2>. QED
      BY <2>1, <2>2, <2>3, <2>4, Zenon DEF Outgoing
  <1>2. requests' \in Seq(Requests)
    <2>1. requests \in Seq(Requests) /\ Incoming
      BY InSteps DEF Shaped
    <2>2. <<>> \in Seq(Requests)
      OBVIOUS
    <2>3. requests # <<>> => Tail(requests) \in Seq(Requests)
      BY <2>1, Left
    <2>4. \A r \in Requests : Append(requests, r) \in Seq(Requests)
      BY <2>1, Joined
    <2>. QED
      BY <2>1, <2>2, <2>3, <2>4, Zenon DEF Incoming
  <1>3. /\ log' \in Seq(Patches) /\ ring' \in Seq(Entries) /\ published' \in Nat
        /\ floor' \in Nat /\ up' \in BOOLEAN
    <2>1. CASE FeedStep
      <3>1. Fed
        BY <2>1, FeedEffects
      <3>2. PICK b \in Seq(Patches) : log' = log \o b
        BY <3>1 DEF Fed
      <3>3. log' \in Seq(Patches)
        BY <3>2 DEF Shaped
      <3>. QED
        BY <3>1, <3>3 DEF Fed
    <2>2. CASE UNCHANGED feedVars
      BY <2>2 DEF feedVars, Shaped
    <2>. QED
      BY <2>1, <2>2, FeedOnly
  <1>. QED
    BY <1>1, <1>2, <1>3, TasksKept, RestKept DEF Shaped

LEMMA BoundedNext ==
    ASSUME Shaped, Bounded, Windowed, Tasking, AnyStep
    PROVE  Bounded'
  <1>1. Len(out') <= OutboxCapacity /\ (~writing' => out' = <<>>)
    <2>1. /\ out \in Seq(Frames) /\ Len(out) \in Nat /\ Len(out) <= OutboxCapacity
          /\ OutboxCapacity \in Nat /\ (~writing => out = <<>>)
      BY SubscriptionAssumption DEF Shaped, Bounded
    <2>2. Outgoing
      BY OutSteps
    <2>3. Len(out') <= OutboxCapacity
      <3>1. Len(<<>>) = 0
        OBVIOUS
      <3>2. out # <<>> => Len(Tail(out)) = Len(out) - 1
        BY <2>1, Left
      <3>3. \A f \in Frames : Len(Append(out, f)) = Len(out) + 1
        BY <2>1, Joined
      <3>. QED
        <4>1. \/ Len(out') = Len(out) \/ Len(out') = 0
              \/ Len(out') = Len(out) - 1
              \/ Len(out') = Len(out) + 1 /\ Len(out) < OutboxCapacity
          BY <2>2, <3>1, <3>2, <3>3, Zenon DEF Outgoing
        <4>. QED
          BY <2>1, <4>1
    <2>4. ~writing' => ~writing \/ WriterStops
      BY DEF AnyStep, Opens, Asks, Asking, Hears, Refuses, Spawns, Raises, Cancels, Takes,
             Replied, Close, TaskStep, TaskFrame, vars
    <2>5. WriterStops => out' = <<>>
      BY DEF WriterStops
    <2>6. ~writing => out' = <<>>
      BY <2>1, <2>2, Zenon DEF Outgoing
    <2>. QED
      BY <2>3, <2>4, <2>5, <2>6
  <1>2. Len(requests') <= MaxRequests
    <2>1. /\ requests \in Seq(Requests) /\ Len(requests) \in Nat
          /\ Len(requests) <= MaxRequests /\ MaxRequests \in Nat
      BY SubscriptionAssumption DEF Shaped, Bounded
    <2>2. Incoming
      BY InSteps
    <2>3. Len(<<>>) = 0
      OBVIOUS
    <2>4. requests # <<>> => Len(Tail(requests)) = Len(requests) - 1
      BY <2>1, Left
    <2>5. \A r \in Requests : Len(Append(requests, r)) = Len(requests) + 1
      BY <2>1, Joined
    <2>. QED
      BY <2>1, <2>2, <2>3, <2>4, <2>5 DEF Incoming
  <1>3. Len(pending'.frames) <= 1
    <2>1. Len(<<>>) = 0 /\ Len(pending.frames) <= 1
      BY DEF Bounded
    <2>2. pending' = pending \/ Len(pending'.frames) = 1 \/ pending'.frames = <<>>
      BY DEF AnyStep, Opens, Asks, Asking, Hears, Refuses, Spawns, Raises, Cancels, Owes,
             Replied, Close, WriterStops, TaskStep, TaskFrame, vars, sessionVars
    <2>3. pending'.frames = <<>> => Len(pending'.frames) = 0
      BY <2>1, Zenon
    <2>4. pending' = pending => Len(pending'.frames) <= 1
      BY <2>1, Zenon
    <2>5. \A n : n = 1 \/ n = 0 => n <= 1
      OBVIOUS
    <2>. QED
      BY <2>2, <2>3, <2>4, <2>5, Zenon
  <1>4. published' <= Len(log') /\ floor' \in 1..(Len(log') + 1)
    <2>1. CASE FeedStep
      BY <2>1, FeedEffects DEF Fed
    <2>2. CASE UNCHANGED feedVars
      BY <2>2 DEF feedVars, Bounded
    <2>. QED
      BY <2>1, <2>2, FeedOnly
  <1>. QED
    BY <1>1, <1>2, <1>3, <1>4 DEF Bounded

-----------------------------------------------------------------------------
(* The tasks, and the table that knows them. *)

LEMMA TaskFields ==
    ASSUME Shaped, NEW t \in Tasks
    PROVE  /\ task[t].pc \in Places /\ task[t].id \in Ids \cup {None}
           /\ task[t].cursor \in Nat /\ task[t].used \in Nat /\ task[t].granted \in Nat
           /\ task[t].seenFlow \in Nat /\ task[t].then \in {"done", "loop", "exit"}
           /\ task[t].frame \in FrameOf(Ids \cup {None})
  <1>1. task[t] \in TaskStates
    BY DEF Shaped
  <1>. QED
    BY <1>1 DEF TaskStates

LEMMA RequestFields ==
    ASSUME NEW r \in Requests
    PROVE  /\ r.id \in Ids /\ r.kind \in {"subscribe", "credit", "cancel"}
           /\ r.sub.from \in Nat /\ r.sub.credit \in Nat
  <1>1. r.id \in Ids /\ r.kind \in {"subscribe", "credit", "cancel"} /\ r.sub \in Asked
    BY DEF Requests
  <1>. QED
    BY <1>1 DEF Asked

\* The steps that change a task.
LEMMA TaskSteps ==
    ASSUME AnyStep
    PROVE  \/ task' = task
           \/ \E t \in Tasks : TaskStep(t)
           \/ \E r : \E t \in Tasks : Spawns(r, t) \/ Raises(r, t)
           \/ Replied /\ pending.spawn \in Tasks /\ Kept(pending.spawn)
  BY DEF AnyStep, Opens, Asks, Asking, Hears, Refuses, Cancels, Close, WriterStops, Replied,
         vars

\* What a task keeps to itself stays right if only it changes and it keeps to it.
LEMMA TaskingOne ==
    ASSUME Tasking, NEW t \in Tasks, Others(t),
           Alive(t)' => task'[t].id \in Ids /\ Tasked(t)'
    PROVE  Tasking'
  <1>. SUFFICES ASSUME NEW u \in Tasks, Alive(u)'
                PROVE  task'[u].id \in Ids /\ Tasked(u)'
    BY DEF Tasking
  <1>1. CASE u = t
    BY <1>1
  <1>2. CASE u # t
    <2>1. task'[u] = task[u]
      BY <1>2 DEF Others
    <2>2. Alive(u) /\ (Tasked(u) => Tasked(u)')
      BY <2>1 DEF Alive, Tasked
    <2>. QED
      BY <2>1, <2>2 DEF Tasking
  <1>. QED
    BY <1>1, <1>2

LEMMA TaskingNext ==
    ASSUME Shaped, Bounded, Windowed, Tasking, AnyStep,
           pending.spawn # None => task[pending.spawn].pc = "spawning"
    PROVE  Tasking'
  <1>1. CASE task' = task
    BY <1>1 DEF Tasking, Tasked, Alive
  <1>2. ASSUME NEW t \in Tasks, TaskStep(t)
        PROVE  Tasking'
    <2>1. /\ task[t].used \in Nat /\ task[t].granted \in Nat /\ task[t].seenFlow \in Nat
      BY TaskFields
    <2>2. Alive(t)
      BY <1>2 DEF TaskStep, Strolls, Prepares, Sends, Forgets, Ends, Alive, Strolling
    <2>3. task[t].id \in Ids /\ Tasked(t)
      BY <2>2 DEF Tasking
    <2>4. CASE Strolls(t)
      <3>1. Tasked(t)'
        BY <2>3, <2>4 DEF Strolls, Kept, Tasked, Strolling
      <3>. QED
        BY <2>3, <2>4, <3>1, TaskingOne DEF Strolls, Kept
    <2>5. CASE Prepares(t)
      <3>1. task'[t].then \in {"loop", "exit"}
        BY <2>5 DEF Prepares
      <3>2. /\ task'[t].used <= task'[t].granted /\ task'[t].seenFlow <= task'[t].granted
            /\ task'[t].pc = "sending" /\ task'[t].id = task[t].id
        BY <2>3, <2>5 DEF Prepares, Tasked
      <3>3. /\ task'[t].frame.kind \in {"view", "records", "gap", "error"}
            /\ task'[t].frame.id = task'[t].id
        BY <2>5 DEF Prepares
      <3>4. Tasked(t)'
        BY <3>1, <3>2, <3>3 DEF Tasked
      <3>. QED
        BY <2>3, <2>5, <3>2, <3>4, TaskingOne DEF Prepares
    <2>6. CASE Sends(t)
      <3>1. task'[t].pc \in {"loop", "exit"}
        BY <2>3, <2>6 DEF Sends, Tasked
      <3>2. Tasked(t)'
        BY <2>3, <2>6, <3>1 DEF Sends, Kept, Tasked
      <3>. QED
        BY <2>3, <2>6, <3>2, TaskingOne DEF Sends, Kept
    <2>7. CASE Forgets(t)
      <3>1. Tasked(t)'
        BY <2>3, <2>7 DEF Forgets, Kept, Tasked
      <3>. QED
        BY <2>3, <2>7, <3>1, TaskingOne DEF Forgets, Kept
    <2>8. CASE Ends(t)
      <3>1. ~Alive(t)'
        BY <2>8 DEF Ends, Alive
      <3>. QED
        BY <2>8, <3>1, TaskingOne DEF Ends
    <2>. QED
      BY <1>2, <2>4, <2>5, <2>6, <2>7, <2>8 DEF TaskStep
  <1>3. ASSUME NEW r, NEW t \in Tasks, Spawns(r, t)
        PROVE  Tasking'
    <2>1. r \in Requests
      BY <1>3 DEF Spawns, Takes
    <2>2. r.id \in Ids /\ r.sub.credit \in Nat
      BY <2>1, RequestFields
    <2>3. Tasked(t)' /\ task'[t].id \in Ids
      BY <1>3, <2>2 DEF Spawns, Tasked
    <2>. QED
      BY <1>3, <2>3, TaskingOne DEF Spawns
  <1>4. ASSUME NEW r, NEW t \in Tasks, Raises(r, t)
        PROVE  Tasking'
    <2>1. r \in Requests
      BY <1>4 DEF Raises, Takes
    <2>2. r.sub.credit \in Nat
      BY <2>1, RequestFields
    <2>3. /\ task[t].used \in Nat /\ task[t].granted \in Nat /\ task[t].seenFlow \in Nat
      BY TaskFields
    <2>4. ASSUME Alive(t)'
          PROVE  task'[t].id \in Ids /\ Tasked(t)'
      <3>1. Alive(t)
        BY <1>4, <2>4 DEF Raises, Alive
      <3>2. task[t].id \in Ids /\ Tasked(t)
        BY <3>1 DEF Tasking
      <3>3. task'[t].used <= task'[t].granted /\ task'[t].seenFlow <= task'[t].granted
        BY <1>4, <2>2, <2>3, <3>2 DEF Raises, Tasked
      <3>. QED
        BY <1>4, <3>2, <3>3 DEF Raises, Tasked
    <2>. QED
      BY <1>4, <2>4, TaskingOne DEF Raises
  <1>5. ASSUME Replied, pending.spawn \in Tasks, Kept(pending.spawn)
        PROVE  Tasking'
    <2>1. PICK t \in Tasks : t = pending.spawn
      BY <1>5
    <2>2. t # None
      BY DEF Tasks, None
    <2>3. Alive(t)
      BY <2>1, <2>2 DEF Alive
    <2>4. task[t].id \in Ids /\ Tasked(t)
      BY <2>3 DEF Tasking
    <2>5. Kept(t) /\ task'[t].pc \in {"viewing", "loop"} /\ task'[t].seenFlow = task[t].seenFlow
      BY <1>5, <2>1, <2>2 DEF Replied
    <2>6. Tasked(t)' /\ task'[t].id \in Ids
      BY <2>4, <2>5 DEF Kept, Tasked
    <2>. QED
      BY <2>5, <2>6, TaskingOne DEF Kept
  <1>. QED
    BY <1>1, <1>2, <1>3, <1>4, <1>5, TaskSteps

\* A task that acts is alive, and the others are what they were.
LEMMA Acting ==
    ASSUME NEW t \in Tasks, TaskStep(t)
    PROVE  /\ Alive(t) /\ Others(t) /\ task[t].pc # "spawning"
           /\ Alive(t)' => task'[t].id = task[t].id
           /\ \A u \in Tasks : u # t => (Alive(u)' <=> Alive(u)) /\ task'[u] = task[u]
  <1>1. Alive(t) /\ Others(t) /\ task[t].pc # "spawning"
    BY DEF TaskStep, Strolls, Prepares, Sends, Forgets, Ends, Alive, Strolling, Kept
  <1>2. Alive(t)' => task'[t].id = task[t].id
    BY DEF TaskStep, Strolls, Prepares, Sends, Forgets, Ends, Alive, Kept
  <1>. QED
    BY <1>1, <1>2 DEF Others, Alive

\* Only a Subscribe makes an id served: whoever is alive was, or was spawned.
LEMMA AliveSteps ==
    ASSUME Registered, AnyStep, ~\E r : \E t \in Tasks : Spawns(r, t)
    PROVE  \A u \in Tasks : Alive(u)' => Alive(u) /\ task'[u].id = task[u].id
  <1>1. CASE task' = task
    BY <1>1 DEF Alive
  <1>2. ASSUME NEW t \in Tasks, TaskStep(t)
        PROVE  \A u \in Tasks : Alive(u)' => Alive(u) /\ task'[u].id = task[u].id
    BY <1>2, Acting
  <1>3. ASSUME NEW r, NEW t \in Tasks, Raises(r, t)
        PROVE  \A u \in Tasks : Alive(u)' => Alive(u) /\ task'[u].id = task[u].id
    BY <1>3 DEF Raises, Others, Alive
  <1>4. ASSUME Replied, pending.spawn \in Tasks, Kept(pending.spawn)
        PROVE  \A u \in Tasks : Alive(u)' => Alive(u) /\ task'[u].id = task[u].id
    <2>1. PICK t \in Tasks : t = pending.spawn
      BY <1>4
    <2>2. t # None
      BY DEF Tasks, None
    <2>3. Alive(t) /\ task'[t].id = task[t].id
      BY <1>4, <2>1, <2>2 DEF Registered, Alive, Kept
    <2>. QED
      BY <1>4, <2>1, <2>3 DEF Kept, Others, Alive
  <1>. QED
    BY <1>1, <1>2, <1>3, <1>4, TaskSteps

\* Spawning, too, changes one task, for an id nobody serves.
LEMMA Spawning ==
    ASSUME Shaped, Living, NEW r, NEW t \in Tasks, Spawns(r, t)
    PROVE  /\ r \in Requests /\ r.kind = "subscribe" /\ r.id \in Ids
           /\ requests # <<>> /\ 1 \in DOMAIN requests /\ requests[1] = r
           /\ Waiting(r)
           /\ \A u \in Tasks : Alive(u) => task[u].id # r.id
           /\ \A u \in Tasks : Alive(u)' =>
                 \/ u = t /\ task'[u].id = r.id
                 \/ u # t /\ Alive(u) /\ task'[u] = task[u]
           /\ ~Alive(t) /\ Alive(t)' /\ task'[t].id = r.id
  <1>1. /\ r \in Requests /\ r.kind = "subscribe" /\ requests # <<>> /\ r = Head(requests)
        /\ Others(t) /\ task[t].pc = "unborn" /\ task'[t].pc = "spawning" /\ task'[t].id = r.id
    BY DEF Spawns, Takes
  <1>2. r.id \in Ids
    BY <1>1, RequestFields
  <1>3. 1 \in DOMAIN requests /\ requests[1] = r
    <2>1. requests \in Seq(Requests)
      BY DEF Shaped
    <2>. QED
      BY <1>1, <2>1, Left
  <1>4. \A u \in Tasks : Alive(u) => task[u].id # r.id
    BY <1>1, <1>3 DEF Living, Waiting, Unserved
  <1>. Waiting(r)
    BY <1>1, <1>3 DEF Living
  <1>5. ~Alive(t) /\ Alive(t)'
    BY <1>1 DEF Alive
  <1>6. \A u \in Tasks : u # t => (Alive(u)' <=> Alive(u)) /\ task'[u] = task[u]
    BY <1>1 DEF Others, Alive
  <1>. QED
    BY <1>1, <1>2, <1>3, <1>4, <1>5, <1>6

\* The steps that change the table.
LEMMA TableSteps ==
    ASSUME AnyStep
    PROVE  \/ table' = table
           \/ \E r : \E t \in Tasks : Spawns(r, t)
           \/ \E r : Cancels(r)
           \/ Close
           \/ \E t \in Tasks : TaskStep(t) /\ Forgets(t)
  <1>1. ASSUME NEW t \in Tasks, TaskStep(t)
        PROVE  table' = table \/ Forgets(t)
    BY <1>1 DEF TaskStep, Strolls, Prepares, Sends, Ends
  <1>2. ASSUME NEW r, NEW t \in Tasks, Raises(r, t)
        PROVE  table' = table
    BY <1>2 DEF Raises
  <1>3. ASSUME \/ FeedStep /\ UNCHANGED <<sessionVars, task, writing, opened, failures>>
               \/ \E id \in Ids : \E r : Opens(id, r) \/ Asks(id, r)
               \/ \E f : Hears(f)
               \/ \E r : Refuses(r)
               \/ Replied \/ WriterStops \/ UNCHANGED vars
        PROVE  table' = table
    BY <1>3 DEF Opens, Asks, Asking, Hears, Refuses, Replied, WriterStops, vars, sessionVars
  <1>. QED
    BY <1>1, <1>2, <1>3 DEF AnyStep

\* The task that the table names, as it is after the step.
Serves(u, id) == task'[u].pc \notin {"unborn", "done", "ending"} /\ task'[u].id = id

LEMMA RegisteredNext ==
    ASSUME Shaped, Tasking, Registered, Living, AnyStep
    PROVE  Registered'
  <1>0. table \in [Ids -> Tasks \cup {None}] /\ None \notin Tasks
    BY DEF Shaped, Tasks, None
  <1>1. \A t, u \in Tasks : Alive(t)' /\ Alive(u)' /\ task'[t].id = task'[u].id => t = u
    <2>1. ASSUME NEW r, NEW t \in Tasks, Spawns(r, t)
          PROVE  \A v, u \in Tasks : Alive(v)' /\ Alive(u)' /\ task'[v].id = task'[u].id => v = u
      <3>. SUFFICES ASSUME NEW v \in Tasks, NEW u \in Tasks, Alive(v)', Alive(u)',
                           task'[v].id = task'[u].id
                    PROVE  v = u
        OBVIOUS
      <3>1. \/ v = t /\ task'[v].id = r.id
            \/ v # t /\ Alive(v) /\ task'[v] = task[v]
        BY <2>1, Spawning
      <3>2. \/ u = t /\ task'[u].id = r.id
            \/ u # t /\ Alive(u) /\ task'[u] = task[u]
        BY <2>1, Spawning
      <3>3. \A w \in Tasks : Alive(w) => task[w].id # r.id
        BY <2>1, Spawning
      <3>. QED
        BY <3>1, <3>2, <3>3 DEF Registered
    <2>2. CASE ~\E r : \E t \in Tasks : Spawns(r, t)
      <3>1. \A u \in Tasks : Alive(u)' => Alive(u) /\ task'[u].id = task[u].id
        BY <2>2, AliveSteps
      <3>. QED
        BY <3>1 DEF Registered
    <2>. QED
      BY <2>1, <2>2
  <1>2. ASSUME NEW id \in Ids, table'[id] # None
        PROVE  Serves(table'[id], id)
    <2>1. ASSUME NEW r, NEW t \in Tasks, Spawns(r, t)
          PROVE  Serves(table'[id], id)
      <3>1. r.id \in Ids /\ table' = [table EXCEPT ![r.id] = t] /\ task'[t].pc = "spawning"
            /\ Alive(t)' /\ task'[t].id = r.id
        BY <2>1, Spawning DEF Spawns
      <3>2. CASE id = r.id
        <4>1. table'[id] = t
          BY <1>0, <3>1, <3>2
        <4>. QED
          BY <3>1, <3>2, <4>1 DEF Serves
      <3>3. CASE id # r.id
        <4>1. PICK u : u = table[id]
          OBVIOUS
        <4>2. table'[id] = u
          BY <1>0, <3>1, <3>3, <4>1
        <4>3. u # None /\ u \in Tasks
          BY <1>0, <1>2, <4>1, <4>2
        <4>4. Alive(u) /\ task[u].id = id /\ task[u].pc # "ending"
          BY <4>1, <4>3 DEF Registered
        <4>5. u # t
          BY <2>1, <4>4, Spawning
        <4>6. task'[u] = task[u]
          BY <2>1, <4>3, <4>5 DEF Spawns, Others
        <4>. QED
          BY <4>2, <4>4, <4>6 DEF Alive, Serves
      <3>. QED
        BY <3>2, <3>3
    <2>2. ASSUME ~\E r : \E t \in Tasks : Spawns(r, t)
          PROVE  Serves(table'[id], id)
      <3>1. PICK u : u = table[id]
        OBVIOUS
      <3>2. table'[id] = u
        <4>1. ASSUME NEW r, Cancels(r)
              PROVE  table'[id] = u
          <5>1. table' = [table EXCEPT ![r.id] = None]
            BY <4>1 DEF Cancels
          <5>. QED
            BY <1>0, <1>2, <3>1, <5>1
        <4>2. ASSUME NEW t \in Tasks, Forgets(t)
              PROVE  table'[id] = u
          <5>1. table' = [table EXCEPT ![task[t].id] = None]
            BY <4>2 DEF Forgets
          <5>. QED
            BY <1>0, <1>2, <3>1, <5>1
        <4>3. ~Close
          BY <1>2 DEF Close
        <4>. QED
          BY <2>2, <3>1, <4>1, <4>2, <4>3, TableSteps
      <3>3. u # None /\ u \in Tasks
        BY <1>0, <1>2, <3>1, <3>2
      <3>4. Alive(u) /\ task[u].id = id /\ task[u].pc # "ending"
        BY <3>1, <3>3 DEF Registered
      <3>5. Serves(u, id)
        <4>1. CASE task' = task
          BY <3>4, <4>1 DEF Alive, Serves
        <4>2. ASSUME NEW t \in Tasks, TaskStep(t)
              PROVE  Serves(u, id)
          <5>1. CASE u # t
            BY <3>3, <3>4, <4>2, <5>1, Acting DEF Alive, Serves
          <5>2. CASE u = t
            <6>1. ~Ends(t)
              BY <3>4, <5>2 DEF Ends
            <6>2. ~Forgets(t)
              <7>1. ASSUME Forgets(t)
                    PROVE  FALSE
                <8>1. table' = [table EXCEPT ![id] = None]
                  BY <3>4, <5>2, <7>1 DEF Forgets
                <8>. QED
                  BY <1>0, <1>2, <8>1
              <7>. QED
                BY <7>1
            <6>3. Strolls(t) \/ Prepares(t) => Serves(u, id)
              BY <3>4, <5>2 DEF Strolls, Prepares, Kept, Alive, Strolling, Serves
            <6>4. ASSUME Sends(t)
                  PROVE  Serves(u, id)
              <7>1. task[t].then \in {"loop", "exit"}
                BY <3>4, <5>2, <6>4 DEF Sends, Tasking, Tasked
              <7>. QED
                BY <3>4, <5>2, <6>4, <7>1 DEF Sends, Kept, Serves
            <6>. QED
              BY <4>2, <6>1, <6>2, <6>3, <6>4 DEF TaskStep
          <5>. QED
            BY <5>1, <5>2
        <4>3. ASSUME NEW r, NEW t \in Tasks, Raises(r, t)
              PROVE  Serves(u, id)
          BY <3>3, <3>4, <4>3 DEF Raises, Others, Alive, Serves
        <4>4. ASSUME Replied, pending.spawn \in Tasks, Kept(pending.spawn)
              PROVE  Serves(u, id)
          <5>1. task'[pending.spawn].pc \in {"viewing", "loop"}
            BY <1>0, <4>4 DEF Replied
          <5>. QED
            BY <3>3, <3>4, <4>4, <5>1 DEF Kept, Others, Alive, Serves
        <4>. QED
          BY <2>2, <4>1, <4>2, <4>3, <4>4, TaskSteps
      <3>. QED
        BY <3>2, <3>5
    <2>. QED
      BY <2>1, <2>2
  <1>3. pending'.spawn # None => task'[pending'.spawn].pc = "spawning"
    <2>0. pending.spawn # None => task[pending.spawn].pc = "spawning"
      BY DEF Registered
    <2>1. ASSUME NEW t \in Tasks, TaskStep(t)
          PROVE  pending'.spawn # None => task'[pending'.spawn].pc = "spawning"
      <3>1. pending' = pending
        BY <2>1 DEF TaskStep, TaskFrame
      <3>2. pending.spawn # None => pending.spawn # t /\ pending.spawn \in Tasks
        BY <2>0, <2>1, Acting DEF Shaped
      <3>. QED
        BY <2>0, <2>1, <3>1, <3>2, Acting
    <2>2. ASSUME NEW r, NEW t \in Tasks, Spawns(r, t)
          PROVE  pending'.spawn # None => task'[pending'.spawn].pc = "spawning"
      BY <2>2 DEF Spawns, Owes
    <2>3. ASSUME NEW r, (\E t \in Tasks : Raises(r, t)) \/ Refuses(r) \/ Replied
          PROVE  pending'.spawn # None => task'[pending'.spawn].pc = "spawning"
      BY <2>3 DEF Raises, Refuses, Owes, Replied
    <2>4. ASSUME \/ FeedStep /\ UNCHANGED <<sessionVars, task, writing, opened, failures>>
                 \/ \E id \in Ids : \E r : Opens(id, r) \/ Asks(id, r)
                 \/ \E f : Hears(f)
                 \/ \E r : Cancels(r)
                 \/ Close \/ WriterStops \/ UNCHANGED vars
          PROVE  pending' = pending /\ task' = task
      BY <2>4 DEF Opens, Asks, Asking, Hears, Cancels, Close, WriterStops, vars, sessionVars
    <2>. QED
      BY <2>0, <2>1, <2>2, <2>3, <2>4 DEF AnyStep
  <1>4. \A id \in Ids : table'[id] # None =>
           /\ Alive(table[id])' /\ task'[table'[id]].id = id
           /\ task'[table'[id]].pc # "ending"
    BY <1>2 DEF Serves, Alive
  <1>. QED
    BY <1>1, <1>3, <1>4 DEF Registered

-----------------------------------------------------------------------------
(* Who speaks under an id, and when nobody does. *)

\* A task puts the frame f into the outbox: what it was sending, or its End.
Voices(t, f) ==
    /\ TaskStep(t) /\ Alive(t) /\ f \in Frames /\ f.id = task[t].id /\ out' = Append(out, f)
    /\ writing
    /\ \/ Sends(t) /\ f = task[t].frame /\ f.kind # "end" /\ task[t].pc = "sending"
       \/ Ends(t) /\ f.kind = "end" /\ f.entries = <<>>

LEMMA Speaking ==
    ASSUME Shaped, Tasking, AnyStep
    PROVE  \/ out' = out
           \/ \E f : Hears(f)
           \/ Replied /\ \E f \in Frames : f \in Replies /\ writing /\ out' = Append(out, f)
           \/ \E t \in Tasks : \E f : Voices(t, f)
           \/ WriterStops
  <1>1. ASSUME NEW t \in Tasks, TaskStep(t)
        PROVE  out' = out \/ \E f : Voices(t, f)
    <2>1. Alive(t)
      BY <1>1, Acting
    <2>2. CASE Strolls(t) \/ Prepares(t) \/ Forgets(t)
      BY <2>2 DEF Strolls, Prepares, Forgets
    <2>3. CASE Sends(t)
      <3>1. task[t].pc = "sending" /\ task[t].frame.kind # "end"
        BY <2>1, <2>3 DEF Sends, Tasking, Tasked
      <3>. QED
        BY <1>1, <2>1, <2>3, <3>1, SentFrame DEF Sends, Voices
    <2>4. CASE Ends(t)
      BY <1>1, <2>1, <2>4, SentFrame DEF Ends, Voices
    <2>. QED
      BY <1>1, <2>2, <2>3, <2>4 DEF TaskStep
  <1>2. CASE Replied
    BY <1>2 DEF Replied, Replies
  <1>3. ASSUME \/ FeedStep /\ UNCHANGED <<sessionVars, task, writing, opened, failures>>
               \/ \E id \in Ids : \E r : Opens(id, r) \/ Asks(id, r)
               \/ \E r : Refuses(r)
               \/ \E r : \E t \in Tasks : Spawns(r, t) \/ Raises(r, t)
               \/ \E r : Cancels(r)
               \/ Close \/ UNCHANGED vars
        PROVE  out' = out
    BY <1>3 DEF Opens, Asks, Asking, Refuses, Spawns, Raises, Cancels, Takes, Close, vars,
                sessionVars
  <1>. QED
    BY <1>1, <1>2, <1>3 DEF AnyStep

\* What leaves does not disturb the quiet, nor does a frame of another stream.
LEMMA QuietJoin ==
    ASSUME out \in Seq(Frames), NEW id, Quiet(id), NEW f \in Frames, out' = Append(out, f),
           f.id = id => f.kind \notin OfStream
    PROVE  Quiet(id)'
  <1>. SUFFICES ASSUME NEW k \in DOMAIN out', out'[k].id = id
                PROVE  out'[k].kind \notin OfStream
    BY DEF Quiet
  <1>1. \/ k \in DOMAIN out /\ out'[k] = out[k]
        \/ out'[k] = f
    BY Joined
  <1>. QED
    BY <1>1 DEF Quiet

LEMMA QuietLeave ==
    ASSUME out \in Seq(Frames), NEW id, Quiet(id), out # <<>>, out' = Tail(out)
    PROVE  Quiet(id)'
  <1>. SUFFICES ASSUME NEW k \in DOMAIN out', out'[k].id = id
                PROVE  out'[k].kind \notin OfStream
    BY DEF Quiet
  <1>1. k + 1 \in DOMAIN out /\ out'[k] = out[k + 1]
    BY Left
  <1>. QED
    BY <1>1 DEF Quiet

\* An id stays quiet while no task serves it.
LEMMA QuietNext ==
    ASSUME Shaped, Tasking, AnyStep, NEW id, Quiet(id), Unserved(id)
    PROVE  Quiet(id)'
  <1>0. out \in Seq(Frames)
    BY DEF Shaped
  <1>1. CASE out' = out
    BY <1>1 DEF Quiet
  <1>2. ASSUME NEW f, Hears(f)
        PROVE  Quiet(id)'
    BY <1>0, <1>2, QuietLeave DEF Hears
  <1>3. ASSUME NEW f \in Frames, f \in Replies, out' = Append(out, f)
        PROVE  Quiet(id)'
    BY <1>0, <1>3, QuietJoin DEF Replies, OfStream, Moving
  <1>4. ASSUME NEW t \in Tasks, NEW f, Voices(t, f)
        PROVE  Quiet(id)'
    <2>1. f \in Frames /\ f.id # id /\ out' = Append(out, f)
      BY <1>4 DEF Voices, Unserved
    <2>. QED
      BY <1>0, <2>1, QuietJoin
  <1>5. CASE WriterStops
    <2>1. out' = <<>>
      BY <1>5 DEF WriterStops
    <2>. QED
      BY <2>1 DEF Quiet
  <1>. QED
    BY <1>1, <1>2, <1>3, <1>4, <1>5, Speaking

\* And it is served only after a Subscribe.
LEMMA UnservedNext ==
    ASSUME Shaped, Registered, Living, AnyStep, NEW id, Unserved(id),
           \A r : \A t \in Tasks : Spawns(r, t) => r.id # id
    PROVE  Unserved(id)'
  <1>1. ASSUME NEW r, NEW t \in Tasks, Spawns(r, t)
        PROVE  Unserved(id)'
    <2>1. r.id # id
      BY <1>1
    <2>2. \A u \in Tasks : Alive(u)' => \/ u = t /\ task'[u].id = r.id
                                        \/ u # t /\ Alive(u) /\ task'[u] = task[u]
      BY <1>1, Spawning
    <2>3. \A u \in Tasks : Alive(u)' => task'[u].id # id
      BY <2>1, <2>2 DEF Unserved
    <2>. QED
      BY <2>3 DEF Unserved
  <1>2. CASE ~\E r : \E t \in Tasks : Spawns(r, t)
    <2>1. \A u \in Tasks : Alive(u)' => Alive(u) /\ task'[u].id = task[u].id
      BY <1>2, AliveSteps
    <2>2. \A u \in Tasks : Alive(u)' => task'[u].id # id
      BY <2>1 DEF Unserved
    <2>. QED
      BY <2>2 DEF Unserved
  <1>. QED
    BY <1>1, <1>2

\* The steps that change what the client takes a stream to be.
LEMMA ClientSteps ==
    ASSUME AnyStep
    PROVE  \/ client' = client
           \/ \E id \in Ids : \E r : Opens(id, r) \/ Asks(id, r)
           \/ \E f : Hears(f)
  BY DEF AnyStep, Refuses, Spawns, Raises, Cancels, Takes, Replied, Close, WriterStops,
         TaskStep, TaskFrame, vars, sessionVars

\* Only its End makes an open id free.
LEMMA Freeing ==
    ASSUME Shaped, AnyStep, NEW id \in Ids, client[id].phase = "open",
           client'[id].phase # "open"
    PROVE  \E f : /\ Hears(f) /\ f.kind = "end" /\ f.id = id
                  /\ 1 \in DOMAIN out /\ out[1] = f
  <1>1. ASSUME NEW i \in Ids, NEW r, Opens(i, r) \/ Asks(i, r)
        PROVE  FALSE
    BY <1>1 DEF Opens, Asks, Asking
  <1>2. ASSUME NEW f, Hears(f)
        PROVE  /\ Hears(f) /\ f.kind = "end" /\ f.id = id
               /\ 1 \in DOMAIN out /\ out[1] = f
    <2>1. f.id = id /\ f.kind = "end"
      BY <1>2 DEF Hears
    <2>2. out \in Seq(Frames)
      BY DEF Shaped
    <2>3. 1 \in DOMAIN out /\ out[1] = f
      BY <1>2, <2>2, Left DEF Hears
    <2>. QED
      BY <1>2, <2>1, <2>3
  <1>. QED
    BY <1>1, <1>2, ClientSteps

\* A Subscribe that waits goes on waiting until it is taken.
LEMMA WaitingNext ==
    ASSUME Shaped, Tasking, Registered, Living, AnyStep, NEW r \in Requests, Waiting(r),
           \A s : \A t \in Tasks : Spawns(s, t) => s.id # r.id
    PROVE  Waiting(r)'
  <1>0. r.id \in Ids
    BY RequestFields
  <1>1. Quiet(r.id)' /\ Unserved(r.id)'
    BY QuietNext, UnservedNext DEF Waiting
  <1>2. client'[r.id].phase = "open" /\ client'[r.id].pos = r.sub.from /\ client'[r.id].got = 0
    <2>1. ASSUME NEW i \in Ids, NEW s, Opens(i, s) \/ Asks(i, s)
          PROVE  /\ client'[r.id].phase = "open" /\ client'[r.id].pos = r.sub.from
                 /\ client'[r.id].got = 0
      BY <1>0, <2>1 DEF Waiting, Opens, Asks, Asking
    <2>2. ASSUME NEW f, Hears(f)
          PROVE  /\ client'[r.id].phase = "open" /\ client'[r.id].pos = r.sub.from
                 /\ client'[r.id].got = 0
      <3>1. CASE f.id # r.id
        BY <1>0, <2>2, <3>1 DEF Hears, Waiting
      <3>2. CASE f.id = r.id
        <4>0. out \in Seq(Frames)
          BY DEF Shaped
        <4>1. 1 \in DOMAIN out /\ out[1] = f /\ f \in Frames
          BY <2>2, <4>0, Left DEF Hears
        <4>2. f.kind \notin OfStream
          BY <3>2, <4>1 DEF Waiting, Quiet
        <4>3. f.kind \notin {"view", "records", "gap", "end"}
          BY <4>2 DEF OfStream, Moving
        <4>4. Len(f.entries) = 0
          BY <4>1, <4>3, FrameFields DEF Frames
        <4>5. Moved(f, client[f.id].pos) = client[f.id].pos
          BY <4>3 DEF Moved
        <4>. QED
          BY <2>2, <3>2, <4>3, <4>4, <4>5 DEF Hears, Waiting
      <3>. QED
        BY <3>1, <3>2
    <2>3. CASE client' = client
      BY <2>3 DEF Waiting
    <2>. QED
      BY <2>1, <2>2, <2>3, ClientSteps
  <1>. QED
    BY <1>1, <1>2 DEF Waiting

-----------------------------------------------------------------------------
(* The life of an id. *)

\* The steps that change the requests.
LEMMA AskSteps ==
    ASSUME AnyStep
    PROVE  \/ requests' = requests
           \/ \E id \in Ids : \E r \in Requests : Opens(id, r) \/ Asks(id, r)
           \/ \E r : Takes(r)
           \/ requests' = <<>>
  BY DEF AnyStep, Opens, Asks, Hears, Refuses, Spawns, Raises, Cancels, Replied, Close,
         WriterStops, TaskStep, TaskFrame, vars, sessionVars

\* A client is there for every task.
LEMMA ServedNext ==
    ASSUME Shaped, Tasking, Registered, Living, AnyStep, NEW t \in Tasks, Alive(t)'
    PROVE  client'[task'[t].id].phase = "open"
  <1>1. ASSUME NEW r, NEW u \in Tasks, Spawns(r, u)
        PROVE  client'[task'[t].id].phase = "open"
    <2>1. client' = client
      BY <1>1 DEF Spawns, Takes
    <2>2. \/ t = u /\ task'[t].id = r.id
          \/ t # u /\ Alive(t) /\ task'[t] = task[t]
      BY <1>1, Spawning
    <2>3. client[r.id].phase = "open"
      BY <1>1, Spawning DEF Waiting
    <2>. QED
      BY <2>1, <2>2, <2>3 DEF Living
  <1>2. CASE ~\E r : \E u \in Tasks : Spawns(r, u)
    <2>1. PICK id : id = task[t].id
      OBVIOUS
    <2>2. Alive(t) /\ task'[t].id = id
      BY <1>2, <2>1, AliveSteps
    <2>3. id \in Ids /\ client[id].phase = "open"
      BY <2>1, <2>2 DEF Tasking, Living
    <2>4. client'[id].phase = "open"
      <3>. SUFFICES ASSUME client'[id].phase # "open"
                    PROVE  FALSE
        OBVIOUS
      <3>1. PICK f : f.kind = "end" /\ f.id = id /\ 1 \in DOMAIN out /\ out[1] = f
        BY <2>3, Freeing
      <3>2. Unserved(id)
        BY <3>1 DEF Living
      <3>. QED
        BY <2>1, <2>2, <3>2 DEF Unserved
    <2>. QED
      BY <2>2, <2>4
  <1>. QED
    BY <1>1, <1>2

\* Nothing of a stream is on its way once its id is free.
LEMMA FreeNext ==
    ASSUME Shaped, Tasking, Registered, Living, AnyStep, NEW id \in Ids,
           client'[id].phase = "free"
    PROVE  Quiet(id)'
  <1>1. CASE client[id].phase = "free"
    <2>1. Quiet(id)
      BY <1>1 DEF Living
    <2>2. Unserved(id)
      BY <1>1 DEF Living, Unserved
    <2>. QED
      BY <2>1, <2>2, QuietNext
  <1>2. CASE client[id].phase # "free"
    <2>1. client[id] \in Clients
      BY DEF Shaped
    <2>2. client[id].phase = "open"
      BY <1>2, <2>1 DEF Clients
    <2>3. PICK f : /\ Hears(f) /\ f.kind = "end" /\ f.id = id
                   /\ 1 \in DOMAIN out /\ out[1] = f
      BY <2>2, Freeing
    <2>4. out \in Seq(Frames) /\ out # <<>> /\ out' = Tail(out)
      BY <2>3 DEF Shaped, Hears
    <2>5. \A j \in DOMAIN out : j > 1 /\ out[j].id = id => out[j].kind \notin OfStream
      BY <2>3 DEF Living
    <2>6. ASSUME NEW k \in DOMAIN out', out'[k].id = id
          PROVE  out'[k].kind \notin OfStream
      <3>1. k \in Nat /\ k >= 1 /\ k + 1 \in DOMAIN out /\ out'[k] = out[k + 1]
        BY <2>4, Left
      <3>2. k + 1 > 1
        BY <3>1
      <3>. QED
        BY <2>5, <2>6, <3>1, <3>2
    <2>. QED
      BY <2>6 DEF Quiet
  <1>. QED
    BY <1>1, <1>2

\* A sequence is longer than its tail.
LEMMA NotTail ==
    ASSUME NEW S, NEW s \in Seq(S), NEW k \in DOMAIN s
    PROVE  s # Tail(s) /\ \A x : Append(s, x) # Tail(s)
  <1>1. Len(s) \in Nat /\ s # <<>>
    OBVIOUS
  <1>2. Len(Tail(s)) = Len(s) - 1
    BY <1>1, Left
  <1>3. \A x : Len(Append(s, x)) = Len(s) + 1
    BY Joined
  <1>4. \A n \in Nat : n # n - 1 /\ n + 1 # n - 1
    OBVIOUS
  <1>5. s # Tail(s)
    BY <1>1, <1>2, <1>4, Zenon
  <1>6. ASSUME NEW x
        PROVE  Append(s, x) # Tail(s)
    BY <1>1, <1>2, <1>3, <1>4, Zenon
  <1>. QED
    BY <1>5, <1>6

\* The only Subscribe for an id among s.
Single(s, k) ==
    \A j \in DOMAIN s : s[j].kind = "subscribe" /\ s[j].id = s[k].id => j = k

\* A Subscribe that is not the one being taken is for another id.
LEMMA NotTaken ==
    ASSUME Shaped, Living, NEW k \in DOMAIN requests, requests[k].kind = "subscribe",
           requests' = Tail(requests) => k # 1
    PROVE  \A s : \A t \in Tasks : Spawns(s, t) => s.id # requests[k].id
  <1>. SUFFICES ASSUME NEW s, NEW t \in Tasks, Spawns(s, t), s.id = requests[k].id
                PROVE  FALSE
    OBVIOUS
  <1>1. s.kind = "subscribe" /\ 1 \in DOMAIN requests /\ requests[1] = s
    BY Spawning
  <1>2. k # 1
    BY DEF Spawns, Takes
  <1>3. Single(requests, k)
    BY DEF Living, Single
  <1>. QED
    BY <1>1, <1>2, <1>3 DEF Single

LEMMA RequestsNext ==
    ASSUME Shaped, Tasking, Registered, Living, AnyStep, NEW k \in DOMAIN requests',
           requests'[k].kind = "subscribe"
    PROVE  Waiting(requests[k])' /\ Single(requests', k)
  <1>0. requests \in Seq(Requests) /\ DOMAIN requests = 1..Len(requests) /\ Len(requests) \in Nat
    BY DEF Shaped
  <1>1. PICK r : r = requests'[k]
    OBVIOUS
  <1>2. CASE requests' = requests
    <2>1. k \in DOMAIN requests /\ r = requests[k] /\ r \in Requests
      BY <1>0, <1>1, <1>2
    <2>2. Waiting(r) /\ Single(requests, k)
      BY <1>1, <2>1 DEF Living, Single
    <2>3. requests' # Tail(requests)
      BY <1>0, <1>2, <2>1, NotTail
    <2>4. Waiting(r)'
      BY <1>1, <2>1, <2>2, <2>3, NotTaken, WaitingNext
    <2>. QED
      BY <1>1, <1>2, <2>2, <2>4 DEF Waiting
  <1>3. ASSUME NEW s, Takes(s)
        PROVE  Waiting(requests[k])' /\ Single(requests', k)
    <2>0. requests # <<>> /\ requests' = Tail(requests)
      BY <1>3 DEF Takes
    <2>1. /\ k \in Nat /\ k >= 1 /\ k + 1 \in DOMAIN requests /\ r = requests[k + 1]
          /\ r \in Requests
      BY <1>0, <1>1, <2>0, Left
    <2>2. PICK m : m = k + 1
      OBVIOUS
    <2>3. Waiting(r) /\ Single(requests, m)
      BY <1>1, <2>1, <2>2 DEF Living, Single
    <2>4. m # 1
      BY <2>1, <2>2
    <2>5. Waiting(r)'
      BY <1>1, <2>1, <2>2, <2>3, <2>4, NotTaken, WaitingNext
    <2>6. ASSUME NEW j \in DOMAIN requests', requests'[j].kind = "subscribe",
                 requests'[j].id = requests'[k].id
          PROVE  j = k
      <3>1. j \in Nat /\ j + 1 \in DOMAIN requests /\ requests'[j] = requests[j + 1]
        BY <1>0, <2>0, Left
      <3>2. j + 1 = m
        BY <1>1, <2>1, <2>2, <2>3, <2>6, <3>1 DEF Single
      <3>. QED
        BY <2>1, <2>2, <3>1, <3>2
    <2>. QED
      BY <1>1, <2>5, <2>6 DEF Waiting, Single
  <1>4. ASSUME NEW id \in Ids, NEW s \in Requests, Opens(id, s) \/ Asks(id, s)
        PROVE  Waiting(requests[k])' /\ Single(requests', k)
    <2>0. requests' = Append(requests, s) /\ s.id = id
      BY <1>4 DEF Opens, Asks
    <2>1. /\ \A j \in DOMAIN requests' : \/ j \in DOMAIN requests /\ requests'[j] = requests[j]
                                         \/ j = Len(requests) + 1 /\ requests'[j] = s
      BY <1>0, <2>0, Joined
    <2>2. ASSUME s.kind = "subscribe"
          PROVE  /\ Opens(id, s) /\ client[id].phase = "free"
                 /\ \A j \in DOMAIN requests :
                       requests[j].kind = "subscribe" => requests[j].id # id
      <3>1. Opens(id, s) /\ client[id].phase = "free"
        BY <1>4, <2>2 DEF Opens, Asks
      <3>. QED
        BY <3>1 DEF Living, Waiting
    <2>3. CASE k \in DOMAIN requests /\ requests'[k] = requests[k]
      <3>1. Waiting(r) /\ Single(requests, k) /\ r \in Requests
        BY <1>0, <1>1, <2>3 DEF Living, Single
      <3>2. requests' # Tail(requests)
        BY <1>0, <2>0, <2>3, NotTail
      <3>3. Waiting(r)'
        BY <1>1, <2>3, <3>1, <3>2, NotTaken, WaitingNext
      <3>4. Single(requests', k)
        BY <2>0, <2>1, <2>2, <2>3, <3>1 DEF Single
      <3>. QED
        BY <1>1, <3>3, <3>4 DEF Waiting
    <2>4. CASE k = Len(requests) + 1 /\ requests'[k] = s
      <3>1. Opens(id, s) /\ client[id].phase = "free"
        BY <2>2, <2>4
      <3>2. Quiet(id) /\ Unserved(id)
        BY <3>1 DEF Living, Unserved
      <3>3. out' = out /\ task' = task
        BY <3>1 DEF Opens, Asking
      <3>4. Waiting(s)'
        BY <2>0, <3>1, <3>2, <3>3 DEF Waiting, Quiet, Unserved, Alive, Opens
      <3>5. Single(requests', k)
        BY <2>0, <2>1, <2>2, <2>4 DEF Single
      <3>. QED
        BY <2>4, <3>4, <3>5 DEF Waiting
    <2>. QED
      BY <2>1, <2>3, <2>4
  <1>5. requests' # <<>>
    OBVIOUS
  <1>. QED
    BY <1>2, <1>3, <1>4, <1>5, AskSteps

\* Behind an End nothing of the stream is left.
LastOf(s, k) ==
    \A j \in DOMAIN s : j > k /\ s[j].id = s[k].id => s[j].kind \notin OfStream

LEMMA EndsNext ==
    ASSUME Shaped, Tasking, Registered, Living, AnyStep, NEW k \in DOMAIN out',
           out'[k].kind = "end"
    PROVE  Unserved(out[k].id)' /\ LastOf(out', k)
  <1>0. out \in Seq(Frames) /\ DOMAIN out = 1..Len(out) /\ Len(out) \in Nat
    BY DEF Shaped
  <1>1. PICK f : f = out'[k]
    OBVIOUS
  <1>2. ASSUME NEW m \in DOMAIN out, f = out[m]
        PROVE  Unserved(f.id) /\ Unserved(f.id)' /\ LastOf(out, m)
    <2>1. Unserved(f.id) /\ LastOf(out, m)
      BY <1>1, <1>2 DEF Living, LastOf
    <2>2. ASSUME NEW s, NEW t \in Tasks, Spawns(s, t), s.id = f.id
          PROVE  FALSE
      <3>1. Quiet(s.id)
        BY <2>2, Spawning DEF Waiting
      <3>. QED
        BY <1>1, <1>2, <2>2, <3>1 DEF Quiet, OfStream
    <2>. QED
      BY <2>1, <2>2, UnservedNext
  <1>3. CASE out' = out
    BY <1>1, <1>2, <1>3 DEF Unserved, LastOf
  <1>4. ASSUME NEW g, Hears(g)
        PROVE  Unserved(out[k].id)' /\ LastOf(out', k)
    <2>0. out # <<>> /\ out' = Tail(out)
      BY <1>4 DEF Hears
    <2>1. k \in Nat /\ k + 1 \in DOMAIN out /\ f = out[k + 1]
      BY <1>0, <1>1, <2>0, Left
    <2>2. PICK m : m = k + 1
      OBVIOUS
    <2>3. Unserved(f.id)' /\ LastOf(out, m)
      BY <1>2, <2>1, <2>2
    <2>4. ASSUME NEW j \in DOMAIN out', j > k, out'[j].id = out'[k].id
          PROVE  out'[j].kind \notin OfStream
      <3>1. j \in Nat /\ j + 1 \in DOMAIN out /\ out'[j] = out[j + 1]
        BY <1>0, <2>0, Left
      <3>2. j + 1 > m
        BY <2>1, <2>2, <2>4, <3>1
      <3>. QED
        BY <1>1, <2>1, <2>2, <2>3, <2>4, <3>1, <3>2 DEF LastOf
    <2>. QED
      BY <1>1, <2>3, <2>4 DEF Unserved, LastOf
  <1>5. ASSUME NEW g \in Frames, out' = Append(out, g),
               \/ g \in Replies
               \/ \E t \in Tasks : Voices(t, g)
        PROVE  Unserved(out[k].id)' /\ LastOf(out', k)
    <2>1. \A j \in DOMAIN out' : \/ j \in DOMAIN out /\ out'[j] = out[j]
                                 \/ j = Len(out) + 1 /\ out'[j] = g
      BY <1>0, <1>5, Joined
    <2>2. g \in Replies => g.kind \notin OfStream
      BY DEF Replies, OfStream, Moving
    <2>3. CASE k \in DOMAIN out /\ out'[k] = out[k]
      <3>1. Unserved(f.id) /\ Unserved(f.id)' /\ LastOf(out, k)
        BY <1>1, <1>2, <2>3
      <3>2. g.id = f.id => g.kind \notin OfStream
        BY <1>5, <2>2, <3>1 DEF Voices, Unserved
      <3>3. LastOf(out', k)
        BY <1>1, <2>1, <2>3, <3>1, <3>2 DEF LastOf
      <3>. QED
        BY <1>1, <3>1, <3>3 DEF Unserved
    <2>4. CASE k = Len(out) + 1 /\ out'[k] = g
      <3>1. \A j \in DOMAIN out' : ~(j > k)
        <4>1. \A j \in DOMAIN out : j <= Len(out)
          BY <1>0
        <4>2. \A j \in DOMAIN out' : j \in Nat /\ (j <= Len(out) \/ j = Len(out) + 1)
          BY <1>0, <2>1, <4>1
        <4>. QED
          BY <1>0, <2>4, <4>2
      <3>2. PICK t \in Tasks : Voices(t, g)
        BY <1>5, <2>2, <2>4 DEF OfStream
      <3>3. Ends(t) /\ Alive(t) /\ g.id = task[t].id /\ TaskStep(t)
        BY <2>4, <3>2 DEF Voices
      <3>4. ~Alive(t)'
        BY <3>3 DEF Ends, Alive
      <3>5. \A u \in Tasks : Alive(u)' => task'[u].id # g.id
        <4>. SUFFICES ASSUME NEW u \in Tasks, Alive(u)', task'[u].id = g.id
                      PROVE  FALSE
          OBVIOUS
        <4>1. u # t
          BY <3>4
        <4>2. Alive(u) /\ task[u].id = g.id
          BY <3>3, <4>1, Acting
        <4>. QED
          BY <3>3, <4>1, <4>2 DEF Registered
      <3>. QED
        BY <2>4, <3>1, <3>5 DEF Unserved, LastOf
    <2>. QED
      BY <2>1, <2>3, <2>4
  <1>6. ~WriterStops
    BY DEF WriterStops
  <1>. QED
    BY <1>3, <1>4, <1>5, <1>6, Speaking DEF Voices

LEMMA LivingNext ==
    ASSUME Shaped, Tasking, Registered, Living, AnyStep
    PROVE  Living'
  <1>1. \A t \in Tasks : Alive(t)' => client'[task'[t].id].phase = "open"
    BY ServedNext
  <1>2. \A id \in Ids : client'[id].phase = "free" => Quiet(id)'
    BY FreeNext
  <1>3. \A k \in DOMAIN requests' : requests'[k].kind = "subscribe" =>
           Waiting(requests[k])' /\ Single(requests', k)
    BY RequestsNext
  <1>4. \A k \in DOMAIN out' : out'[k].kind = "end" =>
           Unserved(out[k].id)' /\ LastOf(out', k)
    BY EndsNext
  <1>. QED
    BY <1>1, <1>2, <1>3, <1>4 DEF Living, Single, LastOf

-----------------------------------------------------------------------------
(* What a task has in hand. *)

\* A task that something else happens to.
Same(t) ==
    /\ task'[t].pc = task[t].pc /\ task'[t].frame = task[t].frame
    /\ task'[t].cursor = task[t].cursor /\ task'[t].used = task[t].used
    /\ task'[t].then = task[t].then

\* What can happen to a task that goes on.
LEMMA TaskChange ==
    ASSUME Shaped, Registered, Living, AnyStep, NEW t \in Tasks, Alive(t), Alive(t)'
    PROVE  /\ task'[t].id = task[t].id
           /\ \/ Same(t)
              \/ TaskStep(t)
              \/ /\ task[t].pc = "spawning" /\ task'[t].pc \in {"viewing", "loop"}
                 /\ task'[t].cursor = task[t].cursor /\ task'[t].used = task[t].used
  <1>1. CASE task' = task
    BY <1>1 DEF Same
  <1>2. ASSUME NEW u \in Tasks, TaskStep(u)
        PROVE  /\ task'[t].id = task[t].id
               /\ Same(t) \/ TaskStep(t)
    <2>1. CASE u = t
      BY <1>2, <2>1, Acting
    <2>2. CASE u # t
      BY <1>2, <2>2, Acting DEF Same
    <2>. QED
      BY <2>1, <2>2
  <1>3. ASSUME NEW r, NEW u \in Tasks, Spawns(r, u)
        PROVE  task'[t].id = task[t].id /\ Same(t)
    <2>1. u # t
      BY <1>3, Spawning
    <2>2. task'[t] = task[t]
      BY <1>3, <2>1 DEF Spawns, Others
    <2>. QED
      BY <2>2 DEF Same
  <1>4. ASSUME NEW r, NEW u \in Tasks, Raises(r, u)
        PROVE  task'[t].id = task[t].id /\ Same(t)
    <2>1. CASE u = t
      BY <1>4, <2>1 DEF Raises, Same
    <2>2. CASE u # t
      <3>1. task'[t] = task[t]
        BY <1>4, <2>2 DEF Raises, Others
      <3>. QED
        BY <3>1 DEF Same
    <2>. QED
      BY <2>1, <2>2
  <1>5. ASSUME Replied, pending.spawn \in Tasks, Kept(pending.spawn)
        PROVE  /\ task'[t].id = task[t].id
               /\ \/ Same(t)
                  \/ /\ task[t].pc = "spawning" /\ task'[t].pc \in {"viewing", "loop"}
                     /\ task'[t].cursor = task[t].cursor /\ task'[t].used = task[t].used
    <2>1. PICK u \in Tasks : u = pending.spawn
      BY <1>5
    <2>2. u # None
      BY DEF Tasks, None
    <2>3. task[u].pc = "spawning" /\ task'[u].pc \in {"viewing", "loop"} /\ Kept(u)
      BY <1>5, <2>1, <2>2 DEF Registered, Replied
    <2>4. CASE u = t
      BY <2>3, <2>4 DEF Kept
    <2>5. CASE u # t
      <3>1. task'[t] = task[t]
        BY <2>3, <2>5 DEF Kept, Others
      <3>. QED
        BY <3>1 DEF Same
    <2>. QED
      BY <2>4, <2>5
  <1>. QED
    BY <1>1, <1>2, <1>3, <1>4, <1>5, TaskSteps

\* What it sends it has just prepared, or was sending before.
LEMMA Sending ==
    ASSUME Shaped, Tasking, Registered, Living, AnyStep, NEW t \in Tasks,
           task'[t].pc = "sending"
    PROVE  /\ Alive(t) /\ task'[t].id = task[t].id
           /\ \/ Same(t)
              \/ TaskStep(t) /\ Prepares(t)
  <1>1. Alive(t)'
    BY DEF Alive
  <1>2. Alive(t)
    <2>1. ASSUME NEW r, NEW u \in Tasks, Spawns(r, u)
          PROVE  u # t
      BY <2>1 DEF Spawns
    <2>2. ASSUME NEW r, NEW u \in Tasks, Spawns(r, u)
          PROVE  Alive(t)
      BY <1>1, <2>1, <2>2, Spawning
    <2>. QED
      BY <1>1, <2>2, AliveSteps
  <1>3. /\ task'[t].id = task[t].id
        /\ \/ Same(t) \/ TaskStep(t) \/ task'[t].pc \in {"viewing", "loop"}
    BY <1>1, <1>2, TaskChange
  <1>4. ASSUME TaskStep(t)
        PROVE  Prepares(t)
    <2>1. ~Sends(t)
      BY <1>2 DEF Sends, Tasking, Tasked
    <2>2. ~Strolls(t) /\ ~Forgets(t) /\ ~Ends(t)
      BY DEF Strolls, Strolling, Forgets, Ends
    <2>. QED
      BY <1>4, <2>1, <2>2 DEF TaskStep
  <1>. QED
    BY <1>2, <1>3, <1>4

\* The floor only rises.
LEMMA FloorNext ==
    ASSUME Shaped, Bounded, Windowed, AnyStep
    PROVE  floor \in Nat /\ floor' \in Nat /\ floor <= floor'
  <1>1. floor \in Nat
    BY DEF Shaped
  <1>2. CASE FeedStep
    BY <1>1, <1>2, FeedEffects DEF Fed
  <1>3. CASE UNCHANGED feedVars
    BY <1>1, <1>3 DEF feedVars
  <1>. QED
    BY <1>2, <1>3, FeedOnly

LEMMA ReclaimedNext ==
    ASSUME Shaped, Bounded, Windowed, Tasking, Registered, Living, Reclaimed, AnyStep
    PROVE  Reclaimed'
  <1>0. /\ out \in Seq(Frames)
        /\ \A n \in Nat : n < floor => n < floor'
    BY FloorNext DEF Shaped
  <1>1. ASSUME NEW k \in DOMAIN out', out'[k].kind = "gap"
        PROVE  out'[k].to < floor'
    <2>1. ASSUME NEW m \in DOMAIN out, out'[k] = out[m]
          PROVE  out'[k].to < floor'
      <3>1. out[m] \in FrameOf(Ids)
        BY <1>0 DEF Frames
      <3>2. out[m].to \in Nat
        BY <3>1, FrameFields
      <3>3. out[m].to < floor
        BY <1>1, <2>1 DEF Reclaimed, GapIsReclaimed
      <3>. QED
        BY <1>0, <2>1, <3>2, <3>3
    <2>2. CASE out' = out
      BY <2>1, <2>2
    <2>3. ASSUME NEW f, Hears(f)
          PROVE  \E m \in DOMAIN out : out'[k] = out[m]
      BY <1>0, <2>3, Left DEF Hears
    <2>4. ASSUME NEW f \in Frames, f \in Replies, out' = Append(out, f)
          PROVE  \E m \in DOMAIN out : out'[k] = out[m]
      BY <1>0, <1>1, <2>4, Joined DEF Replies
    <2>5. ASSUME NEW t \in Tasks, NEW f, Voices(t, f)
          PROVE  out'[k].to < floor'
      <3>1. \/ \E m \in DOMAIN out : out'[k] = out[m]
            \/ out'[k] = f
        BY <1>0, <2>5, Joined DEF Voices
      <3>2. CASE out'[k] = f
        <4>1. f = task[t].frame /\ task[t].pc = "sending" /\ f \in FrameOf(Ids)
          BY <1>1, <2>5, <3>2 DEF Voices, Frames
        <4>2. f.to \in Nat /\ f.to < floor
          BY <1>1, <3>2, <4>1, FrameFields DEF Reclaimed
        <4>. QED
          BY <1>0, <3>2, <4>2
      <3>. QED
        BY <2>1, <3>1, <3>2
    <2>6. ~WriterStops
      BY DEF WriterStops
    <2>. QED
      BY <2>1, <2>2, <2>3, <2>4, <2>5, <2>6, Speaking
  <1>2. ASSUME NEW t \in Tasks, task'[t].pc = "sending", task'[t].frame.kind = "gap"
        PROVE  task'[t].frame.to < floor'
    <2>0. task[t].frame \in FrameOf(Ids \cup {None})
      BY TaskFields
    <2>1. CASE Same(t)
      <3>1. task[t].frame.to \in Nat /\ task[t].frame.to < floor
        BY <1>2, <2>0, <2>1, FrameFields DEF Reclaimed, Same
      <3>. QED
        BY <1>0, <2>1, <3>1 DEF Same
    <2>2. CASE Prepares(t)
      <3>1. task'[t].frame \in FrameOf(Ids) /\ task'[t].frame.to < floor
        BY <1>2, <2>2 DEF Prepares, Frames
      <3>2. task'[t].frame.to \in Nat
        BY <3>1, FrameFields
      <3>. QED
        BY <1>0, <3>1, <3>2
    <2>. QED
      BY <1>2, <2>1, <2>2, Sending
  <1>. QED
    BY <1>1, <1>2 DEF Reclaimed, GapIsReclaimed

-----------------------------------------------------------------------------
(* The frames on their way, and where they lead. *)

\* What the log appends.
LEMMA LogNext ==
    ASSUME Shaped, Bounded, Windowed, AnyStep
    PROVE  /\ log \in Seq(Patches)
           /\ \/ log' = log
              \/ /\ out' = out /\ client' = client /\ task' = task
                 /\ \E b \in Seq(Patches) : log' = log \o b
  <1>1. log \in Seq(Patches)
    BY DEF Shaped
  <1>2. ASSUME FeedStep, UNCHANGED <<sessionVars, task, writing, opened, failures>>
        PROVE  /\ out' = out /\ client' = client /\ task' = task
               /\ \E b \in Seq(Patches) : log' = log \o b
    BY <1>2, FeedEffects DEF Fed, sessionVars
  <1>3. CASE UNCHANGED feedVars
    BY <1>1, <1>3 DEF feedVars
  <1>. QED
    BY <1>1, <1>2, <1>3, FeedOnly

\* An open client is moved by what it hears, and by nothing else.
LEMMA PosNext ==
    ASSUME Shaped, AnyStep, NEW id \in Ids, client[id].phase = "open"
    PROVE  \/ /\ client'[id].pos = client[id].pos /\ client'[id].got = client[id].got
              /\ ~\E f : Hears(f)
           \/ \E f : Hears(f)
  <1>1. ASSUME NEW i \in Ids, NEW r, Opens(i, r) \/ Asks(i, r)
        PROVE  client'[id].pos = client[id].pos /\ client'[id].got = client[id].got
    BY <1>1 DEF Opens, Asks, Asking
  <1>. QED
    BY <1>1, ClientSteps

\* Where the outbox leads under an id, while no task adds to it.
LEMMA ReachesNext ==
    ASSUME Shaped, Bounded, Windowed, Tasking, AnyStep, writing', NEW id \in Ids,
           client[id].phase = "open", client'[id].phase = "open",
           NEW q \in Nat, Reaches(id, q),
           \A t \in Tasks : \A f : Voices(t, f) => f.id # id
    PROVE  Reaches(id, q)'
  <1>0. /\ log \in Seq(Patches) /\ out \in Seq(Frames) /\ client[id].pos \in Nat
        /\ Walk(log, out, id, client[id].pos, q)
    <2>1. client[id] \in Clients
      BY DEF Shaped
    <2>. QED
      BY <2>1 DEF Shaped, Clients, Reaches
  <1>1. CASE out' = out /\ ~\E f : Hears(f)
    <2>1. client'[id].pos = client[id].pos
      BY <1>1, PosNext
    <2>2. CASE log' = log
      BY <1>0, <1>1, <2>1, <2>2 DEF Reaches
    <2>3. ASSUME NEW b \in Seq(Patches), log' = log \o b
          PROVE  Reaches(id, q)'
      <3>1. Walk(log \o b, out, id, client[id].pos, q)
        BY <1>0, WalkLonger
      <3>. QED
        BY <1>1, <2>1, <2>3, <3>1 DEF Reaches
    <2>. QED
      BY <2>2, <2>3, LogNext
  <1>2. ASSUME NEW f, Hears(f)
        PROVE  Reaches(id, q)'
    <2>1. /\ out # <<>> /\ f = Head(out) /\ out' = Tail(out) /\ log' = log
          /\ f \in Frames
      BY <1>2 DEF Hears, feedVars
    <2>2. Walk(log, Tail(out), id, IF f.id = id THEN Moved(f, client[id].pos)
                                                ELSE client[id].pos, q)
      BY <1>0, <2>1, WalkLeave
    <2>3. client'[id].pos = IF f.id = id THEN Moved(f, client[id].pos) ELSE client[id].pos
      BY <1>2 DEF Hears
    <2>. QED
      BY <2>1, <2>2, <2>3 DEF Reaches
  <1>3. ASSUME NEW f \in Frames, out' = Append(out, f), f.id = id => f \in Replies
        PROVE  Reaches(id, q)'
    <2>0. PICK p : p = client[id].pos
      OBVIOUS
    <2>1. f.id = id => Fits(log, f, q) /\ Moved(f, q) = q
      BY <1>3 DEF Replies, Fits, Moved
    <2>2. Walk(log, Append(out, f), id, p, IF f.id = id THEN Moved(f, q) ELSE q)
      BY <1>0, <2>0, <2>1, WalkJoin
    <2>3. Walk(log, Append(out, f), id, p, q)
      BY <2>1, <2>2
    <2>4. ASSUME NEW g, Hears(g)
          PROVE  FALSE
      <3>1. Len(Tail(out)) = Len(out) - 1 /\ Len(out) \in Nat
        BY <1>0, <2>4, Left DEF Hears
      <3>2. Len(Append(out, f)) = Len(out) + 1
        BY <1>0, Joined
      <3>3. Append(out, f) = Tail(out)
        BY <1>3, <2>4 DEF Hears
      <3>4. Len(out) + 1 = Len(out) - 1
        BY <3>1, <3>2, <3>3
      <3>. QED
        BY <3>1, <3>4
    <2>5. client'[id].pos = p
      BY <2>0, <2>4, PosNext
    <2>6. log' = log
      <3>1. out' # out
        <4>1. Len(Append(out, f)) = Len(out) + 1 /\ Len(out) \in Nat
          BY <1>0, Joined
        <4>2. Len(Append(out, f)) # Len(out)
          BY <4>1
        <4>. QED
          BY <1>3, <4>2
      <3>. QED
        BY <3>1, LogNext
    <2>. QED
      BY <1>3, <2>3, <2>5, <2>6 DEF Reaches
  <1>4. ~WriterStops
    BY DEF WriterStops
  <1>. QED
    BY <1>1, <1>2, <1>3, <1>4, Speaking DEF Voices

\* A task that speaks leaves the outbox leading to where it stands.
LEMMA ReachesSpoken ==
    ASSUME Shaped, Tasking, NEW t \in Tasks, NEW f, Voices(t, f),
           NEW q \in Nat, Stands(t, q), NEW id, id = task[t].id, NEW c, c = task[t].cursor
    PROVE  Reaches(id, c)'
  <1>1. id = task[t].id /\ c = task[t].cursor
    OBVIOUS
  <1>2. PICK p : p = client[id].pos
    OBVIOUS
  <1>4. /\ log \in Seq(Patches) /\ out \in Seq(Frames) /\ p \in Nat /\ id \in Ids /\ f \in Frames
        /\ Walk(log, out, id, p, q) /\ f.id = id
    <2>1. id \in Ids /\ f \in Frames /\ f.id = id
      BY <1>1 DEF Voices, Tasking
    <2>2. client[id] \in Clients
      BY <2>1 DEF Shaped
    <2>3. p \in Nat
      BY <1>2, <2>2 DEF Clients
    <2>4. Walk(log, out, id, p, q)
      BY <1>1, <1>2 DEF Stands, Reaches
    <2>. QED
      BY <2>1, <2>3, <2>4 DEF Shaped
  <1>5. log' = log /\ client' = client /\ out' = Append(out, f)
    BY DEF Voices, TaskStep, TaskFrame, feedVars
  <1>6. Fits(log, f, q) /\ Moved(f, q) = c
    <2>1. CASE Sends(t)
      BY <1>1, <2>1 DEF Voices, Sends, Ends, Stands
    <2>2. CASE Ends(t)
      <3>1. f.kind = "end" /\ task[t].pc = "ending"
        BY <2>2 DEF Voices, Sends, Ends
      <3>2. c = q
        BY <1>1, <3>1 DEF Stands
      <3>. QED
        BY <3>1, <3>2 DEF Fits, Moved
    <2>. QED
      BY <2>1, <2>2 DEF Voices
  <1>7. Walk(log, Append(out, f), id, p, c)
    <2>1. Walk(log, Append(out, f), id, p, IF f.id = id THEN Moved(f, q) ELSE q)
      BY <1>4, <1>6, WalkJoin
    <2>. QED
      BY <1>4, <1>6, <2>1
  <1>8. Walk(log', out', id, client'[id].pos, c)
    BY <1>2, <1>5, <1>7
  <1>. QED
    BY <1>8 DEF Reaches

\* The end of the client's walk is where the task stands.
LEMMA StandsNext ==
    ASSUME Shaped, Bounded, Windowed, Tasking, Registered, Living, AnyStep, writing, writing',
           NEW t \in Tasks, Alive(t), Alive(t)', NEW q \in Nat, Stands(t, q)
    PROVE  \E p \in Nat : Stands(t, p)'
  <1>0. PICK id, c : id = task[t].id /\ c = task[t].cursor
    OBVIOUS
  <1>1. /\ id \in Ids /\ c \in Nat /\ task'[t].id = id
        /\ client[id].phase = "open" /\ client'[id].phase = "open"
    <2>1. task'[t].id = id
      BY <1>0, TaskChange
    <2>2. client'[id].phase = "open"
      BY <2>1, ServedNext
    <2>. QED
      BY <1>0, <2>1, <2>2, TaskFields DEF Living, Tasking
  <1>2. ASSUME NEW f, Voices(t, f)
        PROVE  \E p \in Nat : Stands(t, p)'
    <2>1. Reaches(id, c)'
      BY <1>0, <1>2, ReachesSpoken
    <2>2. task'[t].pc # "sending" /\ task'[t].cursor = c
      <3>1. Sends(t)
        BY <1>2 DEF Voices, Ends, Alive
      <3>2. task[t].then \in {"loop", "exit"} /\ task'[t].pc = task[t].then
        <4>1. task[t].pc = "sending" /\ Tasked(t)
          BY <3>1 DEF Sends, Tasking
        <4>2. task[t].then \in {"loop", "exit"}
          BY <4>1 DEF Tasked
        <4>. QED
          BY <3>1, <4>2 DEF Sends
      <3>. QED
        BY <1>0, <3>1, <3>2 DEF Sends, Kept
    <2>3. Stands(t, c)'
      BY <1>1, <2>1, <2>2 DEF Stands
    <2>. QED
      BY <1>1, <2>3
  <1>3. ASSUME ~\E f : Voices(t, f)
        PROVE  \E p \in Nat : Stands(t, p)'
    <2>1. ASSUME NEW u \in Tasks, NEW f, Voices(u, f)
          PROVE  f.id # id
      <3>1. u # t /\ Alive(u) /\ f.id = task[u].id
        BY <1>3, <2>1 DEF Voices
      <3>. QED
        BY <1>0, <3>1 DEF Registered
    <2>2. Reaches(id, q)
      BY <1>0 DEF Stands
    <2>3. Reaches(id, q)'
      BY <1>1, <2>1, <2>2, ReachesNext
    <2>4. CASE task'[t].pc = "sending"
      <3>1. CASE Same(t)
        <4>1. task[t].pc = "sending" /\ Fits(log, task[t].frame, q) /\ c = Moved(task[t].frame, q)
          BY <1>0, <2>4, <3>1 DEF Same, Stands
        <4>2. Fits(log', task[t].frame, q)
          <5>1. task[t].frame \in FrameOf(Ids \cup {None})
            BY TaskFields
          <5>2. ASSUME NEW b \in Seq(Patches), log' = log \o b
                PROVE  Fits(log', task[t].frame, q)
            BY <4>1, <5>1, <5>2, LogNext, FitsLonger
          <5>. QED
            BY <4>1, <5>2, LogNext
        <4>3. Stands(t, q)'
          BY <1>0, <1>1, <2>3, <2>4, <3>1, <4>1, <4>2 DEF Same, Stands
        <4>. QED
          BY <4>3
      <3>2. CASE TaskStep(t) /\ Prepares(t)
        <4>1. q = c
          BY <1>0, <3>2 DEF Prepares, Stands
        <4>2. log' = log
          BY <3>2 DEF TaskStep, TaskFrame, feedVars
        <4>3. Fits(log', task'[t].frame, q) /\ task'[t].cursor = Moved(task'[t].frame, q)
          BY <1>0, <3>2, <4>1, <4>2 DEF Prepares
        <4>4. Stands(t, q)'
          BY <1>1, <2>3, <2>4, <4>3 DEF Stands
        <4>. QED
          BY <4>4
      <3>. QED
        BY <2>4, <3>1, <3>2, Sending
    <2>5. CASE task'[t].pc # "sending"
      <3>1. task[t].pc # "sending" /\ task'[t].cursor = c
        <4>1. CASE Same(t)
          BY <1>0, <2>5, <4>1 DEF Same
        <4>2. CASE TaskStep(t)
          <5>1. CASE Strolls(t) \/ Forgets(t)
            BY <1>0, <5>1 DEF Strolls, Strolling, Forgets, Kept
          <5>2. ~Prepares(t) /\ ~Ends(t)
            BY <2>5 DEF Prepares, Ends, Alive
          <5>3. ~Sends(t)
            <6>. SUFFICES ASSUME Sends(t)
                          PROVE  FALSE
              OBVIOUS
            <6>1. out' = Append(out, task[t].frame) /\ task[t].pc = "sending"
              BY DEF Sends
            <6>2. task[t].frame \in Frames /\ task[t].frame.id = task[t].id
              BY <6>1, SentFrame
            <6>3. task[t].frame.kind # "end"
              BY <6>1 DEF Tasking, Tasked
            <6>4. Voices(t, task[t].frame)
              BY <4>2, <6>1, <6>2, <6>3 DEF Voices
            <6>. QED
              BY <1>3, <6>4
          <5>. QED
            BY <4>2, <5>1, <5>2, <5>3 DEF TaskStep
        <4>3. CASE task[t].pc = "spawning" /\ task'[t].cursor = task[t].cursor
          BY <1>0, <4>3
        <4>. QED
          BY <4>1, <4>2, <4>3, TaskChange
      <3>2. q = c
        BY <1>0, <3>1 DEF Stands
      <3>3. Stands(t, q)'
        BY <1>1, <2>3, <2>5, <3>1, <3>2 DEF Stands
      <3>. QED
        BY <3>3
    <2>. QED
      BY <2>4, <2>5
  <1>. QED
    BY <1>2, <1>3

\* The writer, once it stopped, stays so.
LEMMA WriterNext ==
    ASSUME Shaped, AnyStep
    PROVE  writing' => writing
  BY DEF AnyStep, Opens, Asks, Asking, Hears, Refuses, Spawns, Raises, Cancels, Takes,
         Replied, Close, WriterStops, TaskStep, TaskFrame, vars, Shaped

\* Nothing on its way moves a client whose stream is quiet.
LEMMA ReachesQuiet ==
    ASSUME Shaped, NEW id, Quiet(id), NEW p \in Nat
    PROVE  Walk(log, out, id, p, p)
  <1>1. out \in Seq(Frames) /\ \A k \in DOMAIN out : out[k].id = id => out[k].kind \notin Moving
    BY DEF Shaped, Quiet, OfStream
  <1>. QED
    BY <1>1, WalkStill

LEMMA ChainedNext ==
    ASSUME Shaped, Bounded, Windowed, Tasking, Registered, Living, Chained, AnyStep, Shaped'
    PROVE  Chained'
  <1>. SUFFICES ASSUME writing'
                PROVE  /\ \A id \in Ids : client'[id].phase = "open" =>
                             \E q \in Nat : Reaches(id, q)'
                       /\ \A t \in Tasks : Alive(t)' => \E q \in Nat : Stands(t, q)'
    BY DEF Chained
  <1>0. writing
    BY WriterNext
  <1>1. ASSUME NEW t \in Tasks, Alive(t)'
        PROVE  \E q \in Nat : Stands(t, q)'
    <2>1. CASE Alive(t)
      <3>1. PICK q \in Nat : Stands(t, q)
        BY <1>0, <2>1 DEF Chained
      <3>. QED
        BY <1>0, <1>1, <2>1, <3>1, StandsNext
    <2>2. CASE ~Alive(t)
      <3>0. PICK r : \E u \in Tasks : Spawns(r, u)
        BY <1>1, <2>2, AliveSteps
      <3>1. PICK u \in Tasks : Spawns(r, u)
        BY <3>0
      <3>2. u = t /\ r \in Requests /\ Waiting(r) /\ task'[t].id = r.id
        BY <1>1, <2>2, <3>1, Spawning
      <3>3. PICK p : p = r.sub.from
        OBVIOUS
      <3>4. p \in Nat /\ Quiet(r.id) /\ client[r.id].pos = p
        BY <3>2, <3>3, RequestFields DEF Waiting
      <3>5. /\ log' = log /\ out' = out /\ client' = client
            /\ task'[t].pc = "spawning" /\ task'[t].cursor = p
        BY <3>1, <3>2, <3>3 DEF Spawns, Takes, feedVars
      <3>6. Walk(log, out, r.id, p, p)
        BY <3>4, ReachesQuiet
      <3>7. Stands(t, p)'
        BY <3>2, <3>4, <3>5, <3>6 DEF Stands, Reaches
      <3>. QED
        BY <3>4, <3>7
    <2>. QED
      BY <2>1, <2>2
  <1>2. ASSUME NEW id \in Ids, client'[id].phase = "open"
        PROVE  \E q \in Nat : Reaches(id, q)'
    <2>1. CASE client[id].phase # "open"
      <3>1. client[id] \in Clients
        BY DEF Shaped
      <3>2. Quiet(id)
        BY <2>1, <3>1 DEF Clients, Living
      <3>3. PICK i, r : Opens(i, r) /\ i = id
        <4>1. ASSUME NEW i \in Ids, NEW r, Opens(i, r)
              PROVE  i = id
          BY <1>2, <2>1, <4>1 DEF Opens, Asking
        <4>2. ASSUME NEW i \in Ids, NEW r, Asks(i, r)
              PROVE  FALSE
          BY <1>2, <2>1, <4>2 DEF Asks, Asking
        <4>3. ASSUME NEW f, Hears(f)
              PROVE  FALSE
          BY <1>2, <2>1, <4>3 DEF Hears
        <4>. QED
          BY <1>2, <2>1, <4>1, <4>2, <4>3, ClientSteps
      <3>4. log' = log /\ out' = out
        BY <3>3 DEF Opens, Asking, feedVars
      <3>5. client'[id] \in Clients
        BY DEF Shaped
      <3>6. PICK p \in Nat : p = client'[id].pos
        BY <3>5 DEF Clients
      <3>7. Walk(log, out, id, p, p)
        BY <3>2, ReachesQuiet
      <3>8. Reaches(id, p)'
        BY <3>4, <3>6, <3>7 DEF Reaches
      <3>. QED
        BY <3>8
    <2>2. CASE client[id].phase = "open"
      <3>1. ASSUME NEW t \in Tasks, NEW f, Voices(t, f), f.id = id
            PROVE  \E q \in Nat : Reaches(id, q)'
        <4>1. Alive(t) /\ id = task[t].id
          BY <3>1 DEF Voices
        <4>2. PICK q \in Nat : Stands(t, q)
          BY <1>0, <4>1 DEF Chained
        <4>3. PICK c : c = task[t].cursor
          OBVIOUS
        <4>4. c \in Nat
          BY <4>3, TaskFields
        <4>5. Reaches(id, c)'
          BY <3>1, <4>1, <4>2, <4>3, ReachesSpoken
        <4>. QED
          BY <4>4, <4>5
      <3>2. CASE \A t \in Tasks : \A f : Voices(t, f) => f.id # id
        <4>1. PICK q \in Nat : Reaches(id, q)
          BY <1>0, <2>2 DEF Chained
        <4>2. Reaches(id, q)'
          BY <1>2, <2>2, <3>2, <4>1, ReachesNext
        <4>. QED
          BY <4>2
      <3>. QED
        BY <3>1, <3>2
    <2>. QED
      BY <2>1, <2>2
  <1>. QED
    BY <1>1, <1>2

-----------------------------------------------------------------------------
(* Credit: what was sent, granted, used and heard. *)

LEMMA ClientFields ==
    ASSUME Shaped, NEW id \in Ids
    PROVE  /\ client[id].pos \in Nat /\ client[id].credit \in Nat /\ client[id].got \in Nat
           /\ client[id].phase \in {"free", "open"}
  <1>1. client[id] \in Clients
    BY DEF Shaped
  <1>. QED
    BY <1>1 DEF Clients

LEMMA PledgeType ==
    ASSUME NEW r, NEW id
    PROVE  Pledge(r, id) \in {0, 1} /\ (r.id # id => Pledge(r, id) = 0)
  BY DEF Pledge

\* The credit of an open stream grows by what the client asks the session to grant.
LEMMA CreditNext ==
    ASSUME Shaped, AnyStep, NEW id \in Ids,
           client[id].phase = "open", client'[id].phase = "open"
    PROVE  \/ client'[id].credit = client[id].credit
              /\ ~\E i \in Ids : \E s : Opens(i, s) \/ Asks(i, s)
           \/ \E i \in Ids : \E s \in Requests :
                 /\ Opens(i, s) \/ Asks(i, s)
                 /\ client'[id].credit = client[id].credit + Pledge(s, id)
  <1>0. client[id].credit \in Nat
    BY ClientFields
  <1>1. ASSUME NEW i \in Ids, NEW s, Opens(i, s)
        PROVE  s \in Requests /\ client'[id].credit = client[id].credit + Pledge(s, id)
    <2>1. i # id /\ s.id = i /\ client'[id] = client[id] /\ s \in Requests
      BY <1>1 DEF Opens, Asking
    <2>2. Pledge(s, id) = 0
      BY <2>1, PledgeType
    <2>. QED
      BY <1>0, <2>1, <2>2
  <1>2. ASSUME NEW i \in Ids, NEW s, Asks(i, s)
        PROVE  s \in Requests /\ client'[id].credit = client[id].credit + Pledge(s, id)
    <2>1. s \in Requests /\ s.id = i
      BY <1>2 DEF Asks
    <2>2. CASE i # id
      <3>1. client'[id] = client[id] /\ Pledge(s, id) = 0
        BY <1>2, <2>1, <2>2, PledgeType DEF Asks, Asking
      <3>. QED
        BY <1>0, <2>1, <3>1
    <2>3. CASE i = id
      <3>1. \/ s.kind = "credit" /\ client'[id].credit = client[id].credit + 1
            \/ s.kind = "cancel" /\ client'[id].credit = client[id].credit
        BY <1>2, <2>3 DEF Asks
      <3>. QED
        BY <1>0, <2>1, <2>3, <3>1 DEF Pledge
    <2>. QED
      BY <2>2, <2>3
  <1>3. ASSUME NEW f, Hears(f)
        PROVE  client'[id].credit = client[id].credit
    BY <1>3 DEF Hears
  <1>4. CASE client' = client
    BY <1>1, <1>2, <1>4
  <1>. QED
    BY <1>1, <1>2, <1>3, <1>4, ClientSteps

\* The requests behind a place, and the credit of their stream.
LEMMA PledgedNext ==
    ASSUME Shaped, AnyStep, NEW id \in Ids,
           client[id].phase = "open", client'[id].phase = "open",
           NEW k \in 0..Len(requests), ~\E r : Takes(r)
    PROVE  \/ requests' = <<>> /\ client'[id].credit >= client[id].credit
           \/ /\ Pledged(requests', k, id) \in Nat
              /\ client'[id].credit - Pledged(requests', k, id)
                   = client[id].credit - Pledged(requests, k, id)
  <1>0. /\ requests \in Seq(Requests) /\ Len(requests) \in Nat /\ k \in Nat
        /\ client[id].credit \in Nat
    BY ClientFields DEF Shaped
  <1>1. Pledged(requests, k, id) \in Nat
    BY <1>0, PledgedType
  <1>2. ASSUME NEW i \in Ids, NEW s \in Requests, Opens(i, s) \/ Asks(i, s),
               client'[id].credit = client[id].credit + Pledge(s, id)
        PROVE  /\ Pledged(requests', k, id) \in Nat
               /\ client'[id].credit - Pledged(requests', k, id)
                    = client[id].credit - Pledged(requests, k, id)
    <2>1. requests' = Append(requests, s)
      BY <1>2 DEF Opens, Asks
    <2>2. Pledged(requests', k, id) = Pledged(requests, k, id) + Pledge(s, id)
      BY <1>0, <2>1, PledgedJoin
    <2>3. Pledge(s, id) \in {0, 1}
      BY PledgeType
    <2>4. PICK a \in Nat, b \in Nat, c \in {0, 1} :
             a = client[id].credit /\ b = Pledged(requests, k, id) /\ c = Pledge(s, id)
      BY <1>0, <1>1, <2>3
    <2>5. PICK x, y : x = client'[id].credit /\ y = Pledged(requests', k, id)
      OBVIOUS
    <2>6. x = a + c /\ y = b + c
      BY <1>2, <2>2, <2>4, <2>5, Zenon
    <2>7. y \in Nat /\ x - y = a - b
      BY ONLY <2>6
    <2>. QED
      BY <2>4, <2>5, <2>7, Zenon
  <1>3. ASSUME client'[id].credit = client[id].credit,
               ~\E i \in Ids : \E s : Opens(i, s) \/ Asks(i, s)
        PROVE  \/ requests' = <<>> /\ client'[id].credit >= client[id].credit
               \/ /\ Pledged(requests', k, id) \in Nat
                  /\ client'[id].credit - Pledged(requests', k, id)
                       = client[id].credit - Pledged(requests, k, id)
    <2>1. requests' = requests \/ requests' = <<>>
      BY <1>3, AskSteps
    <2>2. client'[id].credit >= client[id].credit
      BY <1>0, <1>3
    <2>3. ASSUME requests' = requests
          PROVE  /\ Pledged(requests', k, id) \in Nat
                 /\ client'[id].credit - Pledged(requests', k, id)
                      = client[id].credit - Pledged(requests, k, id)
      <3>1. Pledged(requests', k, id) = Pledged(requests, k, id)
        BY <2>3
      <3>. QED
        BY <1>1, <1>3, <3>1
    <2>. QED
      BY <2>1, <2>2, <2>3
  <1>. QED
    BY <1>2, <1>3, CreditNext

\* The steps that change what a task was granted.
LEMMA GrantSteps ==
    ASSUME Shaped, Registered, Living, AnyStep, NEW t \in Tasks, Alive(t), Alive(t)'
    PROVE  \/ task'[t].granted = task[t].granted /\ ~\E r : Raises(r, t)
           \/ \E r : Raises(r, t)
  <1>1. ASSUME NEW u \in Tasks, TaskStep(u)
        PROVE  task'[t].granted = task[t].granted
    <2>1. CASE u = t
      BY <1>1, <2>1 DEF TaskStep, Strolls, Prepares, Sends, Forgets, Ends, Kept, Alive
    <2>2. CASE u # t
      BY <1>1, <2>2, Acting
    <2>. QED
      BY <2>1, <2>2
  <1>2. ASSUME NEW r, NEW u \in Tasks, Spawns(r, u)
        PROVE  task'[t].granted = task[t].granted
    BY <1>2, Spawning
  <1>3. ASSUME NEW r, NEW u \in Tasks, Raises(r, u), u # t
        PROVE  task'[t].granted = task[t].granted
    BY <1>3 DEF Raises, Others
  <1>4. ASSUME pending.spawn \in Tasks, Kept(pending.spawn)
        PROVE  task'[t].granted = task[t].granted
    BY <1>4 DEF Kept, Others
  <1>. QED
    BY <1>1, <1>2, <1>3, <1>4, TaskSteps

\* What a task was granted, and what is on its way to be, the client has sent.
LEMMA GrantedNext ==
    ASSUME Shaped, Tasking, Registered, Living, Credited, AnyStep,
           NEW t \in Tasks, Alive(t), Alive(t)', NEW id, id = task[t].id
    PROVE  task'[t].granted + Pledged(requests', 0, id) <= client'[id].credit
  <1>0. /\ requests \in Seq(Requests) /\ Len(requests) \in Nat
        /\ id \in Ids /\ client[id].credit \in Nat /\ task[t].granted \in Nat
        /\ client[id].phase = "open" /\ client'[id].phase = "open"
    <2>1. id \in Ids
      BY DEF Tasking
    <2>2. task'[t].id = id
      BY TaskChange
    <2>3. client'[id].phase = "open"
      BY <2>2, ServedNext
    <2>. QED
      BY <2>1, <2>3, ClientFields, TaskFields DEF Shaped, Living
  <1>1. /\ Pledged(requests, 0, id) \in Nat
        /\ task[t].granted + Pledged(requests, 0, id) <= client[id].credit
    BY <1>0, PledgedType DEF Credited
  <1>2. ASSUME NEW r, Takes(r)
        PROVE  task'[t].granted + Pledged(requests', 0, id) <= client'[id].credit
    <2>1. requests # <<>> /\ r = Head(requests) /\ requests' = Tail(requests)
          /\ client' = client
      BY <1>2 DEF Takes
    <2>2. Pledged(requests, 0, id) = Pledge(r, id) + Pledged(requests', 0, id)
      BY <1>0, <2>1, PledgedFirst
    <2>3. requests' \in Seq(Requests) /\ 1 \in DOMAIN requests /\ requests[1] = r
      BY <1>0, <2>1, Left
    <2>4. Pledged(requests', 0, id) \in Nat /\ Pledge(r, id) \in {0, 1}
      BY <2>3, PledgedType, PledgeType
    <2>5. CASE task'[t].granted = task[t].granted
      BY <1>0, <1>1, <2>1, <2>2, <2>4, <2>5
    <2>6. ASSUME NEW s, Raises(s, t)
          PROVE  task'[t].granted + Pledged(requests', 0, id) <= client'[id].credit
      <3>1. s = r /\ r.kind = "credit" /\ table[r.id] = t
            /\ task'[t].granted = task[t].granted + r.sub.credit
        BY <2>1, <2>6 DEF Raises, Takes
      <3>2. r.sub.credit = 1
        BY <2>3, <3>1 DEF Credited
      <3>3. r.id = id
        <4>1. r.id \in Ids
          BY <1>2, RequestFields DEF Takes
        <4>2. t # None
          BY DEF Tasks, None
        <4>. QED
          BY <3>1, <4>1, <4>2 DEF Registered
      <3>4. Pledge(r, id) = 1
        BY <3>1, <3>3 DEF Pledge
      <3>. QED
        BY <1>0, <1>1, <2>1, <2>2, <2>4, <3>1, <3>2, <3>4
    <2>. QED
      BY <2>5, <2>6, GrantSteps
  <1>3. ASSUME ~\E r : Takes(r)
        PROVE  task'[t].granted + Pledged(requests', 0, id) <= client'[id].credit
    <2>1. task'[t].granted = task[t].granted
      BY <1>3, GrantSteps DEF Raises
    <2>2. 0 \in 0..Len(requests)
      BY <1>0
    <2>3. ASSUME requests' = <<>>, client'[id].credit >= client[id].credit
          PROVE  task'[t].granted + Pledged(requests', 0, id) <= client'[id].credit
      <3>1. Pledged(requests', 0, id) = 0
        BY <2>3, PledgedNone
      <3>2. client'[id].credit \in Nat
        <4>1. \/ client'[id].credit = client[id].credit
              \/ \E s : client'[id].credit = client[id].credit + Pledge(s, id)
          BY <1>0, CreditNext
        <4>. QED
          BY <1>0, <4>1, PledgeType
      <3>. QED
        BY <1>0, <1>1, <2>1, <2>3, <3>1, <3>2
    <2>4. ASSUME Pledged(requests', 0, id) \in Nat,
                 client'[id].credit - Pledged(requests', 0, id)
                   = client[id].credit - Pledged(requests, 0, id)
          PROVE  task'[t].granted + Pledged(requests', 0, id) <= client'[id].credit
      <3>2. client'[id].credit \in Nat
        <4>1. \/ client'[id].credit = client[id].credit
              \/ \E s : client'[id].credit = client[id].credit + Pledge(s, id)
          BY <1>0, CreditNext
        <4>. QED
          BY <1>0, <4>1, PledgeType
      <3>. QED
        BY <1>0, <1>1, <2>1, <2>4, <3>2
    <2>. QED
      BY <1>0, <1>3, <2>2, <2>3, <2>4, PledgedNext
  <1>. QED
    BY <1>2, <1>3

\* What a client has heard and what is on its way for it, while no task adds to it.
LEMMA HeardNext ==
    ASSUME Shaped, Tasking, AnyStep, Shaped', NEW id \in Ids,
           client[id].phase = "open", client'[id].phase = "open",
           \A t \in Tasks : \A f : Voices(t, f) => Weight(f, id) = 0
    PROVE  /\ client'[id].got \in Nat /\ Carried(out', id) \in Nat
           /\ client[id].got \in Nat /\ Carried(out, id) \in Nat
           /\ client'[id].got + Carried(out', id) <= client[id].got + Carried(out, id)
  <1>0. /\ out \in Seq(Frames) /\ out' \in Seq(Frames)
        /\ client[id].got \in Nat /\ Carried(out, id) \in Nat
        /\ client'[id].got \in Nat /\ Carried(out', id) \in Nat
    <2>1. out \in Seq(Frames) /\ out' \in Seq(Frames) /\ client'[id] \in Clients
      BY DEF Shaped
    <2>2. client'[id].got \in Nat
      BY <2>1 DEF Clients
    <2>. QED
      BY <2>1, <2>2, ClientFields, LoadFinite
  <1>1. ASSUME NEW f, Hears(f)
        PROVE  client'[id].got + Carried(out', id) <= client[id].got + Carried(out, id)
    <2>1. out # <<>> /\ f = Head(out) /\ out' = Tail(out) /\ f \in FrameOf(Ids)
      BY <1>1 DEF Hears, Frames
    <2>2. Carried(out, id) = Weight(f, id) + Carried(out', id) /\ Weight(f, id) \in Nat
      BY <1>0, <2>1, CarriedLeave
    <2>3. client'[id].got = client[id].got + Weight(f, id)
      <3>1. CASE f.id = id
        BY <1>1, <3>1 DEF Hears, Weight
      <3>2. CASE f.id # id
        BY <1>0, <1>1, <3>2 DEF Hears, Weight
      <3>. QED
        BY <3>1, <3>2
    <2>. QED
      BY <1>0, <2>2, <2>3
  <1>2. ASSUME client'[id].got = client[id].got
        PROVE  client'[id].got + Carried(out', id) <= client[id].got + Carried(out, id)
    <2>1. CASE out' = out
      BY <1>0, <1>2, <2>1
    <2>2. ASSUME NEW f \in Frames, out' = Append(out, f), Weight(f, id) = 0
          PROVE  client'[id].got + Carried(out', id) <= client[id].got + Carried(out, id)
      <3>1. Carried(out', id) = Carried(out, id) + Weight(f, id)
        BY <1>0, <2>2, CarriedJoin
      <3>. QED
        BY <1>0, <1>2, <2>2, <3>1
    <2>3. ASSUME NEW f \in Frames, f \in Replies
          PROVE  Weight(f, id) = 0
      <3>1. f \in FrameOf(Ids) /\ f.kind # "records"
        BY <2>3 DEF Replies, Frames
      <3>. QED
        BY <3>1, FrameFields DEF Weight
    <2>4. CASE WriterStops
      <3>1. out' = <<>>
        BY <2>4 DEF WriterStops
      <3>2. Carried(out', id) = 0
        BY <3>1, CarriedNone
      <3>. QED
        BY <1>0, <1>2, <3>2
    <2>5. ASSUME NEW f, Hears(f)
          PROVE  client'[id].got + Carried(out', id) <= client[id].got + Carried(out, id)
      BY <1>1, <2>5
    <2>. QED
      BY <2>1, <2>2, <2>3, <2>4, <2>5, Speaking DEF Voices
  <1>. QED
    BY <1>0, <1>1, <1>2, PosNext

LEMMA HoldingType ==
    ASSUME Shaped, NEW t \in Tasks
    PROVE  Holding(t) \in Nat
  <1>1. task[t].frame \in FrameOf(Ids \cup {None})
    BY TaskFields
  <1>. QED
    BY <1>1, FrameFields DEF Holding

\* What a task takes in hand it has used.
LEMMA HoldNext ==
    ASSUME Shaped, Shaped', Tasking, Registered, Living, AnyStep,
           NEW t \in Tasks, Alive(t), Alive(t)', ~\E f : Voices(t, f)
    PROVE  /\ Holding(t)' \in Nat /\ task'[t].used \in Nat
           /\ Holding(t)' + task[t].used <= Holding(t) + task'[t].used
  <1>0. /\ Holding(t) \in Nat /\ task[t].used \in Nat
        /\ Holding(t)' \in Nat /\ task'[t].used \in Nat
    <2>1. task'[t] \in TaskStates
      BY DEF Shaped
    <2>2. task'[t].used \in Nat /\ task'[t].frame \in FrameOf(Ids \cup {None})
      BY <2>1 DEF TaskStates
    <2>3. Holding(t)' \in Nat
      BY <2>2, FrameFields DEF Holding
    <2>. QED
      BY <2>2, <2>3, HoldingType, TaskFields
  <1>1. CASE Same(t)
    <2>1. Holding(t)' = Holding(t) /\ task'[t].used = task[t].used
      BY <1>1 DEF Same, Holding
    <2>. QED
      BY <1>0, <2>1
  <1>2. ASSUME task'[t].pc # "sending", task'[t].used = task[t].used
        PROVE  Holding(t)' + task[t].used <= Holding(t) + task'[t].used
    <2>1. Holding(t)' = 0
      BY <1>2 DEF Holding
    <2>. QED
      BY <1>0, <1>2, <2>1
  <1>3. CASE TaskStep(t)
    <2>1. CASE Strolls(t) \/ Forgets(t)
      BY <1>0, <1>2, <2>1 DEF Strolls, Strolling, Forgets, Kept
    <2>2. CASE Prepares(t)
      <3>1. Holding(t) = 0
        BY <2>2 DEF Prepares, Holding
      <3>2. Holding(t)' = Len(task'[t].frame.entries)
        BY <2>2 DEF Prepares, Holding
      <3>3. task'[t].used = task[t].used + Holding(t)'
        BY <2>2, <3>2 DEF Prepares
      <3>. QED
        BY <1>0, <3>1, <3>3
    <2>3. CASE Sends(t)
      <3>1. task[t].pc = "sending" /\ Tasked(t)
        BY <2>3 DEF Sends, Tasking
      <3>2. task[t].then \in {"loop", "exit"}
        BY <3>1 DEF Tasked
      <3>. QED
        BY <1>0, <1>2, <2>3, <3>2 DEF Sends, Kept
    <2>4. ~Ends(t)
      BY DEF Ends, Alive
    <2>. QED
      BY <1>3, <2>1, <2>2, <2>3, <2>4 DEF TaskStep
  <1>4. CASE task'[t].pc \in {"viewing", "loop"} /\ task'[t].used = task[t].used
    BY <1>0, <1>2, <1>4
  <1>. QED
    BY <1>1, <1>3, <1>4, TaskChange

\* What was heard, is on its way and is in hand has been used.
LEMMA UsedNext ==
    ASSUME Shaped, Shaped', Tasking, Registered, Living, Credited, AnyStep,
           NEW t \in Tasks, Alive(t), Alive(t)', NEW id, id = task[t].id
    PROVE  client'[id].got + Carried(out', id) + Holding(t)' <= task'[t].used
  <1>0. /\ id \in Ids /\ client[id].phase = "open" /\ client'[id].phase = "open"
        /\ Holding(t) \in Nat /\ task[t].used \in Nat
        /\ client[id].got + Carried(out, id) + Holding(t) <= task[t].used
    <2>1. id \in Ids
      BY DEF Tasking
    <2>2. task'[t].id = id
      BY TaskChange
    <2>3. client'[id].phase = "open"
      BY <2>2, ServedNext
    <2>. QED
      BY <2>1, <2>3, HoldingType, TaskFields DEF Living, Credited
  <1>1. ASSUME ~\E f : Voices(t, f)
        PROVE  client'[id].got + Carried(out', id) + Holding(t)' <= task'[t].used
    <2>1. ASSUME NEW u \in Tasks, NEW f, Voices(u, f)
          PROVE  Weight(f, id) = 0
      <3>1. u # t /\ Alive(u) /\ f.id = task[u].id
        BY <1>1, <2>1 DEF Voices
      <3>2. f.id # id
        BY <3>1 DEF Registered
      <3>. QED
        BY <3>2 DEF Weight
    <2>2. /\ client'[id].got \in Nat /\ Carried(out', id) \in Nat
          /\ client[id].got \in Nat /\ Carried(out, id) \in Nat
          /\ client'[id].got + Carried(out', id) <= client[id].got + Carried(out, id)
      BY <1>0, <2>1, HeardNext
    <2>3. /\ Holding(t)' \in Nat /\ task'[t].used \in Nat
          /\ Holding(t)' + task[t].used <= Holding(t) + task'[t].used
      BY <1>1, HoldNext
    <2>. QED
      BY <1>0, <2>2, <2>3
  <1>2. ASSUME NEW f, Voices(t, f)
        PROVE  client'[id].got + Carried(out', id) + Holding(t)' <= task'[t].used
    <2>1. Sends(t) /\ f = task[t].frame /\ task[t].pc = "sending"
      BY <1>2 DEF Voices, Ends, Alive
    <2>2. task[t].then \in {"loop", "exit"}
      <3>1. Tasked(t)
        BY DEF Tasking
      <3>. QED
        BY <2>1, <3>1 DEF Tasked
    <2>3. task'[t].pc # "sending" /\ task'[t].used = task[t].used
      BY <2>1, <2>2 DEF Sends, Kept
    <2>4. Holding(t)' = 0
      BY <2>3 DEF Holding
    <2>5. f \in Frames /\ out \in Seq(Frames) /\ out' = Append(out, f) /\ client' = client
          /\ f.id = id
      BY <1>2 DEF Voices, TaskStep, TaskFrame, Shaped
    <2>6. Carried(out', id) = Carried(out, id) + Weight(f, id) /\ Carried(out, id) \in Nat
      BY <2>5, CarriedJoin, LoadFinite
    <2>7. Weight(f, id) = Holding(t)
      BY <2>1, <2>5 DEF Weight, Holding
    <2>8. client[id].got \in Nat /\ client'[id].got = client[id].got
      BY <1>0, <2>5, ClientFields
    <2>. QED
      BY <1>0, <2>3, <2>4, <2>6, <2>7, <2>8
  <1>. QED
    BY <1>1, <1>2

\* A Subscribe on its way, and the grants behind it.
LEMMA AskedNext ==
    ASSUME Shaped, Shaped', Tasking, Registered, Living, Credited, AnyStep,
           NEW k \in DOMAIN requests', NEW r, r = requests'[k]
    PROVE  /\ r.kind = "subscribe" =>
                 r.sub.credit + Pledged(requests', k, r.id) <= client'[r.id].credit
           /\ r.kind = "credit" => r.sub.credit = 1
  <1>0. /\ requests \in Seq(Requests) /\ DOMAIN requests = 1..Len(requests)
        /\ Len(requests) \in Nat
        /\ requests' \in Seq(Requests) /\ r \in Requests /\ requests' # <<>>
    BY DEF Shaped
  <1>1. r.id \in Ids /\ r.sub.credit \in Nat /\ client'[r.id].credit \in Nat
    <2>1. r.id \in Ids /\ r.sub.credit \in Nat
      BY <1>0, RequestFields
    <2>2. client'[r.id] \in Clients
      BY <2>1 DEF Shaped
    <2>. QED
      BY <2>1, <2>2 DEF Clients
  <1>2. ASSUME NEW s, Takes(s)
        PROVE  /\ r.kind = "subscribe" =>
                     r.sub.credit + Pledged(requests', k, r.id) <= client'[r.id].credit
               /\ r.kind = "credit" => r.sub.credit = 1
    <2>1. requests # <<>> /\ requests' = Tail(requests) /\ client' = client
      BY <1>2 DEF Takes
    <2>2. k \in Nat /\ k + 1 \in 1..Len(requests) /\ r = requests[k + 1]
      BY <1>0, <2>1, Left
    <2>3. Pledged(Tail(requests), k, r.id) = Pledged(requests, k + 1, r.id)
      BY <1>0, <2>1, <2>2, PledgedLeave
    <2>4. PICK m \in DOMAIN requests : m = k + 1
      BY <1>0, <2>2
    <2>5. /\ r.kind = "subscribe" =>
                r.sub.credit + Pledged(requests, m, r.id) <= client[r.id].credit
          /\ r.kind = "credit" => r.sub.credit = 1
      BY <2>2, <2>4 DEF Credited
    <2>. QED
      BY <2>1, <2>3, <2>4, <2>5
  <1>3. ASSUME ~\E s : Takes(s), k \in DOMAIN requests, r = requests[k]
        PROVE  /\ r.kind = "subscribe" =>
                     r.sub.credit + Pledged(requests', k, r.id) <= client'[r.id].credit
               /\ r.kind = "credit" => r.sub.credit = 1
    <2>1. /\ r.kind = "subscribe" =>
                r.sub.credit + Pledged(requests, k, r.id) <= client[r.id].credit
          /\ r.kind = "credit" => r.sub.credit = 1
      BY <1>3 DEF Credited
    <2>2. ASSUME r.kind = "subscribe"
          PROVE  r.sub.credit + Pledged(requests', k, r.id) <= client'[r.id].credit
      <3>1. client[r.id].phase = "open"
        BY <1>3, <2>2 DEF Living, Waiting
      <3>2. client'[r.id].phase = "open"
        BY <2>2, RequestsNext DEF Waiting
      <3>3. k \in 0..Len(requests)
        BY <1>0, <1>3
      <3>4. /\ Pledged(requests', k, r.id) \in Nat
            /\ client'[r.id].credit - Pledged(requests', k, r.id)
                 = client[r.id].credit - Pledged(requests, k, r.id)
        BY <1>0, <1>1, <1>3, <3>1, <3>2, <3>3, PledgedNext
      <3>5. Pledged(requests, k, r.id) \in Nat /\ client[r.id].credit \in Nat
        BY <1>0, <1>1, PledgedType, ClientFields
      <3>. QED
        BY <1>1, <2>1, <2>2, <3>4, <3>5
    <2>. QED
      BY <2>1, <2>2
  <1>4. ASSUME NEW i \in Ids, NEW s \in Requests, Opens(i, s) \/ Asks(i, s),
               k = Len(requests) + 1, r = s
        PROVE  /\ r.kind = "subscribe" =>
                     r.sub.credit + Pledged(requests', k, r.id) <= client'[r.id].credit
               /\ r.kind = "credit" => r.sub.credit = 1
    <2>1. requests' = Append(requests, s) /\ s.id = i
      BY <1>4 DEF Opens, Asks
    <2>2. ASSUME r.kind = "subscribe"
          PROVE  r.sub.credit + Pledged(requests', k, r.id) <= client'[r.id].credit
      <3>1. client'[i].credit = r.sub.credit
        BY <1>4, <2>2 DEF Opens, Asks
      <3>2. \A j \in DOMAIN requests' : ~(j > k)
        <4>1. DOMAIN requests' = 1..k
          BY <1>0, <1>4, <2>1, Joined
        <4>. QED
          BY <1>0, <1>4, <4>1
      <3>3. Pledged(requests', k, r.id) = 0
        BY <3>2, PledgedNone
      <3>. QED
        BY <1>1, <1>4, <2>1, <3>1, <3>3
    <2>3. r.kind = "credit" => r.sub.credit = 1
      BY <1>4 DEF Opens, Asks
    <2>. QED
      BY <2>2, <2>3
  <1>5. \/ \E s : Takes(s)
        \/ k \in DOMAIN requests /\ r = requests[k]
        \/ \E i \in Ids : \E s \in Requests : /\ Opens(i, s) \/ Asks(i, s)
                                              /\ k = Len(requests) + 1 /\ r = s
    <2>1. CASE requests' = requests
      BY <2>1
    <2>2. ASSUME NEW i \in Ids, NEW s \in Requests, Opens(i, s) \/ Asks(i, s)
          PROVE  \/ k \in DOMAIN requests /\ r = requests[k]
                 \/ k = Len(requests) + 1 /\ r = s
      <3>1. requests' = Append(requests, s)
        BY <2>2 DEF Opens, Asks
      <3>. QED
        BY <1>0, <3>1, Joined
    <2>. QED
      BY <1>0, <2>1, <2>2, AskSteps
  <1>. QED
    BY <1>2, <1>3, <1>4, <1>5

LEMMA CreditedNext ==
    ASSUME Shaped, Shaped', Tasking, Registered, Living, Credited, AnyStep
    PROVE  Credited'
  <1>1. ASSUME NEW t \in Tasks, Alive(t)', NEW id, id = task'[t].id
        PROVE  /\ task'[t].granted + Pledged(requests', 0, id) <= client'[id].credit
               /\ client'[id].got + Carried(out', id) + Holding(t)' <= task'[t].used
    <2>1. CASE Alive(t)
      <3>1. id = task[t].id
        BY <1>1, <2>1, TaskChange
      <3>. QED
        BY <1>1, <2>1, <3>1, GrantedNext, UsedNext
    <2>2. CASE ~Alive(t)
      <3>1. PICK r : \E u \in Tasks : Spawns(r, u)
        BY <1>1, <2>2, AliveSteps
      <3>2. PICK u \in Tasks : Spawns(r, u)
        BY <3>1
      <3>3. /\ u = t /\ r \in Requests /\ Waiting(r) /\ id = r.id /\ id \in Ids
            /\ r.kind = "subscribe" /\ 1 \in DOMAIN requests /\ requests[1] = r
        BY <1>1, <2>2, <3>2, Spawning
      <3>4. /\ requests' = Tail(requests) /\ requests # <<>> /\ client' = client /\ out' = out
            /\ task'[t].granted = r.sub.credit /\ task'[t].used = 0
            /\ task'[t].pc = "spawning"
        BY <3>2, <3>3 DEF Spawns, Takes
      <3>5. task'[t].granted + Pledged(requests', 0, id) <= client'[id].credit
        <4>1. requests \in Seq(Requests) /\ Len(requests) \in Nat
              /\ DOMAIN requests = 1..Len(requests)
          BY DEF Shaped
        <4>2. 0 \in Nat /\ 0 + 1 = 1
          OBVIOUS
        <4>3. Pledged(Tail(requests), 0, id) = Pledged(requests, 1, id)
          BY <3>3, <3>4, <4>1, <4>2, PledgedLeave
        <4>4. r.sub.credit + Pledged(requests, 1, id) <= client[id].credit
          BY <3>3 DEF Credited
        <4>. QED
          BY <3>4, <4>3, <4>4
      <3>6. client'[id].got + Carried(out', id) + Holding(t)' <= task'[t].used
        <4>1. client[id].got = 0 /\ Quiet(id)
          BY <3>3 DEF Waiting
        <4>2. ASSUME NEW k \in DOMAIN out, out[k].id = id
              PROVE  out[k].entries = <<>>
          <5>1. out[k] \in FrameOf(Ids)
            BY DEF Shaped, Frames
          <5>2. out[k].kind # "records"
            BY <4>1, <4>2 DEF Quiet, OfStream, Moving
          <5>. QED
            BY <5>1, <5>2, FrameFields
        <4>3. Carried(out, id) = 0
          BY <4>2, CarriedNone
        <4>4. Holding(t)' = 0
          BY <3>4 DEF Holding
        <4>5. \A x, y, z : x = 0 /\ y = 0 /\ z = 0 => x + y + z <= 0
          OBVIOUS
        <4>. QED
          BY <3>4, <4>1, <4>3, <4>4, <4>5
      <3>. QED
        BY <3>5, <3>6
    <2>. QED
      BY <2>1, <2>2
  <1>2. ASSUME NEW k \in DOMAIN requests'
        PROVE  /\ requests'[k].kind = "subscribe" =>
                     requests'[k].sub.credit + Pledged(requests', k, requests'[k].id)
                        <= client'[requests'[k].id].credit
               /\ requests'[k].kind = "credit" => requests'[k].sub.credit = 1
    BY AskedNext
  <1>3. \A t \in Tasks : Alive(t)' =>
           /\ task'[t].granted + Pledged(requests', 0, task'[t].id)
                <= client'[task'[t].id].credit
           /\ client'[task'[t].id].got + Carried(out', task'[t].id) + Holding(t)'
                <= task'[t].used
    BY <1>1
  <1>. QED
    BY <1>2, <1>3 DEF Credited

LEMMA WithinCreditNext ==
    ASSUME Shaped, Shaped', Tasking, Tasking', Registered, Living, WithinCredit, AnyStep,
           Credited'
    PROVE  WithinCredit'
  <1>. SUFFICES ASSUME NEW id \in Ids, client'[id].phase = "open"
                PROVE  client'[id].got + Carried(out', id) <= client'[id].credit
    BY DEF WithinCredit
  <1>0. /\ out \in Seq(Frames) /\ out' \in Seq(Frames) /\ requests' \in Seq(Requests)
        /\ client'[id].got \in Nat /\ client'[id].credit \in Nat
    <2>1. client'[id] \in Clients
      BY DEF Shaped
    <2>. QED
      BY <2>1 DEF Shaped, Clients
  <1>1. Carried(out', id) \in Nat
    BY <1>0, LoadFinite
  <1>2. ASSUME NEW t \in Tasks, Alive(t)', task'[t].id = id
        PROVE  client'[id].got + Carried(out', id) <= client'[id].credit
    <2>1. /\ task'[t].granted + Pledged(requests', 0, id) <= client'[id].credit
          /\ client'[id].got + Carried(out', id) + Holding(t)' <= task'[t].used
      BY <1>2 DEF Credited
    <2>2. task'[t].used <= task'[t].granted
      BY <1>2 DEF Tasking, Tasked
    <2>3. task'[t] \in TaskStates
      BY DEF Shaped
    <2>4. /\ task'[t].used \in Nat /\ task'[t].granted \in Nat
          /\ task'[t].frame \in FrameOf(Ids \cup {None})
      BY <2>3 DEF TaskStates
    <2>5. Holding(t)' \in Nat
      BY <2>4, FrameFields DEF Holding
    <2>6. Pledged(requests', 0, id) \in Nat
      BY <1>0, PledgedType
    <2>7. PICK g \in Nat, c \in Nat, h \in Nat, u \in Nat, b \in Nat, p \in Nat, n \in Nat :
             /\ g = client'[id].got /\ c = Carried(out', id) /\ h = Holding(t)'
             /\ u = task'[t].used /\ b = task'[t].granted /\ p = Pledged(requests', 0, id)
             /\ n = client'[id].credit
      BY <1>0, <1>1, <2>4, <2>5, <2>6
    <2>8. b + p <= n /\ g + c + h <= u /\ u <= b
      BY <2>1, <2>2, <2>7, Zenon
    <2>9. g + c <= n
      BY ONLY <2>8
    <2>. QED
      BY <2>7, <2>9, Zenon
  <1>3. ASSUME \A t \in Tasks : Alive(t)' => task'[t].id # id, client[id].phase = "open"
        PROVE  client'[id].got + Carried(out', id) <= client'[id].credit
    <2>1. ASSUME NEW t \in Tasks, NEW f, Voices(t, f)
          PROVE  Weight(f, id) = 0
      <3>1. CASE Ends(t)
        <4>1. f.entries = <<>>
          BY <2>1, <3>1 DEF Voices, Sends, Ends
        <4>2. Len(f.entries) = 0
          BY <4>1
        <4>. QED
          BY <4>2 DEF Weight
      <3>2. CASE Sends(t)
        <4>1. /\ task[t].pc = "sending" /\ Tasked(t) /\ f.id = task[t].id
              /\ task'[t].id = task[t].id
          BY <2>1, <3>2 DEF Voices, Sends, Kept, Tasking
        <4>2. task[t].then \in {"loop", "exit"}
          BY <4>1 DEF Tasked
        <4>3. Alive(t)'
          BY <2>1, <3>2, <4>2 DEF Voices, Sends, Alive
        <4>4. f.id # id
          BY <1>3, <4>1, <4>3
        <4>. QED
          BY <4>4 DEF Weight
      <3>. QED
        BY <2>1, <3>1, <3>2 DEF Voices
    <2>2. /\ client[id].got \in Nat /\ Carried(out, id) \in Nat
          /\ client'[id].got + Carried(out', id) <= client[id].got + Carried(out, id)
      BY <1>3, <2>1, HeardNext
    <2>3. client[id].got + Carried(out, id) <= client[id].credit /\ client[id].credit \in Nat
      BY <1>3, ClientFields DEF WithinCredit
    <2>4. client[id].credit <= client'[id].credit
      <3>1. \/ client'[id].credit = client[id].credit
            \/ \E s : client'[id].credit = client[id].credit + Pledge(s, id)
        BY <1>3, CreditNext
      <3>. QED
        BY <2>3, <3>1, PledgeType
    <2>5. PICK g \in Nat, c \in Nat, n \in Nat, h \in Nat, d \in Nat, m \in Nat :
             /\ g = client[id].got /\ c = Carried(out, id) /\ n = client[id].credit
             /\ h = client'[id].got /\ d = Carried(out', id) /\ m = client'[id].credit
      BY <1>0, <1>1, <2>2, <2>3
    <2>6. h + d <= g + c /\ g + c <= n /\ n <= m
      BY <2>2, <2>3, <2>4, <2>5, Zenon
    <2>7. h + d <= m
      BY ONLY <2>6
    <2>. QED
      BY <2>5, <2>7, Zenon
  <1>4. ASSUME client[id].phase # "open"
        PROVE  client'[id].got + Carried(out', id) <= client'[id].credit
    <2>1. client[id].phase = "free"
      BY <1>4, ClientFields
    <2>2. Quiet(id)
      BY <2>1 DEF Living
    <2>3. PICK i, r : Opens(i, r) /\ i = id
      <3>1. ASSUME NEW i \in Ids, NEW r, Opens(i, r)
            PROVE  i = id
        BY <1>4, <3>1 DEF Opens, Asking
      <3>2. ASSUME NEW i \in Ids, NEW r, Asks(i, r)
            PROVE  FALSE
        BY <1>4, <3>2 DEF Asks, Asking
      <3>3. ASSUME NEW f, Hears(f)
            PROVE  FALSE
        BY <1>4, <3>3 DEF Hears
      <3>. QED
        BY <1>4, <3>1, <3>2, <3>3, ClientSteps
    <2>4. out' = out /\ client'[id].got = 0
      BY <2>3 DEF Opens, Asking
    <2>5. ASSUME NEW k \in DOMAIN out, out[k].id = id
          PROVE  out[k].entries = <<>>
      <3>1. out[k] \in FrameOf(Ids)
        BY <1>0 DEF Frames
      <3>2. out[k].kind # "records"
        BY <2>2, <2>5 DEF Quiet, OfStream, Moving
      <3>. QED
        BY <3>1, <3>2, FrameFields
    <2>6. Carried(out', id) = 0
      BY <2>4, <2>5, CarriedNone
    <2>. QED
      BY <1>0, <2>4, <2>6
  <1>. QED
    BY <1>2, <1>3, <1>4

-----------------------------------------------------------------------------
(* The end of a stream that does not fail. *)

\* Nobody asks anything under an id.
Unasked(id) == \A r : ~Opens(id, r) /\ ~Asks(id, r)

LEMMA SilentUnasked ==
    ASSUME NEW id, Silent(id), client[id].phase = "open"
    PROVE  Unasked(id)
  BY DEF Silent, Unasked, Opens, Asks, Asking

\* What is cut off stays so while nobody asks.
LEMMA CutOffNext ==
    ASSUME Shaped, AnyStep, NEW id, CutOff(id), Unasked(id)
    PROVE  CutOff(id)'
  <1>0. requests \in Seq(Requests)
    BY DEF Shaped
  <1>1. ASSUME NEW k \in DOMAIN requests'
        PROVE  requests'[k].id # id
    <2>1. CASE requests' = requests
      BY <2>1 DEF CutOff
    <2>2. ASSUME NEW i \in Ids, NEW r \in Requests, Opens(i, r) \/ Asks(i, r)
          PROVE  requests'[k].id # id
      <3>1. requests' = Append(requests, r) /\ r.id = i /\ i # id
        BY <2>2 DEF Opens, Asks, Unasked
      <3>2. \/ k \in DOMAIN requests /\ requests'[k] = requests[k]
            \/ requests'[k] = r
        BY <1>0, <3>1, Joined
      <3>. QED
        BY <3>1, <3>2 DEF CutOff
    <2>3. ASSUME NEW r, Takes(r)
          PROVE  requests'[k].id # id
      <3>1. k + 1 \in DOMAIN requests /\ requests'[k] = requests[k + 1]
        BY <1>0, <2>3, Left DEF Takes
      <3>. QED
        BY <3>1 DEF CutOff
    <2>4. requests' # <<>>
      OBVIOUS
    <2>. QED
      BY <2>1, <2>2, <2>3, <2>4, AskSteps
  <1>2. ASSUME NEW k \in DOMAIN pending'.frames
        PROVE  pending'.frames[k].id # id
    <2>1. CASE pending' = pending
      BY <2>1 DEF CutOff
    <2>2. ASSUME NEW r, Takes(r), NEW t, Owes(r, t)
          PROVE  pending'.frames[k].id # id
      <3>1. 1 \in DOMAIN requests /\ requests[1] = r
        BY <1>0, <2>2, Left DEF Takes
      <3>2. r.id # id
        BY <3>1 DEF CutOff
      <3>3. k = 1
        <4>1. pending'.frames \in Seq(Replies) /\ Len(pending'.frames) = 1
          BY <2>2 DEF Owes
        <4>2. DOMAIN pending'.frames = 1..1
          BY <4>1
        <4>. QED
          BY <4>2
      <3>. QED
        BY <2>2, <3>2, <3>3 DEF Owes
    <2>3. CASE Replied
      BY <2>3 DEF Replied
    <2>4. \/ pending' = pending \/ Replied
          \/ \E r : \E t : Takes(r) /\ Owes(r, t)
      <3>1. ASSUME NEW r, \/ Refuses(r)
                         \/ \E t \in Tasks : Spawns(r, t) \/ Raises(r, t)
            PROVE  \E t : Takes(r) /\ Owes(r, t)
        BY <3>1 DEF Refuses, Spawns, Raises
      <3>2. ASSUME \/ FeedStep /\ UNCHANGED <<sessionVars, task, writing, opened, failures>>
                   \/ \E i \in Ids : \E r : Opens(i, r) \/ Asks(i, r)
                   \/ \E f : Hears(f)
                   \/ \E r : Cancels(r)
                   \/ Close \/ WriterStops \/ UNCHANGED vars
                   \/ \E t \in Tasks : TaskStep(t)
            PROVE  pending' = pending
        BY <3>2 DEF Opens, Asks, Asking, Hears, Cancels, Close, WriterStops, TaskStep,
                    TaskFrame, vars, sessionVars
      <3>. QED
        BY <3>1, <3>2 DEF AnyStep
    <2>. QED
      BY <2>1, <2>2, <2>3, <2>4
  <1>. QED
    BY <1>1, <1>2 DEF CutOff

\* A client that asks nothing more of an open stream does not start again.
LEMMA SilentNext ==
    ASSUME Shaped, AnyStep, NEW id \in Ids, Silent(id),
           client[id].phase = "open", client'[id].phase = "open"
    PROVE  Silent(id)'
  <1>0. Unasked(id)
    BY SilentUnasked
  <1>1. ~reading => ~reading'
    BY DEF AnyStep, Opens, Asks, Asking, Hears, Refuses, Spawns, Raises, Cancels, Takes,
           Replied, Close, WriterStops, TaskStep, TaskFrame, vars, sessionVars
  <1>2. client[id].cancelled => client'[id].cancelled
    <2>1. ASSUME NEW i \in Ids, NEW r, Opens(i, r) \/ Asks(i, r)
          PROVE  client'[id] = client[id]
      BY <1>0, <2>1 DEF Unasked, Opens, Asks, Asking
    <2>2. ASSUME NEW f, Hears(f)
          PROVE  client'[id].cancelled = client[id].cancelled
      BY <2>2 DEF Hears
    <2>. QED
      BY <2>1, <2>2, ClientSteps
  <1>. QED
    BY <1>1, <1>2 DEF Silent

\* An id is freed by an End, behind which nothing is left.
LEMMA FreedNext ==
    ASSUME Shaped, Tasking, Living, Ending, AnyStep, NEW id \in Ids,
           client'[id].phase = "free"
    PROVE  CutOff(id)' /\ \A k \in DOMAIN out' : out'[k].id # id
  <1>0. out \in Seq(Frames)
    BY DEF Shaped
  <1>1. CASE client[id].phase = "free"
    <2>1. CutOff(id) /\ \A k \in DOMAIN out : out[k].id # id
      BY <1>1 DEF Ending
    <2>2. Unasked(id)
      BY <1>1 DEF Unasked, Opens, Asks
    <2>3. CutOff(id)'
      BY <2>1, <2>2, CutOffNext
    <2>4. ASSUME NEW f \in Frames, out' = Append(out, f), f.id # id
          PROVE  \A k \in DOMAIN out' : out'[k].id # id
      BY <1>0, <2>1, <2>4, Joined
    <2>5. ASSUME NEW f, Hears(f)
          PROVE  \A k \in DOMAIN out' : out'[k].id # id
      BY <1>0, <2>1, <2>5, Left DEF Hears
    <2>6. ASSUME NEW t \in Tasks, NEW f, Voices(t, f)
          PROVE  f \in Frames /\ out' = Append(out, f) /\ f.id # id
      <3>1. Alive(t) /\ f.id = task[t].id /\ f \in Frames /\ out' = Append(out, f)
        BY <2>6 DEF Voices
      <3>. QED
        BY <1>1, <3>1 DEF Living
    <2>7. ASSUME Replied, out' # out
          PROVE  \E f \in Frames : out' = Append(out, f) /\ f.id # id
      <3>1. /\ Len(pending.frames) = 1 /\ pending.frames[1] \in Frames
            /\ out' = Append(out, pending.frames[1])
        BY <2>7 DEF Replied, Replies
      <3>2. 1 \in DOMAIN pending.frames
        <4>1. pending.frames \in Seq(Replies)
          BY DEF Shaped
        <4>. QED
          BY <3>1, <4>1
      <3>. QED
        BY <2>1, <3>1, <3>2 DEF CutOff
    <2>8. CASE out' = out
      BY <2>1, <2>3, <2>8
    <2>9. WriterStops => out' = <<>>
      BY DEF WriterStops
    <2>10. \A k \in DOMAIN out' : out'[k].id # id
      BY <2>4, <2>5, <2>6, <2>7, <2>8, <2>9, Speaking
    <2>. QED
      BY <2>3, <2>10
  <1>2. CASE client[id].phase # "free"
    <2>1. client[id].phase = "open"
      BY <1>2, ClientFields
    <2>2. PICK f : /\ Hears(f) /\ f.kind = "end" /\ f.id = id
                   /\ 1 \in DOMAIN out /\ out[1] = f
      BY <1>2, <2>1, Freeing
    <2>3. CutOff(id) /\ \A j \in DOMAIN out : j > 1 => out[j].id # id
      BY <2>2 DEF Ending
    <2>4. requests' = requests /\ pending' = pending /\ out # <<>> /\ out' = Tail(out)
      BY <2>2 DEF Hears
    <2>5. ASSUME NEW k \in DOMAIN out'
          PROVE  out'[k].id # id
      <3>1. k \in Nat /\ k >= 1 /\ k + 1 \in DOMAIN out /\ out'[k] = out[k + 1]
        BY <1>0, <2>4, Left
      <3>2. k + 1 > 1
        BY <3>1
      <3>. QED
        BY <2>3, <3>1, <3>2
    <2>. QED
      BY <2>3, <2>4, <2>5 DEF CutOff
  <1>. QED
    BY <1>1, <1>2

\* A task that is alive is one the client still has open.
LEMMA OpenId ==
    ASSUME Shaped, Tasking, Registered, Living, AnyStep, NEW t \in Tasks, Alive(t), Alive(t)',
           NEW id, id = task[t].id
    PROVE  /\ id \in Ids /\ task'[t].id = id
           /\ client[id].phase = "open" /\ client'[id].phase = "open"
  <1>1. task'[t].id = id
    BY TaskChange
  <1>. QED
    BY <1>1, ServedNext DEF Tasking, Living

\* A task that nobody can reach any more stays so.
LEMMA ClosedNext ==
    ASSUME Shaped, Tasking, Registered, Living, AnyStep, NEW t \in Tasks,
           Alive(t), Alive(t)', ~Open(t)
    PROVE  ~Open(t)'
  <1>1. PICK id : id = task[t].id
    OBVIOUS
  <1>2. id \in Ids /\ task'[t].id = id /\ t # None /\ table \in [Ids -> Tasks \cup {None}]
    BY <1>1, OpenId DEF Shaped, Tasks, None
  <1>3. table[id] # t
    BY <1>1 DEF Open
  <1>4. table'[id] # t
    <2>1. ASSUME NEW r, NEW u \in Tasks, Spawns(r, u)
          PROVE  table'[id] # t
      <3>1. u # t
        BY <2>1, Spawning
      <3>2. table' = [table EXCEPT ![r.id] = u]
        BY <2>1 DEF Spawns
      <3>. QED
        BY <1>2, <1>3, <3>1, <3>2
    <2>2. ASSUME NEW r, Cancels(r)
          PROVE  table'[id] # t
      <3>1. table' = [table EXCEPT ![r.id] = None]
        BY <2>2 DEF Cancels
      <3>. QED
        BY <1>2, <1>3, <3>1
    <2>3. CASE Close
      BY <1>2, <2>3 DEF Close
    <2>4. ASSUME NEW u \in Tasks, Forgets(u)
          PROVE  table'[id] # t
      <3>1. table' = [table EXCEPT ![task[u].id] = None]
        BY <2>4 DEF Forgets
      <3>. QED
        BY <1>2, <1>3, <3>1
    <2>. QED
      BY <1>3, <2>1, <2>2, <2>3, <2>4, TableSteps
  <1>. QED
    BY <1>2, <1>4 DEF Open

\* The cancel that closes a stream was the last request under its id.
LEMMA DroppedNext ==
    ASSUME Shaped, Tasking, Registered, Living, Ending, AnyStep,
           NEW t \in Tasks, Alive(t)', ~Open(t)', NEW id, id = task'[t].id
    PROVE  CutOff(id)' /\ Silent(id)'
  <1>0. table \in [Ids -> Tasks \cup {None}] /\ requests \in Seq(Requests) /\ t # None
    BY DEF Shaped, Tasks, None
  <1>1. ASSUME NEW r, NEW u \in Tasks, Spawns(r, u)
        PROVE  u # t
    <2>1. u = t => task'[t].id = r.id /\ r.id \in Ids /\ table' = [table EXCEPT ![r.id] = t]
      BY <1>1, Spawning DEF Spawns
    <2>2. u = t => Open(t)'
      BY <1>0, <2>1 DEF Open
    <2>. QED
      BY <2>2
  <1>2. Alive(t)
    <2>1. ASSUME NEW r, NEW u \in Tasks, Spawns(r, u)
          PROVE  Alive(t)
      BY <1>1, <2>1, Spawning
    <2>. QED
      BY <2>1, AliveSteps
  <1>3. /\ id = task[t].id /\ id \in Ids
        /\ client[id].phase = "open" /\ client'[id].phase = "open"
    BY <1>2, OpenId
  <1>4. CASE ~Open(t)
    <2>1. CutOff(id) /\ Silent(id)
      BY <1>2, <1>3, <1>4 DEF Ending
    <2>2. Unasked(id)
      BY <1>3, <2>1, SilentUnasked
    <2>. QED
      BY <1>3, <2>1, <2>2, CutOffNext, SilentNext
  <1>5. CASE Open(t)
    <2>0. table[id] = t /\ table'[id] # t
      BY <1>3, <1>5 DEF Open
    <2>1. ASSUME NEW r, NEW u \in Tasks, Spawns(r, u)
          PROVE  FALSE
      <3>1. table' = [table EXCEPT ![r.id] = u] /\ r.id # id
        <4>1. r.id # id
          BY <1>2, <1>3, <2>1, Spawning
        <4>. QED
          BY <2>1, <4>1 DEF Spawns
      <3>. QED
        BY <1>0, <1>3, <2>0, <3>1
    <2>2. ASSUME NEW r, Cancels(r)
          PROVE  CutOff(id)' /\ Silent(id)'
      <3>1. table' = [table EXCEPT ![r.id] = None] /\ Takes(r) /\ r.kind = "cancel"
            /\ pending' = pending
        BY <2>2 DEF Cancels
      <3>2. r.id = id
        BY <1>0, <1>3, <2>0, <3>1
      <3>3. /\ requests # <<>> /\ requests' = Tail(requests) /\ r = Head(requests)
            /\ pending.frames = <<>> /\ client' = client /\ reading' = reading
        BY <3>1 DEF Takes
      <3>4. 1 \in DOMAIN requests /\ requests[1] = r
        BY <1>0, <3>3, Left
      <3>5. Silent(id) /\ \A j \in DOMAIN requests : j > 1 => requests[j].id # id
        BY <3>1, <3>2, <3>4 DEF Ending
      <3>6. ASSUME NEW k \in DOMAIN requests'
            PROVE  requests'[k].id # id
        <4>1. k \in Nat /\ k >= 1 /\ k + 1 \in DOMAIN requests /\ requests'[k] = requests[k + 1]
          BY <1>0, <3>3, Left
        <4>2. k + 1 > 1
          BY <4>1
        <4>. QED
          BY <3>5, <4>1, <4>2
      <3>7. CutOff(id)'
        BY <3>1, <3>3, <3>6 DEF CutOff
      <3>. QED
        BY <3>3, <3>5, <3>7 DEF Silent
    <2>3. CASE Close
      BY <2>3 DEF Close, CutOff, Silent
    <2>4. ASSUME NEW u \in Tasks, Forgets(u)
          PROVE  FALSE
      <3>1. table' = [table EXCEPT ![task[u].id] = None] /\ task[u].pc = "exit"
        BY <2>4 DEF Forgets
      <3>2. task[u].id = id
        BY <1>0, <1>3, <2>0, <3>1
      <3>3. u = t
        BY <1>2, <1>3, <3>1, <3>2 DEF Registered, Alive
      <3>. QED
        BY <1>5, <3>1, <3>3 DEF Ending
    <2>. QED
      BY <2>0, <2>1, <2>2, <2>3, <2>4, TableSteps
  <1>. QED
    BY <1>4, <1>5

\* A task that leaves is one that nobody can reach.
LEMMA LeavingNext ==
    ASSUME Shaped, Tasking, Registered, Living, Ending, AnyStep, writing,
           NEW t \in Tasks, task'[t].pc \in {"exit", "ending"}
    PROVE  ~Open(t)'
  <1>1. Alive(t)'
    BY DEF Alive
  <1>2. Alive(t)
    <2>1. ASSUME NEW r, NEW u \in Tasks, Spawns(r, u)
          PROVE  u # t
      BY <2>1 DEF Spawns
    <2>2. ASSUME NEW r, NEW u \in Tasks, Spawns(r, u)
          PROVE  Alive(t)
      BY <1>1, <2>1, <2>2, Spawning
    <2>. QED
      BY <1>1, <2>2, AliveSteps
  <1>3. ~Open(t)
    <2>1. CASE Same(t)
      BY <2>1 DEF Same, Ending
    <2>2. CASE TaskStep(t)
      <3>1. CASE Strolls(t)
        BY <3>1 DEF Strolls, Strolling
      <3>2. ~Prepares(t) /\ ~Ends(t)
        BY DEF Prepares, Ends
      <3>3. ~Sends(t)
        <4>. SUFFICES ASSUME Sends(t)
                      PROVE  FALSE
          OBVIOUS
        <4>1. task[t].then = "loop" /\ task'[t].pc = task[t].then
          BY DEF Sends, Ending
        <4>. QED
          BY <4>1
      <3>4. CASE Forgets(t)
        BY <3>4 DEF Forgets, Ending
      <3>. QED
        BY <2>2, <3>1, <3>2, <3>3, <3>4 DEF TaskStep
    <2>3. ~(task'[t].pc \in {"viewing", "loop"})
      OBVIOUS
    <2>. QED
      BY <1>1, <1>2, <2>1, <2>2, <2>3, TaskChange
  <1>. QED
    BY <1>1, <1>2, <1>3, ClosedNext

\* A Cancel is the last request of its stream, and its client asks nothing more.
LEMMA CancelsNext ==
    ASSUME Shaped, Tasking, Registered, Living, Ending, AnyStep,
           NEW k \in DOMAIN requests', NEW id, id = requests'[k].id,
           requests'[k].kind = "cancel"
    PROVE  /\ Silent(id)'
           /\ \A j \in DOMAIN requests' : j > k => requests'[j].id # id
  <1>0. /\ requests \in Seq(Requests) /\ DOMAIN requests = 1..Len(requests)
        /\ Len(requests) \in Nat
    BY DEF Shaped
  <1>1. ASSUME NEW m \in DOMAIN requests, requests[m] = requests'[k]
        PROVE  /\ Silent(id) /\ Silent(id)' /\ Unasked(id)
               /\ \A j \in DOMAIN requests : j > m => requests[j].id # id
    <2>1. Silent(id) /\ \A j \in DOMAIN requests : j > m => requests[j].id # id
      BY <1>1 DEF Ending
    <2>2. requests[m] \in Requests
      BY <1>0
    <2>3. id \in Ids
      BY <1>1, <2>2, RequestFields
    <2>4. client[id].phase # "free"
      BY <1>1, <2>3 DEF Ending, CutOff
    <2>5. client[id].phase = "open"
      BY <2>3, <2>4, ClientFields
    <2>6. client'[id].phase = "open"
      <3>. SUFFICES ASSUME client'[id].phase # "open"
                    PROVE  FALSE
        OBVIOUS
      <3>1. PICK f : f.kind = "end" /\ f.id = id /\ 1 \in DOMAIN out /\ out[1] = f
        BY <2>3, <2>5, Freeing
      <3>2. CutOff(id)
        BY <3>1 DEF Ending
      <3>. QED
        BY <1>1, <3>2 DEF CutOff
    <2>. QED
      BY <2>1, <2>3, <2>5, <2>6, SilentNext, SilentUnasked
  <1>2. CASE requests' = requests
    BY <1>1, <1>2
  <1>3. ASSUME NEW r, Takes(r)
        PROVE  /\ Silent(id)'
               /\ \A j \in DOMAIN requests' : j > k => requests'[j].id # id
    <2>0. requests # <<>> /\ requests' = Tail(requests)
      BY <1>3 DEF Takes
    <2>1. k \in Nat /\ k + 1 \in DOMAIN requests /\ requests'[k] = requests[k + 1]
      BY <1>0, <2>0, Left
    <2>2. PICK m \in DOMAIN requests : m = k + 1
      BY <2>1
    <2>3. Silent(id)' /\ \A j \in DOMAIN requests : j > m => requests[j].id # id
      BY <1>1, <2>1, <2>2
    <2>4. ASSUME NEW j \in DOMAIN requests', j > k
          PROVE  requests'[j].id # id
      <3>1. j \in Nat /\ j + 1 \in DOMAIN requests /\ requests'[j] = requests[j + 1]
        BY <1>0, <2>0, Left
      <3>2. j + 1 > m
        BY <2>1, <2>2, <2>4, <3>1
      <3>. QED
        BY <2>3, <3>1, <3>2
    <2>. QED
      BY <2>3, <2>4
  <1>4. ASSUME NEW i \in Ids, NEW r \in Requests, Opens(i, r) \/ Asks(i, r)
        PROVE  /\ Silent(id)'
               /\ \A j \in DOMAIN requests' : j > k => requests'[j].id # id
    <2>0. requests' = Append(requests, r) /\ r.id = i
      BY <1>4 DEF Opens, Asks
    <2>1. \A j \in DOMAIN requests' :
             \/ j \in DOMAIN requests /\ requests'[j] = requests[j]
             \/ j = Len(requests) + 1 /\ requests'[j] = r
      BY <1>0, <2>0, Joined
    <2>2. CASE k \in DOMAIN requests /\ requests'[k] = requests[k]
      <3>1. /\ Silent(id)' /\ Unasked(id)
            /\ \A j \in DOMAIN requests : j > k => requests[j].id # id
        BY <1>1, <2>2
      <3>2. r.id # id
        BY <1>4, <2>0, <3>1 DEF Unasked
      <3>. QED
        BY <2>1, <3>1, <3>2
    <2>3. CASE k = Len(requests) + 1 /\ requests'[k] = r
      <3>1. Asks(i, r) /\ i = id /\ r.kind = "cancel"
        BY <1>4, <2>0, <2>3 DEF Opens
      <3>2. client'[id].cancelled
        BY <3>1 DEF Asks
      <3>3. DOMAIN requests' = 1..k
        BY <1>0, <2>0, <2>3, Joined
      <3>4. \A j \in DOMAIN requests' : ~(j > k)
        BY <1>0, <2>3, <3>3
      <3>. QED
        BY <3>2, <3>4 DEF Silent
    <2>. QED
      BY <2>1, <2>2, <2>3
  <1>5. requests' # <<>>
    OBVIOUS
  <1>. QED
    BY <1>2, <1>3, <1>4, <1>5, AskSteps

\* And so is an End among the frames.
LEMMA LastFrameNext ==
    ASSUME Shaped, Tasking, Registered, Living, Ending, AnyStep,
           NEW k \in DOMAIN out', NEW id, id = out'[k].id, out'[k].kind = "end"
    PROVE  /\ CutOff(id)' /\ Silent(id)'
           /\ \A j \in DOMAIN out' : j > k => out'[j].id # id
  <1>0. /\ out \in Seq(Frames) /\ DOMAIN out = 1..Len(out) /\ Len(out) \in Nat
    BY DEF Shaped
  <1>1. ASSUME NEW m \in DOMAIN out, out[m] = out'[k], m > 1 \/ ~\E f : Hears(f)
        PROVE  /\ CutOff(id) /\ CutOff(id)' /\ Silent(id)'
               /\ \A j \in DOMAIN out : j > m => out[j].id # id
    <2>1. CutOff(id) /\ Silent(id) /\ \A j \in DOMAIN out : j > m => out[j].id # id
      BY <1>1 DEF Ending
    <2>2. out[m] \in FrameOf(Ids)
      BY <1>0 DEF Frames
    <2>3. id \in Ids
      BY <1>1, <2>2, FrameFields
    <2>4. client[id].phase # "free"
      BY <1>1, <2>3 DEF Ending
    <2>5. client[id].phase = "open"
      BY <2>3, <2>4, ClientFields
    <2>6. client'[id].phase = "open"
      <3>. SUFFICES ASSUME client'[id].phase # "open"
                    PROVE  FALSE
        OBVIOUS
      <3>1. PICK f : /\ Hears(f) /\ f.kind = "end" /\ f.id = id
                     /\ 1 \in DOMAIN out /\ out[1] = f
        BY <2>3, <2>5, Freeing
      <3>2. \A j \in DOMAIN out : j > 1 => out[j].id # id
        BY <3>1 DEF Ending
      <3>. QED
        BY <1>1, <3>1, <3>2
    <2>7. Unasked(id)
      BY <2>1, <2>5, SilentUnasked
    <2>. QED
      BY <2>1, <2>3, <2>5, <2>6, <2>7, CutOffNext, SilentNext
  <1>2. CASE out' = out
    <2>1. ASSUME NEW f, Hears(f)
          PROVE  FALSE
      BY <1>0, <1>2, <2>1, NotTail DEF Hears
    <2>. QED
      BY <1>1, <1>2, <2>1
  <1>3. ASSUME NEW f, Hears(f)
        PROVE  /\ CutOff(id)' /\ Silent(id)'
               /\ \A j \in DOMAIN out' : j > k => out'[j].id # id
    <2>0. out # <<>> /\ out' = Tail(out)
      BY <1>3 DEF Hears
    <2>1. k \in Nat /\ k >= 1 /\ k + 1 \in DOMAIN out /\ out'[k] = out[k + 1]
      BY <1>0, <2>0, Left
    <2>2. PICK m \in DOMAIN out : m = k + 1
      BY <2>1
    <2>3. m > 1
      BY <2>1, <2>2
    <2>4. CutOff(id)' /\ Silent(id)' /\ \A j \in DOMAIN out : j > m => out[j].id # id
      BY <1>1, <2>1, <2>2, <2>3
    <2>5. ASSUME NEW j \in DOMAIN out', j > k
          PROVE  out'[j].id # id
      <3>1. j \in Nat /\ j + 1 \in DOMAIN out /\ out'[j] = out[j + 1]
        BY <1>0, <2>0, Left
      <3>2. j + 1 > m
        BY <2>1, <2>2, <2>5, <3>1
      <3>. QED
        BY <2>4, <3>1, <3>2
    <2>. QED
      BY <2>4, <2>5
  <1>4. ASSUME NEW f \in Frames, out' = Append(out, f),
               \/ Replied /\ f = pending.frames[1] /\ 1 \in DOMAIN pending.frames
                  /\ f \in Replies
               \/ \E t \in Tasks : Voices(t, f)
        PROVE  /\ CutOff(id)' /\ Silent(id)'
               /\ \A j \in DOMAIN out' : j > k => out'[j].id # id
    <2>1. \A j \in DOMAIN out' : \/ j \in DOMAIN out /\ out'[j] = out[j]
                                 \/ j = Len(out) + 1 /\ out'[j] = f
      BY <1>0, <1>4, Joined
    <2>2. CASE k \in DOMAIN out /\ out'[k] = out[k]
      <3>1. ASSUME NEW g, Hears(g)
            PROVE  FALSE
        BY <1>0, <1>4, <2>2, <3>1, NotTail DEF Hears
      <3>2. /\ CutOff(id) /\ CutOff(id)' /\ Silent(id)'
            /\ \A j \in DOMAIN out : j > k => out[j].id # id
        BY <1>1, <2>2, <3>1
      <3>3. Unserved(id)
        BY <2>2 DEF Living
      <3>4. f.id # id
        BY <1>4, <3>2, <3>3 DEF Voices, Unserved, CutOff
      <3>. QED
        BY <2>1, <3>2, <3>4
    <2>3. CASE k = Len(out) + 1 /\ out'[k] = f
      <3>1. f \notin Replies
        BY <2>3 DEF Replies
      <3>2. PICK t \in Tasks : Voices(t, f)
        BY <1>4, <3>1
      <3>3. /\ Ends(t) /\ Alive(t) /\ TaskStep(t) /\ id = task[t].id
            /\ task[t].pc = "ending"
        BY <2>3, <3>2 DEF Voices, Ends
      <3>4. CutOff(id) /\ Silent(id)
        BY <3>3 DEF Ending
      <3>5. requests' = requests /\ pending' = pending /\ client' = client /\ reading' = reading
        BY <3>3 DEF TaskStep, TaskFrame
      <3>6. CutOff(id)' /\ Silent(id)'
        BY <3>4, <3>5 DEF CutOff, Silent
      <3>7. DOMAIN out' = 1..k
        BY <1>0, <1>4, <2>3, Joined
      <3>8. \A j \in DOMAIN out' : ~(j > k)
        BY <1>0, <2>3, <3>7
      <3>. QED
        BY <3>6, <3>8
    <2>. QED
      BY <2>1, <2>2, <2>3
  <1>5. ~WriterStops
    BY DEF WriterStops
  <1>6. ASSUME Replied, out' # out
        PROVE  \E f \in Frames : /\ out' = Append(out, f) /\ f = pending.frames[1]
                                 /\ 1 \in DOMAIN pending.frames /\ f \in Replies
    <2>1. /\ Len(pending.frames) = 1 /\ pending.frames[1] \in Replies
          /\ out' = Append(out, pending.frames[1])
      BY <1>6 DEF Replied
    <2>2. pending.frames \in Seq(Replies)
      BY DEF Shaped
    <2>. QED
      BY <2>1, <2>2 DEF Replies
  <1>7. ASSUME NEW t \in Tasks, NEW f, Voices(t, f)
        PROVE  f \in Frames /\ out' = Append(out, f)
    BY <1>7 DEF Voices
  <1>. QED
    BY <1>2, <1>3, <1>4, <1>5, <1>6, <1>7, Speaking

LEMMA EndedNext ==
    ASSUME Shaped, Tasking, Registered, Living, Ended, AnyStep
    PROVE  Ended'
  <1>. SUFFICES ASSUME failures' = 0, writing'
                PROVE  Ending'
    BY DEF Ended
  <1>0. failures \in Nat
    BY DEF Shaped
  <1>1. failures' = failures \/ failures' = failures + 1
    BY DEF AnyStep, Opens, Asks, Asking, Hears, Refuses, Spawns, Raises, Cancels, Takes,
           Replied, Close, WriterStops, TaskStep, Strolls, Prepares, Sends, Forgets, Ends, vars
  <1>2. failures = 0 /\ writing
    BY <1>0, <1>1, WriterNext
  <1>3. Ending
    BY <1>2 DEF Ended
  <1>4. \A id \in Ids : client'[id].phase = "free" =>
           CutOff(id)' /\ \A k \in DOMAIN out' : out'[k].id # id
    BY <1>3, FreedNext
  <1>5. ASSUME NEW t \in Tasks, Alive(t)', ~Open(t)'
        PROVE  CutOff(task[t].id)' /\ Silent(task[t].id)'
    <2>1. PICK id : id = task'[t].id
      OBVIOUS
    <2>2. CutOff(id)' /\ Silent(id)'
      BY <1>3, <1>5, <2>1, DroppedNext
    <2>. QED
      BY <2>1, <2>2 DEF CutOff, Silent
  <1>6. \A t \in Tasks : task'[t].pc \in {"exit", "ending"} => ~Open(t)'
    BY <1>2, <1>3, LeavingNext
  <1>7. ASSUME NEW k \in DOMAIN out', out'[k].kind = "end"
        PROVE  /\ CutOff(out[k].id)' /\ Silent(out[k].id)'
               /\ \A j \in DOMAIN out' : j > k => out'[j].id # out'[k].id
    <2>1. PICK id : id = out'[k].id
      OBVIOUS
    <2>2. /\ CutOff(id)' /\ Silent(id)'
          /\ \A j \in DOMAIN out' : j > k => out'[j].id # id
      BY <1>3, <1>7, <2>1, LastFrameNext
    <2>. QED
      BY <2>1, <2>2 DEF CutOff, Silent
  <1>8. ASSUME NEW k \in DOMAIN requests', requests'[k].kind = "cancel"
        PROVE  /\ Silent(requests[k].id)'
               /\ \A j \in DOMAIN requests' : j > k => requests'[j].id # requests'[k].id
    <2>1. PICK id : id = requests'[k].id
      OBVIOUS
    <2>2. /\ Silent(id)'
          /\ \A j \in DOMAIN requests' : j > k => requests'[j].id # id
      BY <1>3, <1>8, <2>1, CancelsNext
    <2>. QED
      BY <2>1, <2>2 DEF Silent
  <1>9. ASSUME NEW t \in Tasks, task'[t].pc = "sending"
        PROVE  task'[t].then = "loop"
    <2>1. CASE Same(t)
      BY <1>3, <1>9, <2>1 DEF Same, Ending
    <2>2. CASE Prepares(t)
      <3>1. failures' # failures + 1
        BY <1>2
      <3>. QED
        BY <2>2, <3>1 DEF Prepares
    <2>. QED
      BY <1>9, <2>1, <2>2, Sending
  <1>. QED
    BY <1>4, <1>5, <1>6, <1>7, <1>8, <1>9 DEF Ending

-----------------------------------------------------------------------------
(* The invariant. *)

LEMMA IInvInit ==
    ASSUME Init
    PROVE  IInv
  <1>0. /\ requests = <<>> /\ out = <<>> /\ ring = <<>>
        /\ pending = [spawn |-> None, frames |-> <<>>]
        /\ client = [id \in Ids |-> Closed] /\ table = [id \in Ids |-> None]
        /\ task = [t \in Tasks |-> Unborn]
        /\ reading = TRUE /\ writing = TRUE /\ opened = 0 /\ failures = 0
        /\ log \in Recoverable /\ published = Len(log) /\ floor \in 1..(Len(log) + 1)
        /\ up = TRUE
    BY DEF Init, FeedInit
  <1>1. log \in Seq(Patches) /\ Len(log) \in Nat
    BY <1>0, BatchType
  <1>2. Closed \in Clients /\ Closed.phase = "free"
    BY DEF Closed, Clients
  <1>3. /\ client \in [Ids -> Clients] /\ \A id \in Ids : client[id].phase = "free"
        /\ table \in [Ids -> Tasks \cup {None}] /\ \A id \in Ids : table[id] = None
        /\ task \in [Tasks -> TaskStates] /\ \A t \in Tasks : task[t].pc = "unborn"
    BY <1>0, <1>2, UnbornType
  <1>4. pending \in [spawn : Tasks \cup {None}, frames : Seq(Replies)]
    BY <1>0
  <1>5. /\ DOMAIN out = {} /\ DOMAIN requests = {} /\ DOMAIN pending.frames = {}
        /\ Len(out) = 0 /\ Len(requests) = 0 /\ Len(pending.frames) = 0
    BY <1>0
  <1>6. Shaped
    <2>1. out \in Seq(Frames) /\ requests \in Seq(Requests) /\ ring \in Seq(Entries)
      BY <1>0
    <2>. QED
      BY <1>0, <1>1, <1>3, <1>4, <2>1 DEF Shaped
  <1>7. Bounded
    <2>1. MaxRequests \in Nat /\ OutboxCapacity \in Nat
      BY SubscriptionAssumption
    <2>. QED
      BY <1>0, <1>1, <1>5, <2>1 DEF Bounded
  <1>8. \A t \in Tasks : ~Alive(t) /\ task[t].pc = "unborn"
    BY <1>3 DEF Alive
  <1>9. Windowed /\ Tasking /\ Registered /\ Living /\ Reclaimed
    BY <1>0, <1>3, <1>5, <1>8
       DEF Windowed, Tasking, Registered, Living, Quiet, Reclaimed, GapIsReclaimed
  <1>10. Chained /\ Credited /\ WithinCredit
    BY <1>3, <1>5, <1>8 DEF Chained, Credited, WithinCredit
  <1>11. Ended
    BY <1>3, <1>5, <1>8 DEF Ended, Ending, CutOff
  <1>. QED
    BY <1>6, <1>7, <1>9, <1>10, <1>11 DEF IInv

LEMMA IInvNext ==
    ASSUME Final = {"end"}, IInv, [Next]_vars
    PROVE  IInv'
  <1>0. /\ Shaped /\ Bounded /\ Windowed /\ Tasking /\ Registered /\ Living /\ Chained
        /\ Reclaimed /\ Credited /\ WithinCredit /\ Ended
    BY DEF IInv
  <1>1. AnyStep
    BY <1>0, StepsAre
  <1>2. Shaped' /\ Bounded' /\ Windowed'
    BY <1>0, <1>1, ShapedNext, BoundedNext, WindowedNext
  <1>3. Tasking' /\ Registered'
    BY <1>0, <1>1, TaskingNext, RegisteredNext DEF Registered
  <1>4. Living'
    BY <1>0, <1>1, LivingNext
  <1>5. Reclaimed' /\ Chained'
    BY <1>0, <1>1, <1>2, ReclaimedNext, ChainedNext
  <1>6. Credited'
    BY <1>0, <1>1, <1>2, CreditedNext
  <1>7. WithinCredit'
    BY <1>0, <1>1, <1>2, <1>3, <1>6, WithinCreditNext
  <1>8. Ended'
    BY <1>0, <1>1, EndedNext
  <1>. QED
    BY <1>2, <1>3, <1>4, <1>5, <1>6, <1>7, <1>8 DEF IInv

\* Where the client takes an id to be free only on End, the invariant holds.
THEOREM InvariantHolds ==
    ASSUME Final = {"end"}
    PROVE  Spec => []IInv
  <1>1. Init => IInv
    BY IInvInit
  <1>2. IInv /\ [Next]_vars => IInv'
    BY IInvNext
  <1>. QED
    BY <1>1, <1>2, PTL DEF Spec

-----------------------------------------------------------------------------
(* What follows. *)

\* Whatever a client hears next continues where it stands, with what the log has,
\* and what is missing is announced by a gap: for any number of streams, tasks and
\* batches, and any limits (stream.rs, session.rs).
THEOREM HearingHolds ==
    ASSUME Final = {"end"}
    PROVE  Spec => []HearsTheLog
  <1>1. ASSUME IInv
        PROVE  HearsTheLog
    <2>0. /\ Shaped /\ Bounded /\ Living /\ Chained /\ Reclaimed
          /\ out \in Seq(Frames)
      BY <1>1 DEF IInv, Shaped
    <2>1. TypeOK
      <3>1. ASSUME NEW id \in Ids
            PROVE  /\ client[id].phase \in {"free", "open"} /\ client[id].pos \in Nat
                   /\ table[id] \in Tasks \cup {None}
        BY <2>0, ClientFields DEF Shaped
      <3>2. ASSUME NEW t \in Tasks
            PROVE  task[t].pc \in Places /\ task[t].used \in Nat
        BY <2>0, TaskFields
      <3>3. ASSUME NEW i \in DOMAIN out
            PROVE  out[i].kind \in Kinds /\ out[i].id \in Ids
        <4>1. out[i] \in FrameOf(Ids)
          BY <2>0 DEF Frames
        <4>. QED
          BY <4>1, FrameFields
      <3>. QED
        BY <2>0, <3>1, <3>2, <3>3 DEF TypeOK, Bounded
    <2>2. Continues
      <3>. SUFFICES ASSUME out # <<>>, NEW f, f = Head(out), NEW pos, pos = client[f.id].pos
                    PROVE  /\ f.kind = "records" =>
                                 /\ f.entries # <<>>
                                 /\ \A i \in DOMAIN f.entries :
                                       /\ f.entries[i].version = pos + i
                                       /\ f.entries[i].patch = log[pos + i]
                           /\ f.kind = "gap" => f.from = pos /\ f.to > pos
        BY DEF Continues
      <3>1. f \in FrameOf(Ids) /\ 1 \in DOMAIN out /\ out[1] = f
        BY <2>0, Left DEF Frames
      <3>2. f.id \in Ids
        BY <3>1, FrameFields
      <3>3. client[f.id].phase \in {"free", "open"} /\ pos \in Nat
        BY <2>0, <3>2, ClientFields
      <3>4. CASE client[f.id].phase = "free"
        <4>1. Quiet(f.id)
          BY <2>0, <3>2, <3>4 DEF Living
        <4>2. f.kind \notin {"records", "gap"}
          BY <3>1, <4>1 DEF Quiet, OfStream, Moving
        <4>. QED
          BY <4>2
      <3>5. CASE client[f.id].phase = "open"
        <4>1. writing
          BY <2>0 DEF Bounded
        <4>2. PICK q \in Nat : Walk(log, out, f.id, pos, q)
          BY <2>0, <3>2, <3>5, <4>1 DEF Chained, Reaches
        <4>3. Fits(log, f, pos)
          BY <2>0, <3>3, <4>2, WalkLeave
        <4>. QED
          BY <4>3 DEF Fits
      <3>. QED
        BY <3>3, <3>4, <3>5
    <2>. QED
      BY <2>0, <2>1, <2>2 DEF HearsTheLog, Reclaimed
  <1>. QED
    BY <1>1, InvariantHolds, PTL

\* No client is sent more than the credit it gave, however its grants cross the
\* records on their way (proto: StreamCredit; stream.rs: allowance).
THEOREM CreditHolds ==
    ASSUME Final = {"end"}
    PROVE  Spec => []WithinCredit
  <1>1. IInv => WithinCredit
    BY DEF IInv
  <1>. QED
    BY <1>1, InvariantHolds, PTL

\* A client that hears of no failure hears nothing behind an End, and can use the id
\* again at once: its Subscribe finds the id free (session.rs: Session::forget).
THEOREM FreeingHolds ==
    ASSUME Final = {"end"}
    PROVE  Spec => FinalFreesTheId
  <1>1. ASSUME IInv
        PROVE  FinalIsFinal
    <2>. SUFFICES ASSUME failures = 0, out # <<>>
                  PROVE  client[Head(out).id].phase = "open"
      BY DEF FinalIsFinal
    <2>1. Shaped /\ out \in Seq(Frames) /\ writing /\ Ended
      BY <1>1 DEF IInv, Shaped, Bounded
    <2>2. PICK f : f = Head(out)
      OBVIOUS
    <2>3. f \in FrameOf(Ids) /\ 1 \in DOMAIN out /\ out[1] = f
      BY <2>1, <2>2, Left DEF Frames
    <2>4. f.id \in Ids
      BY <2>3, FrameFields
    <2>5. client[f.id].phase # "free"
      BY <2>1, <2>3, <2>4 DEF Ended, Ending
    <2>. QED
      BY <2>1, <2>2, <2>4, <2>5, ClientFields
  <1>2. ASSUME IInv, NEW id \in Ids, requests # <<>>, Head(requests).kind = "subscribe",
               Head(requests).id = id
        PROVE  table[id] = None
    <2>1. Shaped /\ Registered /\ Living /\ requests \in Seq(Requests)
          /\ table \in [Ids -> Tasks \cup {None}]
      BY <1>2 DEF IInv, Shaped
    <2>2. 1 \in DOMAIN requests /\ requests[1] = Head(requests)
      BY <1>2, <2>1, Left
    <2>3. Unserved(id)
      BY <1>2, <2>1, <2>2 DEF Living, Waiting
    <2>. QED
      BY <2>1, <2>3 DEF Registered, Unserved
  <1>. DEFINE Reusable ==
            \A id \in Ids :
                requests # <<>> /\ Head(requests).kind = "subscribe" /\ Head(requests).id = id
                   /\ Len(requests') < Len(requests) /\ reading'
                => table[id] = None
  <1>3. IInv => [Reusable]_vars
    BY <1>2
  <1>. QED
    BY <1>1, <1>3, InvariantHolds, PTL DEF FinalFreesTheId, IdsAreReusable
=============================================================================
