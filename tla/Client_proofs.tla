--------------------------- MODULE Client_proofs ----------------------------
(***************************************************************************)
(* Exchanges match and credit is conserved: for any callers and consumers, *)
(* any number of resends, any depth of the queues, any window, and any     *)
(* number of connections that are lost and dialled again.                  *)
(***************************************************************************)
EXTENDS Client, SequenceTheorems, FiniteSetTheorems, TLAPS

-----------------------------------------------------------------------------
(* The invariant. *)

Exchanges == Attempts \cup Streams
Opening == {"Call", "Stream"}

\* A call carries the id of an attempt, a request of a stream the stream's.  A Forget is
\* for the connection only: it is never sent.
Message == {m \in Messages : m.kind # "Forget" => (m.kind = "Call" <=> m.id \in Attempts)}
Request == {m \in Message : m.kind # "Forget"}
Answer == {f \in Frames : f.kind \in Outcomes <=> f.id \in Attempts}

Wire == [state : {"unused", "running", "gone"}, alive : BOOLEAN, cmds : Seq(Message),
         waiters : SUBSET Exchanges, pending : Seq(Request), sent : Seq(Request),
         inbound : Seq(Answer), lost : SUBSET Exchanges]
CallState == [phase : {"acquiring", "sending", "waiting", "done"}, left : 0 .. Retries,
            tries : 0 .. Retries + 1, at : {None} \cup Conns,
            reply : Outcomes \cup {"none", "Disconnected"},
            result : Outcomes \cup Transient \cup {"none", "Closed"}]
Consumer == [phase : {"idle", "open", "ended", "dropped"}, at : {None} \cup Conns,
             sink : Seq(Answer), drained : 0 .. Window, pending : 0 .. Window,
             overrun : BOOLEAN, lost : BOOLEAN]
Account == [phase : {"none", "live", "ended"}, credit : 0 .. Window, left : 0 .. Records]

Typed ==
    /\ slot \in [Slots -> [phase : {"down", "serving"}, published : {None} \cup Conns]]
    /\ conn \in [Conns -> Wire]
    /\ call \in [Calls -> CallState]
    /\ sub \in [Streams -> Consumer]
    /\ server \in [Streams -> Account]
    /\ executed \subseteq Attempts /\ closed \in BOOLEAN

Limits ==
    /\ \A c \in Conns : /\ Len(conn[c].cmds) <= Queue /\ Len(conn[c].pending) <= Queue
                        /\ Len(conn[c].sent) <= Queue /\ Len(conn[c].inbound) <= Queue
    /\ \A x \in Streams : Len(sub[x].sink) <= Window
    /\ \A k \in Calls : call[k].tries + call[k].left <=
                          IF call[k].phase = "acquiring" THEN Retries ELSE Retries + 1

\* Connections are used one after the other and only then hold anything; whoever has
\* business with one knows which.
Placed ==
    /\ \E n \in 0 .. MaxDials : Dialled = 1 .. n
    /\ \A c \in Conns :
          /\ conn[c].alive => Running(c)
          /\ ~Running(c) => /\ conn[c].cmds = << >> /\ conn[c].pending = << >>
                            /\ conn[c].inbound = << >> /\ conn[c].waiters = {}
          /\ conn[c].state = "unused" => conn[c].sent = << >>
    /\ \A s \in Slots : slot[s].phase = "serving" => slot[s].published # None
    /\ \A k \in Calls : call[k].phase \in {"sending", "waiting"} =>
          call[k].at # None /\ call[k].tries # 0
    /\ \A x \in Streams :
          /\ sub[x].phase = "idle" =>
                /\ server[x].phase = "none" /\ sub[x].sink = << >>
                /\ sub[x].drained = 0 /\ sub[x].pending = 0 /\ sub[x].at = None
          /\ sub[x].phase # "idle" =>
                sub[x].at # None /\ conn[sub[x].at].state # "unused"

\* The exchanges a queue opens, and what a connection knows of.
Opens(M) == {m.id : m \in {n \in M : n.kind \in Opening}}
Asks(q) == Opens(ToSet(q))
Ids(M) == {m.id : m \in M}
Asked(c) == Opens(OnItsWay(c))
Arriving(c) == ToSet(conn[c].inbound)
Held(c) == Asked(c) \cup Ids(Arriving(c)) \cup conn[c].waiters
Named(c) == Ids(OnItsWay(c)) \cup Ids(Arriving(c)) \cup conn[c].waiters
Owed(c) == conn[c].waiters \cup Asks(conn[c].cmds)

\* An exchange is opened once in a queue, in one queue of a connection, at one connection.
Once(q) == \A i, j \in 1 .. Len(q) :
              q[i].kind \in Opening /\ q[j].kind \in Opening /\ q[i].id = q[j].id => i = j
Single(w) ==
    /\ Once(w.sent) /\ Once(w.pending) /\ Once(w.cmds)
    /\ Asks(w.sent) \cap Asks(w.pending) = {} /\ Asks(w.sent) \cap Asks(w.cmds) = {}
    /\ Asks(w.pending) \cap Asks(w.cmds) = {}
Apart ==
    /\ \A c \in Conns : Single(conn[c])
    /\ \A c, d \in Conns : c # d => Asked(c) \cap Asked(d) = {}

\* A stream is known to its connection only, and so is the attempt a caller waits for.
StreamHomes == \A c \in Conns : \A x \in Streams : x \in Named(c) => sub[x].at = c
CallHomes == \A c \in Conns : \A k \in Calls :
                 call[k].phase = "waiting" /\ Id(k) \in Held(c) => call[k].at = c
Homes == StreamHomes /\ CallHomes

\* No attempt is known before it is sent.
Known(id) == id \in executed \/ \E c \in Conns : id \in Held(c)
Spent ==
    \A k \in Calls : \A t \in 1 .. Retries + 1 :
        Known(<<k, t>>) => /\ t <= call[k].tries
                           /\ call[k].phase = "sending" => t < call[k].tries

\* What was answered, or carried out, is not on its way any more; a frame is true.
Exchanged ==
    /\ \A c, d \in Conns : Ids(Arriving(c)) \cap Asked(d) \subseteq Streams
    /\ \A c \in Conns : executed \cap Asked(c) = {}
    /\ \A c \in Conns : \A f \in Arriving(c) :
          /\ f.kind = "Ack" => f.id \in executed
          /\ f.kind \in {"Refused", "Fatal"} => f.id \notin executed

\* A caller that has been told waits nowhere, and a refusal is final.
Told(k) == IF call[k].phase = "done" THEN call[k].result ELSE call[k].reply
Truthful(k) ==
    /\ Told(k) = "Ack" => Id(k) \in executed
    /\ Told(k) \in {"Refused", "Fatal"} =>
          Id(k) \in Attempts \ executed /\ \A c \in Conns : Id(k) \notin Asked(c)
    /\ call[k].phase # "waiting" => call[k].reply = "none"
    /\ call[k].phase = "waiting" /\ call[k].reply # "none" =>
          \A c \in Conns : Id(k) \notin Owed(c)
Answering == \A k \in Calls : Truthful(k)

\* Who is waited for is wanted, or a Forget is behind it in the queue.
ForgetsBehind(q, i, id) == \E j \in 1 .. Len(q) : j > i /\ q[j].kind = "Forget" /\ q[j].id = id
Excused(c, i, id) == Wanted(id) \/ id \in conn[c].lost \/ ForgetsBehind(conn[c].cmds, i, id)
Tended(c) ==
    Running(c) => \A id \in Exchanges :
        /\ id \in conn[c].waiters => Excused(c, 0, id)
        /\ \A i \in 1 .. Len(conn[c].cmds) :
              conn[c].cmds[i].kind \in Opening /\ conn[c].cmds[i].id = id => Excused(c, i, id)
Waiting == \A c \in Conns : Tended(c)

\* The server has no stream before its Subscribe is read, and the client gets none of it.
Through(x) == server[x].phase = "ended" \/ sub[x].phase = "dropped"
Served(x) ==
    /\ server[x].phase # "live" => server[x].credit = 0
    /\ server[x].phase = "none" =>
          sub[x].drained = 0 /\ sub[x].pending = 0 /\ sub[x].sink = << >>
    /\ \A f \in ToSet(sub[x].sink) : f.id = x /\ (f.kind \in Final => Through(x))
Asking(c, x) ==
    x \in Asked(c) =>
        /\ server[x].phase # "live"
        /\ conn[c].alive /\ sub[x].phase # "dropped" => server[x].phase = "none"
Coming(c, x) ==
    \A f \in Arriving(c) : f.id = x =>
        server[x].phase # "none" /\ (f.kind \in Final => Through(x))
Going(c, x) ==
    \A m \in OnItsWay(c) : m.id = x =>
        /\ m.kind = "Credit" => server[x].phase # "none"
        /\ m.kind \in {"Cancel", "Forget"} => sub[x].phase = "dropped"
Flows(x) == Served(x) /\ \A c \in Conns : Asking(c, x) /\ Coming(c, x) /\ Going(c, x)
Streaming == \A x \in Streams : Flows(x)

\* While a stream is up at both ends its connection waits for it, or is about to.
Up(x) == /\ sub[x].phase = "open" /\ ~sub[x].overrun /\ conn[sub[x].at].alive
         /\ server[x].phase # "ended"
Heard(x) == Up(x) => x \in Owed(sub[x].at)
Listening == \A x \in Streams : Heard(x)

\* The credit of a stream, wherever it is.
Granting(q, x) == SumOf({"Stream", "Credit"}, q, x)
Carrying(q, x) == SumOf({"Records"}, q, x)
OnWire(w, x) == Granting(w.cmds, x) + Granting(w.pending, x) + Granting(w.sent, x)
                  + Carrying(w.inbound, x)
InHand(s, x) == Carrying(s.sink, x) + s.drained + s.pending
Total(x) == server[x].credit + OnWire(conn[sub[x].at], x) + InHand(sub[x], x)
Balanced(x) == sub[x].phase # "idle" => Total(x) <= Window /\ (Up(x) => Total(x) = Window)
Conserved == \A x \in Streams : Balanced(x)

IInv == /\ Typed /\ Limits /\ Placed /\ Apart /\ Homes /\ Spent /\ Exchanged /\ Answering
        /\ Waiting /\ Streaming /\ Listening /\ Conserved

-----------------------------------------------------------------------------
(* Queues. *)

LEMMA AppendShape ==
    ASSUME NEW S, NEW q \in Seq(S), NEW m
    PROVE  /\ Len(q) \in Nat /\ Len(Append(q, m)) = Len(q) + 1
           /\ \A i \in 1 .. Len(q) : Append(q, m)[i] = q[i]
           /\ Append(q, m)[Len(q) + 1] = m
OBVIOUS

LEMMA TailShape ==
    ASSUME NEW S, NEW q \in Seq(S), q # << >>
    PROVE  /\ Tail(q) \in Seq(S) /\ Head(q) = q[1] /\ q[1] \in S /\ Head(q) \in S
           /\ Len(q) \in Nat \ {0} /\ Len(Tail(q)) = Len(q) - 1
           /\ \A i \in 1 .. Len(Tail(q)) : Tail(q)[i] = q[i + 1] /\ i + 1 \in 1 .. Len(q)
OBVIOUS

LEMMA OneMore == \A n \in Nat : \A i \in 1 .. n + 1 : i \in 1 .. n \/ i = n + 1
OBVIOUS

LEMMA ElementOf ==
    ASSUME NEW S, NEW q \in Seq(S)
    PROVE  /\ ToSet(q) \subseteq S
           /\ \A m : m \in ToSet(q) <=> \E i \in 1 .. Len(q) : q[i] = m
  <1>1. DOMAIN q = 1 .. Len(q) /\ \A i \in 1 .. Len(q) : q[i] \in S
    OBVIOUS
  <1>. QED
    BY <1>1 DEF ToSet

LEMMA NothingIn == ToSet(<< >>) = {} /\ Asks(<< >>) = {} /\ Once(<< >>)
  <1>1. Len(<< >>) = 0 /\ DOMAIN << >> = {}
    OBVIOUS
  <1>. QED
    BY <1>1 DEF ToSet, Asks, Opens, Once

LEMMA SetAppend ==
    ASSUME NEW S, NEW q \in Seq(S), NEW m
    PROVE  ToSet(Append(q, m)) = ToSet(q) \cup {m}
  <1>1. /\ Append(q, m) \in Seq(S \cup {m}) /\ q \in Seq(S \cup {m})
        /\ Len(q) \in Nat /\ Len(q) + 1 \in 1 .. Len(q) + 1
    OBVIOUS
  <1>2. \A e : e \in ToSet(Append(q, m)) <=> \E i \in 1 .. Len(q) + 1 : Append(q, m)[i] = e
    <2>1. \A e : e \in ToSet(Append(q, m)) <=>
                    \E i \in 1 .. Len(Append(q, m)) : Append(q, m)[i] = e
      BY <1>1, ElementOf, Zenon
    <2>. QED
      BY <2>1, AppendShape
  <1>3. \A e : e \in ToSet(q) <=> \E i \in 1 .. Len(q) : q[i] = e
    BY ElementOf
  <1>4. \A i \in 1 .. Len(q) : i \in 1 .. Len(q) + 1
    BY <1>1
  <1>5. \A i \in 1 .. Len(q) + 1 : i \in 1 .. Len(q) \/ i = Len(q) + 1
    BY <1>1, OneMore
  <1>. HIDE DEF ToSet
  <1>. QED
    BY <1>1, <1>2, <1>3, <1>4, <1>5, AppendShape

LEMMA SetTail ==
    ASSUME NEW S, NEW q \in Seq(S), q # << >>
    PROVE  ToSet(q) = ToSet(Tail(q)) \cup {Head(q)}
  <1>1. \A e : e \in ToSet(q) <=> \E i \in 1 .. Len(q) : q[i] = e
    BY ElementOf
  <1>2. \A e : e \in ToSet(Tail(q)) <=> \E i \in 1 .. Len(Tail(q)) : Tail(q)[i] = e
    BY ElementOf, TailShape
  <1>3. ASSUME NEW i \in 1 .. Len(q), i # 1
        PROVE  i - 1 \in 1 .. Len(Tail(q)) /\ Tail(q)[i - 1] = q[i]
    <2>1. i - 1 \in 1 .. Len(Tail(q)) /\ (i - 1) + 1 = i
      BY <1>3, TailShape
    <2>. QED
      BY <2>1, TailShape
  <1>4. 1 \in 1 .. Len(q) /\ Head(q) = q[1]
    BY TailShape
  <1>5. \A i \in 1 .. Len(Tail(q)) : i + 1 \in 1 .. Len(q) /\ Tail(q)[i] = q[i + 1]
    BY TailShape
  <1>. QED
    BY <1>1, <1>2, <1>3, <1>4, <1>5

LEMMA SetPrefix ==
    ASSUME NEW S, NEW q \in Seq(S), NEW n \in 0 .. Len(q)
    PROVE  /\ SubSeq(q, 1, n) \in Seq(S) /\ Len(SubSeq(q, 1, n)) = n
           /\ ToSet(SubSeq(q, 1, n)) \subseteq ToSet(q)
  <1>1. /\ SubSeq(q, 1, n) \in Seq(S) /\ Len(SubSeq(q, 1, n)) = n
        /\ \A i \in 1 .. n : SubSeq(q, 1, n)[i] = q[i] /\ i \in 1 .. Len(q)
    BY SubSeqProperties
  <1>2. \A e : e \in ToSet(q) <=> \E i \in 1 .. Len(q) : q[i] = e
    BY ElementOf
  <1>3. \A e : e \in ToSet(SubSeq(q, 1, n)) <=> \E i \in 1 .. n : SubSeq(q, 1, n)[i] = e
    BY <1>1, ElementOf
  <1>. QED
    BY <1>1, <1>2, <1>3

LEMMA OpensIn == \A M, N : Opens(M \cup N) = Opens(M) \cup Opens(N)
  BY DEF Opens

LEMMA OpensThree == \A L, M, N : Opens(L \cup M \cup N) = Opens(L) \cup Opens(M) \cup Opens(N)
  BY DEF Opens

LEMMA OpensOne == \A m : Opens({m}) = IF m.kind \in Opening THEN {m.id} ELSE {}
  BY DEF Opens

LEMMA OpensOf ==
    ASSUME NEW M, NEW id
    PROVE  id \in Opens(M) <=> \E m \in M : m.kind \in Opening /\ m.id = id
  BY DEF Opens

\* What an appended message opens.
LEMMA AsksAppend ==
    ASSUME NEW S, NEW q \in Seq(S), NEW m
    PROVE  /\ Asks(Append(q, m)) = Asks(q) \cup Opens({m})
           /\ Once(q) /\ Opens({m}) \cap Asks(q) = {} => Once(Append(q, m))
  <1>1. Asks(Append(q, m)) = Asks(q) \cup Opens({m})
    BY SetAppend, OpensIn DEF Asks
  <1>2. ASSUME Once(q), Opens({m}) \cap Asks(q) = {} PROVE Once(Append(q, m))
    <2>. DEFINE r == Append(q, m)
    <2>1. /\ Len(r) = Len(q) + 1 /\ Len(q) \in Nat
          /\ \A i \in 1 .. Len(q) : r[i] = q[i]
          /\ r[Len(q) + 1] = m
      BY AppendShape
    <2>2. \A i \in 1 .. Len(r) : i \in 1 .. Len(q) \/ i = Len(q) + 1
      BY <2>1, OneMore
    <2>3. \A i \in 1 .. Len(q) : q[i].kind \in Opening => q[i].id \in Asks(q)
      BY ElementOf, OpensOf DEF Asks
    <2>4. m.kind \in Opening => m.id \in Opens({m})
      BY OpensOne
    <2>. HIDE DEF r
    <2>. SUFFICES Once(r)
      BY DEF r
    <2>. SUFFICES ASSUME NEW i \in 1 .. Len(r), NEW j \in 1 .. Len(r),
                         r[i].kind \in Opening, r[j].kind \in Opening, r[i].id = r[j].id
                  PROVE  i = j
      BY DEF Once
    <2>5. CASE i \in 1 .. Len(q) /\ j \in 1 .. Len(q)
      BY <1>2, <2>1, <2>5 DEF Once
    <2>6. CASE i \in 1 .. Len(q) /\ j = Len(q) + 1
      BY <1>2, <2>1, <2>3, <2>4, <2>6
    <2>7. CASE i = Len(q) + 1 /\ j \in 1 .. Len(q)
      BY <1>2, <2>1, <2>3, <2>4, <2>7
    <2>. QED
      BY <2>2, <2>5, <2>6, <2>7
  <1>. QED
    BY <1>1, <1>2

\* What is left when the first message goes.
LEMMA AsksTail ==
    ASSUME NEW S, NEW q \in Seq(S), q # << >>
    PROVE  /\ Asks(q) = Asks(Tail(q)) \cup Opens({Head(q)})
           /\ Once(q) => Once(Tail(q)) /\ Asks(Tail(q)) \cap Opens({Head(q)}) = {}
  <1>1. Asks(q) = Asks(Tail(q)) \cup Opens({Head(q)})
    BY SetTail, OpensIn DEF Asks
  <1>2. ASSUME Once(q) PROVE Once(Tail(q)) /\ Asks(Tail(q)) \cap Opens({Head(q)}) = {}
    <2>. DEFINE r == Tail(q)
    <2>1. /\ Len(q) \in Nat \ {0} /\ Len(r) = Len(q) - 1 /\ Head(q) = q[1] /\ r \in Seq(S)
          /\ \A i \in 1 .. Len(r) : r[i] = q[i + 1] /\ i + 1 \in 1 .. Len(q)
      BY TailShape
    <2>2. 1 \in 1 .. Len(q)
      BY <2>1
    <2>. HIDE DEF r
    <2>3. ASSUME NEW i \in 1 .. Len(r), NEW j \in 1 .. Len(r),
                 r[i].kind \in Opening, r[j].kind \in Opening, r[i].id = r[j].id
          PROVE  i = j
      <3>1. i + 1 = j + 1
        BY <1>2, <2>1, <2>3 DEF Once
      <3>. QED
        BY <2>1, <3>1
    <2>4. ASSUME NEW id, id \in Asks(r), id \in Opens({Head(q)}) PROVE FALSE
      <3>1. PICK i \in 1 .. Len(r) : r[i].kind \in Opening /\ r[i].id = id
        BY <2>1, <2>4, ElementOf, OpensOf DEF Asks
      <3>2. q[1].kind \in Opening /\ q[1].id = id
        BY <2>1, <2>4, OpensOf
      <3>3. i + 1 = 1
        BY <1>2, <2>1, <2>2, <3>1, <3>2 DEF Once
      <3>. QED
        BY <2>1, <3>3
    <2>. QED
      BY <2>3, <2>4 DEF Once, r
  <1>. QED
    BY <1>1, <1>2

Worth(S, m, x) == IF m.kind \in S /\ m.id = x THEN m.n ELSE 0
-----------------------------------------------------------------------------
(* Counting what a queue is worth to a stream. *)

LEMMA UnitsOf ==
    ASSUME NEW S, NEW q, NEW x
    PROVE  \A p : p \in Units(S, q, x) <=>
                \E i \in DOMAIN q : /\ q[i].kind \in S /\ q[i].id = x
                                    /\ p \in {i} \X (1 .. q[i].n)
  BY DEF Units

LEMMA RangeUnits ==
    ASSUME NEW i, NEW n \in Nat
    PROVE  IsFiniteSet({i} \X (1 .. n)) /\ Cardinality({i} \X (1 .. n)) = n
  <1>1. IsFiniteSet({i}) /\ Cardinality({i}) = 1
    BY FS_Singleton
  <1>2. IsFiniteSet(1 .. n) /\ Cardinality(1 .. n) = n
    BY FS_Interval
  <1>3. /\ IsFiniteSet({i} \X (1 .. n))
        /\ Cardinality({i} \X (1 .. n)) = Cardinality({i}) * Cardinality(1 .. n)
    BY <1>1, <1>2, FS_Product
  <1>. QED
    BY <1>1, <1>2, <1>3

\* Elements that carry a bounded number.
LEMMA SumType ==
    ASSUME NEW M, \A m \in M : m.n \in 0 .. Window, NEW q \in Seq(M), NEW S, NEW x,
           Window \in Nat
    PROVE  IsFiniteSet(Units(S, q, x)) /\ SumOf(S, q, x) \in Nat
  <1>1. IsFiniteSet((1 .. Len(q)) \X (1 .. Window))
    <2>1. IsFiniteSet(1 .. Len(q)) /\ IsFiniteSet(1 .. Window)
      BY FS_Interval
    <2>. QED
      BY <2>1, FS_Product
  <1>2. Units(S, q, x) \subseteq (1 .. Len(q)) \X (1 .. Window)
    <2>. SUFFICES ASSUME NEW p, p \in Units(S, q, x)
                  PROVE  p \in (1 .. Len(q)) \X (1 .. Window)
      OBVIOUS
    <2>1. PICK i \in DOMAIN q : p \in {i} \X (1 .. q[i].n)
      BY UnitsOf
    <2>2. i \in 1 .. Len(q) /\ q[i].n \in 0 .. Window
      OBVIOUS
    <2>. QED
      BY <2>1, <2>2
  <1>3. IsFiniteSet(Units(S, q, x))
    BY <1>1, <1>2, FS_Subset
  <1>. QED
    BY <1>3, FS_CardinalityType DEF SumOf

LEMMA SumNone ==
    ASSUME NEW S, NEW q, NEW x, \A i \in DOMAIN q : ~(q[i].kind \in S /\ q[i].id = x)
    PROVE  SumOf(S, q, x) = 0
  <1>1. Units(S, q, x) = {}
    BY UnitsOf
  <1>. QED
    BY <1>1, FS_EmptySet DEF SumOf

LEMMA SumEmpty == \A S, x : SumOf(S, << >>, x) = 0
  BY SumNone

LEMMA SumAppend ==
    ASSUME NEW M, \A m \in M : m.n \in 0 .. Window, NEW q \in Seq(M), NEW m \in M,
           NEW S, NEW x, Window \in Nat
    PROVE  SumOf(S, Append(q, m), x) = SumOf(S, q, x) + Worth(S, m, x)
  <1>. DEFINE r == Append(q, m)
              U == Units(S, q, x)
              last == {Len(q) + 1} \X (1 .. m.n)
  <1>1. /\ Len(q) \in Nat /\ DOMAIN q = 1 .. Len(q) /\ DOMAIN r = 1 .. (Len(q) + 1)
        /\ \A i \in DOMAIN q : r[i] = q[i] /\ i \in DOMAIN r
        /\ r[Len(q) + 1] = m
    OBVIOUS
  <1>2. \A i \in DOMAIN r : i \in DOMAIN q \/ i = Len(q) + 1
    BY <1>1
  <1>3. m.n \in Nat
    OBVIOUS
  <1>4. IsFiniteSet(U) /\ SumOf(S, q, x) = Cardinality(U) /\ Cardinality(U) \in Nat
    BY SumType DEF SumOf
  <1>. HIDE DEF r
  <1>5. CASE m.kind \in S /\ m.id = x
    <2>1. Units(S, r, x) = U \cup last
      <3>1. ASSUME NEW p, p \in Units(S, r, x) PROVE p \in U \cup last
        <4>1. PICK i \in DOMAIN r : r[i].kind \in S /\ r[i].id = x /\ p \in {i} \X (1 .. r[i].n)
          BY <3>1, UnitsOf
        <4>2. CASE i \in DOMAIN q
          BY <1>1, <4>1, <4>2, UnitsOf
        <4>3. CASE i = Len(q) + 1
          BY <1>1, <4>1, <4>3
        <4>. QED
          BY <1>2, <4>2, <4>3
      <3>2. ASSUME NEW p, p \in U PROVE p \in Units(S, r, x)
        <4>1. PICK i \in DOMAIN q : q[i].kind \in S /\ q[i].id = x /\ p \in {i} \X (1 .. q[i].n)
          BY <3>2, UnitsOf
        <4>. QED
          BY <1>1, <4>1, UnitsOf
      <3>3. ASSUME NEW p, p \in last PROVE p \in Units(S, r, x)
        <4>1. Len(q) + 1 \in DOMAIN r
          BY <1>1
        <4>. QED
          BY <1>1, <1>5, <3>3, <4>1, UnitsOf
      <3>. QED
        BY <3>1, <3>2, <3>3
    <2>2. U \cap last = {}
      <3>. SUFFICES ASSUME NEW p, p \in U, p \in last PROVE FALSE
        OBVIOUS
      <3>1. PICK i \in DOMAIN q : p \in {i} \X (1 .. q[i].n)
        BY UnitsOf
      <3>2. p[1] = i /\ p[1] = Len(q) + 1
        BY <3>1
      <3>. QED
        BY <1>1, <3>2
    <2>3. IsFiniteSet(last) /\ Cardinality(last) = m.n
      BY <1>3, RangeUnits
    <2>4. Cardinality(U \cap last) = 0
      BY <2>2, FS_EmptySet
    <2>5. Cardinality(U \cup last) = Cardinality(U) + Cardinality(last) - Cardinality(U \cap last)
      BY <1>4, <2>3, FS_Union
    <2>6. SumOf(S, r, x) = Cardinality(U) + m.n
      BY <1>3, <1>4, <2>1, <2>3, <2>4, <2>5 DEF SumOf
    <2>. QED
      BY <1>4, <1>5, <2>6 DEF Worth, r
  <1>6. CASE ~(m.kind \in S /\ m.id = x)
    <2>1. Units(S, r, x) = U
      <3>1. ASSUME NEW p, p \in Units(S, r, x) PROVE p \in U
        <4>1. PICK i \in DOMAIN r : r[i].kind \in S /\ r[i].id = x /\ p \in {i} \X (1 .. r[i].n)
          BY <3>1, UnitsOf
        <4>2. i \in DOMAIN q
          BY <1>1, <1>2, <1>6, <4>1
        <4>. QED
          BY <1>1, <4>1, <4>2, UnitsOf
      <3>2. ASSUME NEW p, p \in U PROVE p \in Units(S, r, x)
        <4>1. PICK i \in DOMAIN q : q[i].kind \in S /\ q[i].id = x /\ p \in {i} \X (1 .. q[i].n)
          BY <3>2, UnitsOf
        <4>. QED
          BY <1>1, <4>1, UnitsOf
      <3>. QED
        BY <3>1, <3>2
    <2>2. SumOf(S, r, x) = Cardinality(U)
      BY <2>1 DEF SumOf
    <2>. QED
      BY <1>4, <1>6, <2>2 DEF Worth, r
  <1>. QED
    BY <1>5, <1>6

LEMMA SumTail ==
    ASSUME NEW M, \A m \in M : m.n \in 0 .. Window, NEW q \in Seq(M), q # << >>,
           NEW S, NEW x, Window \in Nat
    PROVE  /\ SumOf(S, Tail(q), x) \in Nat
           /\ SumOf(S, q, x) = SumOf(S, Tail(q), x) + Worth(S, Head(q), x)
  <1>. DEFINE r == Tail(q)
              U == Units(S, q, x)
              R == Units(S, r, x)
              T == {p \in U : p[1] # 1}
              first == {1} \X (1 .. q[1].n)
              g == [p \in R |-> <<p[1] + 1, p[2]>>]
  <1>1. /\ Len(q) \in Nat \ {0} /\ DOMAIN q = 1 .. Len(q) /\ r \in Seq(M)
        /\ DOMAIN r = 1 .. (Len(q) - 1) /\ Head(q) = q[1] /\ q[1] \in M
        /\ \A i \in DOMAIN r : r[i] = q[i + 1] /\ i + 1 \in DOMAIN q
    OBVIOUS
  <1>2. \A i \in DOMAIN q : i # 1 => i - 1 \in DOMAIN r /\ r[i - 1] = q[i]
    BY <1>1
  <1>3. q[1].n \in Nat
    BY <1>1
  <1>. HIDE DEF r
  <1>4. IsFiniteSet(R) /\ SumOf(S, r, x) = Cardinality(R) /\ Cardinality(R) \in Nat
    BY <1>1, SumType DEF SumOf
  <1>5. ASSUME NEW p \in R
        PROVE  /\ p[1] \in Nat /\ p = <<p[1], p[2]>>
               /\ <<p[1] + 1, p[2]>> \in T
    <2>1. PICK i \in DOMAIN r : r[i].kind \in S /\ r[i].id = x /\ p \in {i} \X (1 .. r[i].n)
      BY UnitsOf
    <2>2. p[1] = i /\ p = <<p[1], p[2]>> /\ p[2] \in 1 .. r[i].n
      BY <2>1
    <2>3. i \in Nat /\ i >= 1 /\ i + 1 \in DOMAIN q /\ q[i + 1] = r[i]
      BY <1>1
    <2>4. <<i + 1, p[2]>> \in {i + 1} \X (1 .. q[i + 1].n)
      BY <2>2, <2>3
    <2>5. <<i + 1, p[2]>> \in U
      BY <2>1, <2>3, <2>4, UnitsOf
    <2>. QED
      BY <2>2, <2>3, <2>5
  <1>6. ASSUME NEW t \in T PROVE \E p \in R : t = <<p[1] + 1, p[2]>>
    <2>1. PICK i \in DOMAIN q : q[i].kind \in S /\ q[i].id = x /\ t \in {i} \X (1 .. q[i].n)
      BY UnitsOf
    <2>2. t[1] = i /\ t = <<i, t[2]>> /\ t[2] \in 1 .. q[i].n /\ i # 1
      BY <2>1
    <2>3. i \in Nat /\ i - 1 \in DOMAIN r /\ r[i - 1] = q[i] /\ (i - 1) + 1 = i
      BY <1>1, <1>2, <2>2
    <2>4. <<i - 1, t[2]>> \in {i - 1} \X (1 .. r[i - 1].n)
      BY <2>2, <2>3
    <2>5. <<i - 1, t[2]>> \in R
      BY <2>1, <2>3, <2>4, UnitsOf
    <2>. QED
      BY <2>2, <2>3, <2>5
  <1>7. g \in Bijection(R, T)
    <2>1. g \in [R -> T]
      BY <1>5
    <2>2. ASSUME NEW a \in R, NEW b \in R, g[a] = g[b] PROVE a = b
      <3>1. a[1] + 1 = b[1] + 1 /\ a[2] = b[2]
        BY <2>2
      <3>. HIDE DEF R, T, g
      <3>2. a[1] \in Nat /\ b[1] \in Nat
        BY <1>5, Zenon
      <3>3. a[1] = b[1]
        BY <3>1, <3>2
      <3>4. a = <<a[1], a[2]>> /\ b = <<b[1], b[2]>>
        BY <1>5, Zenon
      <3>. QED
        BY <3>1, <3>3, <3>4
    <2>3. \A t \in T : \E p \in R : g[p] = t
      BY <1>6
    <2>. HIDE DEF g, R, T
    <2>. QED
      BY <2>1, <2>2, <2>3 DEF Bijection, Injection, Surjection, IsInjective
  <1>8. IsFiniteSet(T) /\ Cardinality(T) = Cardinality(R)
    <2>. HIDE DEF g, R, T
    <2>. QED
      BY <1>4, <1>7, FS_Bijection DEF ExistsBijection
  <1>9. ASSUME NEW p \in U, p \notin T PROVE p \in first /\ q[1].kind \in S /\ q[1].id = x
    <2>1. PICK i \in DOMAIN q : q[i].kind \in S /\ q[i].id = x /\ p \in {i} \X (1 .. q[i].n)
      BY UnitsOf
    <2>2. p[1] = i
      BY <2>1
    <2>. QED
      BY <1>9, <2>1, <2>2
  <1>10. CASE Head(q).kind \in S /\ Head(q).id = x
    <2>1. first \subseteq U
      <3>1. 1 \in DOMAIN q
        BY <1>1
      <3>. QED
        BY <1>1, <1>10, <3>1, UnitsOf
    <2>2. U = T \cup first /\ T \cap first = {}
      <3>1. \A p \in first : p[1] = 1
        OBVIOUS
      <3>. QED
        BY <1>9, <2>1, <3>1
    <2>3. IsFiniteSet(first) /\ Cardinality(first) = q[1].n
      BY <1>3, RangeUnits
    <2>. HIDE DEF U, T, R, first
    <2>4. Cardinality(T \cap first) = 0
      BY <2>2, FS_EmptySet
    <2>5. Cardinality(U) = Cardinality(T) + Cardinality(first) - Cardinality(T \cap first)
      BY <1>8, <2>2, <2>3, FS_Union
    <2>6. Worth(S, Head(q), x) = q[1].n
      BY <1>1, <1>10 DEF Worth
    <2>7. SumOf(S, q, x) = Cardinality(U)
      BY DEF SumOf, U
    <2>. QED
      BY <1>3, <1>4, <1>8, <2>3, <2>4, <2>5, <2>6, <2>7 DEF r
  <1>11. CASE ~(Head(q).kind \in S /\ Head(q).id = x)
    <2>1. U = T
      BY <1>1, <1>9, <1>11
    <2>2. SumOf(S, q, x) = Cardinality(U) /\ Worth(S, Head(q), x) = 0
      BY <1>11 DEF SumOf, Worth
    <2>. HIDE DEF U, T, R
    <2>. QED
      BY <1>4, <1>8, <2>1, <2>2 DEF r
  <1>. QED
    BY <1>10, <1>11

LEMMA SumPrefix ==
    ASSUME NEW M, \A m \in M : m.n \in 0 .. Window, NEW q \in Seq(M), NEW n \in 0 .. Len(q),
           NEW S, NEW x, Window \in Nat
    PROVE  /\ SumOf(S, SubSeq(q, 1, n), x) \in Nat
           /\ SumOf(S, SubSeq(q, 1, n), x) <= SumOf(S, q, x)
  <1>. DEFINE r == SubSeq(q, 1, n)
  <1>1. /\ r \in Seq(M) /\ DOMAIN r = 1 .. n
        /\ \A i \in 1 .. n : r[i] = q[i] /\ i \in DOMAIN q
    BY SubSeqProperties
  <1>. HIDE DEF r
  <1>2. Units(S, r, x) \subseteq Units(S, q, x)
    <2>. SUFFICES ASSUME NEW p, p \in Units(S, r, x) PROVE p \in Units(S, q, x)
      OBVIOUS
    <2>1. PICK i \in DOMAIN r : r[i].kind \in S /\ r[i].id = x /\ p \in {i} \X (1 .. r[i].n)
      BY UnitsOf
    <2>. QED
      BY <1>1, <2>1, UnitsOf
  <1>3. IsFiniteSet(Units(S, q, x))
    BY SumType
  <1>4. Cardinality(Units(S, r, x)) <= Cardinality(Units(S, q, x))
    BY <1>2, <1>3, FS_Subset
  <1>. QED
    BY <1>1, <1>4, SumType DEF SumOf, r
-----------------------------------------------------------------------------
(* What the types say. *)

LEMMA Limit == Queue \in Nat \ {0} /\ Window \in Nat \ {0} /\ MaxDials \in Nat \ {0}
               /\ Retries \in Nat /\ Records \in Nat /\ Attempts \cap Streams = {}
  BY ClientAssumption

LEMMA Worths ==
    /\ \A m \in Message : m.n \in 0 .. Window /\ m.id \in Exchanges /\ m.kind \notin {"Records"}
    /\ \A f \in Answer : f.n \in 0 .. Window /\ f.id \in Exchanges
                         /\ f.kind \notin {"Stream", "Credit"}
  BY DEF Message, Answer, Messages, Frames, Exchanges, Outcomes, Final

LEMMA RequestsAre == \A q \in Seq(Request) : q \in Seq(Message)
  <1>1. Request \subseteq Message
    BY DEF Request
  <1>. QED
    BY <1>1

LEMMA WireType ==
    ASSUME Typed, NEW c \in Conns
    PROVE  /\ conn[c] \in Wire /\ conn[c].state \in {"unused", "running", "gone"}
           /\ conn[c].alive \in BOOLEAN
           /\ conn[c].cmds \in Seq(Message) /\ conn[c].pending \in Seq(Message)
           /\ conn[c].sent \in Seq(Message) /\ conn[c].inbound \in Seq(Answer)
           /\ conn[c].pending \in Seq(Request) /\ conn[c].sent \in Seq(Request)
           /\ conn[c].waiters \subseteq Exchanges /\ conn[c].lost \subseteq Exchanges
           /\ OnItsWay(c) \subseteq Message /\ Arriving(c) \subseteq Answer
  <1>1. conn[c] \in Wire
    BY DEF Typed
  <1>2. /\ conn[c].cmds \in Seq(Message) /\ conn[c].pending \in Seq(Request)
        /\ conn[c].sent \in Seq(Request) /\ conn[c].inbound \in Seq(Answer)
    BY <1>1 DEF Wire
  <1>4. conn[c].pending \in Seq(Message) /\ conn[c].sent \in Seq(Message)
    BY <1>2, RequestsAre
  <1>3. OnItsWay(c) \subseteq Message /\ Arriving(c) \subseteq Answer
    BY <1>2, <1>4, ElementOf DEF OnItsWay, Arriving
  <1>. QED
    BY <1>1, <1>2, <1>3, <1>4 DEF Wire

\* What a connection knows of, by its queues.
LEMMA AskedOf ==
    ASSUME NEW c
    PROVE  /\ Asked(c) = Asks(conn[c].cmds) \cup Asks(conn[c].pending) \cup Asks(conn[c].sent)
           /\ Asked(c) \subseteq Ids(OnItsWay(c)) /\ Held(c) \subseteq Named(c)
           /\ ToSet(conn[c].cmds) \subseteq OnItsWay(c) /\ ToSet(conn[c].sent) \subseteq OnItsWay(c)
           /\ ToSet(conn[c].pending) \subseteq OnItsWay(c)
  <1>1. Asked(c) = Asks(conn[c].cmds) \cup Asks(conn[c].pending) \cup Asks(conn[c].sent)
    BY OpensThree DEF Asked, Asks, OnItsWay
  <1>2. Asked(c) \subseteq Ids(OnItsWay(c))
    BY DEF Asked, Opens, Ids
  <1>. QED
    BY <1>1, <1>2 DEF Held, Named, OnItsWay

\* The steps that leave every connection alone.
Elsewhere(c) == \A d \in Conns : d # c => conn'[d] = conn[d]

-----------------------------------------------------------------------------
(* What each step does to its connection. *)

LEMMA FreshWire ==
    \A state \in {"unused", "running", "gone"}, alive \in BOOLEAN, q \in Seq(Request) :
        Connection(state, alive, q) \in Wire
  <1>1. << >> \in Seq(Message) /\ << >> \in Seq(Answer) /\ << >> \in Seq(Request)
    OBVIOUS
  <1>. QED
    BY <1>1 DEF Connection, Wire

\* The next connection to be dialled was never used.
LEMMA NextDial ==
    ASSUME Placed, Cardinality(Dialled) < MaxDials
    PROVE  LET c == Cardinality(Dialled) + 1 IN
           /\ c \in Conns /\ conn[c].state = "unused" /\ c # None
           /\ Dialled = 1 .. (c - 1)
  <1>1. PICK n \in 0 .. MaxDials : Dialled = 1 .. n
    BY DEF Placed
  <1>2. Cardinality(Dialled) = n
    BY <1>1, FS_Interval
  <1>3. n + 1 \in Conns /\ n + 1 \notin 1 .. n /\ (n + 1) - 1 = n /\ n + 1 # 0
    BY <1>2, Limit DEF Conns
  <1>. QED
    BY <1>1, <1>2, <1>3 DEF Dialled, None

LEMMA DialEffect ==
    ASSUME Typed, Placed, NEW s \in Slots, Dial(s)
    PROVE  /\ Typed'
           /\ \E c \in Conns :
              /\ conn[c].state = "unused" /\ Dialled = 1 .. (c - 1)
              /\ conn'[c] = Connection("running", TRUE, << >>) /\ Elsewhere(c)
              /\ slot' = [slot EXCEPT ![s] = [phase |-> "serving", published |-> c]]
  <1>. DEFINE c == Cardinality(Dialled) + 1
  <1>1. /\ c \in Conns /\ conn[c].state = "unused" /\ c # None /\ Dialled = 1 .. (c - 1)
    BY NextDial DEF Dial
  <1>2. /\ conn' = [conn EXCEPT ![c] = Connection("running", TRUE, << >>)]
        /\ slot' = [slot EXCEPT ![s] = [phase |-> "serving", published |-> c]]
        /\ UNCHANGED <<call, sub, server, executed, closed>>
    BY DEF Dial
  <1>. HIDE DEF c
  <1>3. Connection("running", TRUE, << >>) \in Wire
    <2>1. << >> \in Seq(Request)
      OBVIOUS
    <2>. QED
      BY <2>1, FreshWire
  <1>4. conn'[c] = Connection("running", TRUE, << >>) /\ Elsewhere(c) /\ conn' \in [Conns -> Wire]
    BY <1>1, <1>2, <1>3 DEF Typed, Elsewhere
  <1>5. slot' \in [Slots -> [phase : {"down", "serving"}, published : {None} \cup Conns]]
    BY <1>1, <1>2 DEF Typed
  <1>. QED
    BY <1>1, <1>2, <1>4, <1>5 DEF Typed

LEMMA WriteEffect ==
    ASSUME Typed, NEW c \in Conns, Write(c)
    PROVE  /\ Typed' /\ Elsewhere(c)
           /\ conn'[c] = [conn[c] EXCEPT !.pending = Tail(@),
                                         !.sent = Append(@, Head(conn[c].pending))]
           /\ conn[c].pending # << >>
  <1>1. conn[c].pending \in Seq(Request) /\ conn[c].sent \in Seq(Request) /\ conn[c].pending # << >>
    BY WireType DEF Write
  <1>2. Tail(conn[c].pending) \in Seq(Request) /\ Append(conn[c].sent, Head(conn[c].pending)) \in Seq(Request)
    BY <1>1
  <1>3. conn' = [conn EXCEPT ![c].pending = Tail(@),
                            ![c].sent = Append(@, Head(conn[c].pending))]
    BY DEF Write
  <1>4. [conn[c] EXCEPT !.pending = Tail(@), !.sent = Append(@, Head(conn[c].pending))] \in Wire
    BY <1>2, WireType DEF Wire
  <1>5. /\ conn'[c] = [conn[c] EXCEPT !.pending = Tail(@),
                                      !.sent = Append(@, Head(conn[c].pending))]
        /\ Elsewhere(c)
    BY <1>3 DEF Typed, Elsewhere
  <1>6. conn' \in [Conns -> Wire]
    BY <1>3, <1>4, <1>5 DEF Typed, Elsewhere
  <1>. QED
    BY <1>1, <1>5, <1>6 DEF Typed, Write

\* The commands a task takes are of exchanges it then waits for, or forgets.
Taken(w, m) == IF m.kind \in Opening THEN w \cup {m.id}
               ELSE IF m.kind = "Forget" THEN w \ {m.id} ELSE w
Backlog(q, m) == IF m.kind = "Forget" THEN q ELSE Append(q, m)

LEMMA AcceptEffect ==
    ASSUME Typed, NEW c \in Conns, Accept(c)
    PROVE  /\ Typed' /\ Elsewhere(c) /\ conn[c].cmds # << >> /\ Running(c)
           /\ Head(conn[c].cmds) \in Message
           /\ conn'[c] = [conn[c] EXCEPT !.cmds = Tail(@),
                                         !.waiters = Taken(@, Head(conn[c].cmds)),
                                         !.pending = Backlog(@, Head(conn[c].cmds))]
  <1>. DEFINE m == Head(conn[c].cmds)
              w == [conn[c] EXCEPT !.cmds = Tail(@), !.waiters = Taken(@, m),
                                   !.pending = Backlog(@, m)]
  <1>1. conn[c].cmds \in Seq(Message) /\ conn[c].cmds # << >> /\ Running(c)
    BY WireType DEF Accept
  <1>2. m \in Message /\ Tail(conn[c].cmds) \in Seq(Message)
    BY <1>1
  <1>3. Taken(conn[c].waiters, m) \subseteq Exchanges
    BY <1>2, Worths, WireType DEF Taken
  <1>4. Backlog(conn[c].pending, m) \in Seq(Request)
    BY <1>2, WireType DEF Backlog, Request
  <1>5. conn' = [conn EXCEPT ![c].cmds = Tail(@), ![c].waiters = Taken(@, m),
                             ![c].pending = Backlog(@, m)]
    BY DEF Accept, Taken, Backlog, Opening
  <1>. HIDE DEF m
  <1>6. w \in Wire
    BY <1>2, <1>3, <1>4, WireType DEF Wire
  <1>7. conn'[c] = w /\ Elsewhere(c)
    BY <1>5 DEF Typed, Elsewhere
  <1>8. conn' \in [Conns -> Wire]
    BY <1>5, <1>6, <1>7 DEF Typed, Elsewhere
  <1>. QED
    BY <1>1, <1>2, <1>7, <1>8 DEF Typed, Accept, m

LEMMA ReplyType ==
    \A r \in CallState, o \in Outcomes \cup {"none", "Disconnected"} :
        [r EXCEPT !.reply = o] \in CallState
  BY DEF CallState

\* A frame for a call takes the waiter with it and tells the caller if it still waits.
LEMMA DeliverCallEffect ==
    ASSUME Typed, NEW c \in Conns, Running(c), conn[c].inbound # << >>,
           Head(conn[c].inbound) \in Answer, IsCall(Head(conn[c].inbound).id),
           DeliverCall(c, Head(conn[c].inbound)),
           UNCHANGED <<slot, server, executed, closed>>
    PROVE  /\ Typed' /\ Elsewhere(c)
           /\ conn'[c] = [conn[c] EXCEPT !.inbound = Tail(@),
                                         !.waiters = @ \ {Head(conn[c].inbound).id}]
           /\ Head(conn[c].inbound).id \in Attempts /\ Head(conn[c].inbound).kind \in Outcomes
           /\ \A k \in Calls :
                 call'[k] = IF /\ call[k].phase = "waiting" /\ Id(k) = Head(conn[c].inbound).id
                               /\ Head(conn[c].inbound).id \in conn[c].waiters
                            THEN [call[k] EXCEPT !.reply = Head(conn[c].inbound).kind]
                            ELSE call[k]
  <1>. DEFINE f == Head(conn[c].inbound)
              w == [conn[c] EXCEPT !.inbound = Tail(@), !.waiters = @ \ {f.id}]
  <1>1. f \in Answer /\ conn[c].inbound \in Seq(Answer) /\ Tail(conn[c].inbound) \in Seq(Answer)
    BY WireType
  <1>2. f.id \in Attempts /\ f.kind \in Outcomes
    BY <1>1, Worths DEF IsCall, Exchanges, Answer
  <1>3. /\ conn' = [conn EXCEPT ![c].inbound = Tail(@), ![c].waiters = @ \ {f.id}]
        /\ call' = IF f.id \in conn[c].waiters THEN Answered(f.id, f.kind) ELSE call
        /\ UNCHANGED sub
    BY DEF DeliverCall
  <1>. HIDE DEF f
  <1>4. w \in Wire
    BY <1>1, WireType DEF Wire
  <1>5. conn'[c] = w /\ Elsewhere(c)
    BY <1>3 DEF Typed, Elsewhere
  <1>6. conn' \in [Conns -> Wire]
    BY <1>3, <1>4, <1>5 DEF Typed, Elsewhere
  <1>7. CallerOf(f.id) \in Calls
    BY <1>2 DEF CallerOf, Attempts
  <1>8. call' \in [Calls -> CallState]
    <2>1. call[CallerOf(f.id)] \in CallState /\ f.kind \in Outcomes \cup {"none", "Disconnected"}
      BY <1>2, <1>7 DEF Typed
    <2>2. [call[CallerOf(f.id)] EXCEPT !.reply = f.kind] \in CallState
      BY <2>1, ReplyType
    <2>3. Answered(f.id, f.kind) =
            [call EXCEPT ![CallerOf(f.id)] =
               IF Awaits(CallerOf(f.id), f.id)
               THEN [call[CallerOf(f.id)] EXCEPT !.reply = f.kind] ELSE call[CallerOf(f.id)]]
      BY <1>7, <2>1 DEF Answered, Typed, CallState
    <2>. QED
      BY <1>3, <1>7, <2>1, <2>2, <2>3 DEF Typed
  <1>9. ASSUME NEW k \in Calls
        PROVE  call'[k] = IF call[k].phase = "waiting" /\ Id(k) = f.id /\ f.id \in conn[c].waiters
                          THEN [call[k] EXCEPT !.reply = f.kind] ELSE call[k]
    <2>1. Id(k) = f.id => CallerOf(f.id) = k
      BY DEF Id, CallerOf
    <2>2. CASE f.id \in conn[c].waiters /\ k = CallerOf(f.id)
      BY <1>3, <1>7, <2>2 DEF Answered, Awaits, Typed, CallState
    <2>3. CASE f.id \notin conn[c].waiters \/ k # CallerOf(f.id)
      BY <1>3, <1>7, <2>1, <2>3 DEF Answered, Typed
    <2>. QED
      BY <2>2, <2>3
  <1>. QED
    BY <1>1, <1>2, <1>3, <1>5, <1>6, <1>8, <1>9 DEF Typed, f

\* A frame for a stream goes into its sink or loses it.
Sunk(c, x, f) ==
    IF x \notin conn[c].waiters THEN sub[x]
    ELSE IF SinkTakes(x) THEN [sub[x] EXCEPT !.sink = Append(@, f)]
    ELSE [sub[x] EXCEPT !.overrun = @ \/ sub[x].phase = "open"]
StillHeard(c, x, f) ==
    IF f.kind \in Final \/ ~SinkTakes(x) THEN conn[c].waiters \ {x} ELSE conn[c].waiters

LEMMA DeliverStreamEffect ==
    ASSUME Typed, NEW c \in Conns, Running(c), conn[c].inbound # << >>,
           Head(conn[c].inbound) \in Answer, ~IsCall(Head(conn[c].inbound).id),
           DeliverStream(c, Head(conn[c].inbound)),
           UNCHANGED <<slot, server, executed, closed>>
    PROVE  LET f == Head(conn[c].inbound)
               x == f.id
           IN  /\ Typed' /\ Elsewhere(c) /\ x \in Streams
               /\ conn'[c] = [conn[c] EXCEPT !.inbound = Tail(@), !.waiters = StillHeard(c, x, f)]
               /\ sub' = [sub EXCEPT ![x] = Sunk(c, x, f)] /\ UNCHANGED call
  <1>. DEFINE f == Head(conn[c].inbound)
              x == f.id
              w == [conn[c] EXCEPT !.inbound = Tail(@), !.waiters = StillHeard(c, x, f)]
  <1>1. f \in Answer /\ conn[c].inbound \in Seq(Answer) /\ Tail(conn[c].inbound) \in Seq(Answer)
    BY WireType
  <1>2. x \in Streams
    BY DEF IsCall
  <1>3. /\ conn' = [conn EXCEPT ![c].inbound = Tail(@), ![c].waiters = StillHeard(c, x, f)]
        /\ UNCHANGED call
    <2>1. conn' = [conn EXCEPT ![c].inbound = Tail(@),
                     ![c].waiters = IF f.kind \in Final \/ ~SinkTakes(x) THEN @ \ {x} ELSE @]
      BY DEF DeliverStream
    <2>. QED
      BY <2>1 DEF StillHeard, DeliverStream, Typed
  <1>4. sub' = [sub EXCEPT ![x] = Sunk(c, x, f)]
    <2>1. sub' = IF x \notin conn[c].waiters THEN sub
                 ELSE IF SinkTakes(x) THEN [sub EXCEPT ![x].sink = Append(@, f)]
                 ELSE [sub EXCEPT ![x].overrun = @ \/ sub[x].phase = "open"]
      BY DEF DeliverStream
    <2>. QED
      BY <1>2, <2>1 DEF Sunk, Typed
  <1>. HIDE DEF f
  <1>5. StillHeard(c, x, f) \subseteq Exchanges
    BY WireType DEF StillHeard
  <1>6. w \in Wire
    BY <1>1, <1>5, WireType DEF Wire
  <1>7. conn'[c] = w /\ Elsewhere(c)
    BY <1>3 DEF Typed, Elsewhere
  <1>8. conn' \in [Conns -> Wire]
    BY <1>3, <1>6, <1>7 DEF Typed, Elsewhere
  <1>9. Sunk(c, x, f) \in Consumer
    <2>1. sub[x] \in Consumer /\ Append(sub[x].sink, f) \in Seq(Answer)
      BY <1>1, <1>2 DEF Typed, Consumer
    <2>2. (sub[x].overrun \/ sub[x].phase = "open") \in BOOLEAN
      OBVIOUS
    <2>. QED
      BY <2>1, <2>2 DEF Sunk, Consumer
  <1>10. sub' \in [Streams -> Consumer]
    BY <1>2, <1>4, <1>9 DEF Typed
  <1>. QED
    BY <1>2, <1>3, <1>4, <1>7, <1>8, <1>10 DEF Typed, f

\* The task of a connection is over.
Informed(ids) ==
    \A k \in Calls :
        call'[k] = IF call[k].phase = "waiting" /\ Id(k) \in ids /\ call[k].reply = "none"
                   THEN [call[k] EXCEPT !.reply = "Disconnected"] ELSE call[k]

LEMMA GoneEffect ==
    ASSUME Typed, NEW c \in Conns, conn' = Gone(c), TellCalls(Riding(c)),
           UNCHANGED <<slot, sub, executed, closed>>, server' \in [Streams -> Account]
    PROVE  /\ Typed' /\ Elsewhere(c) /\ conn'[c] = Connection("gone", FALSE, conn[c].sent)
           /\ Informed(Riding(c))
  <1>1. Connection("gone", FALSE, conn[c].sent) \in Wire
    BY FreshWire, WireType
  <1>2. /\ conn'[c] = Connection("gone", FALSE, conn[c].sent) /\ Elsewhere(c)
        /\ conn' \in [Conns -> Wire]
    BY <1>1 DEF Gone, Typed, Elsewhere
  <1>3. Informed(Riding(c))
    BY DEF Informed, TellCalls
  <1>4. call' \in [Calls -> CallState]
    <2>1. call' = [k \in Calls |-> call'[k]]
      BY DEF TellCalls
    <2>2. ASSUME NEW k \in Calls PROVE call'[k] \in CallState
      <3>1. call[k] \in CallState
        BY DEF Typed
      <3>2. [call[k] EXCEPT !.reply = "Disconnected"] \in CallState
        BY <3>1, ReplyType
      <3>. QED
        BY <1>3, <3>1, <3>2 DEF Informed
    <2>. QED
      BY <2>1, <2>2
  <1>. QED
    BY <1>2, <1>3, <1>4 DEF Typed

LEMMA SeveredType ==
    ASSUME Typed, NEW c
    PROVE  Severed(c) \in [Streams -> Account]
  <1>1. Over \in Account
    BY Limit DEF Over, Account
  <1>. QED
    BY <1>1 DEF Typed, Severed

LEMMA RunEndsEffect ==
    ASSUME Typed, NEW c \in Conns, RunEnds(c)
    PROVE  /\ Typed' /\ Elsewhere(c) /\ conn'[c] = Connection("gone", FALSE, conn[c].sent)
           /\ Informed(Riding(c)) /\ ~conn[c].alive
           /\ UNCHANGED <<slot, sub, server, executed, closed>>
  BY GoneEffect DEF RunEnds, Typed

LEMMA AbandonEffect ==
    ASSUME Typed, NEW c \in Conns, Abandon(c)
    PROVE  /\ Typed' /\ Elsewhere(c) /\ conn'[c] = Connection("gone", FALSE, conn[c].sent)
           /\ Informed(Riding(c)) /\ server' = Severed(c)
           /\ UNCHANGED <<slot, sub, executed, closed>>
  BY GoneEffect, SeveredType DEF Abandon

LEMMA LoseWireEffect ==
    ASSUME Typed, NEW c \in Conns, NEW n \in 0 .. Queue, LoseWire(c, n)
    PROVE  /\ Typed' /\ Elsewhere(c) /\ server' = Severed(c) /\ n \in 0 .. Len(conn[c].inbound)
           /\ conn'[c] = [conn[c] EXCEPT !.alive = FALSE, !.inbound = SubSeq(@, 1, n)]
           /\ UNCHANGED <<slot, call, sub, executed, closed>>
  <1>. DEFINE w == [conn[c] EXCEPT !.alive = FALSE, !.inbound = SubSeq(@, 1, n)]
  <1>1. conn[c].inbound \in Seq(Answer) /\ n \in 0 .. Len(conn[c].inbound)
    BY WireType, Limit DEF LoseWire
  <1>2. SubSeq(conn[c].inbound, 1, n) \in Seq(Answer)
    BY <1>1, SetPrefix
  <1>3. /\ conn' = [conn EXCEPT ![c].alive = FALSE, ![c].inbound = SubSeq(@, 1, n)]
        /\ server' = Severed(c) /\ UNCHANGED <<slot, call, sub, executed, closed>>
    BY DEF LoseWire
  <1>4. w \in Wire
    BY <1>2, WireType DEF Wire
  <1>5. conn'[c] = w /\ Elsewhere(c)
    BY <1>3 DEF Typed, Elsewhere
  <1>6. conn' \in [Conns -> Wire]
    BY <1>3, <1>4, <1>5 DEF Typed, Elsewhere
  <1>. QED
    BY <1>1, <1>3, <1>5, <1>6, SeveredType DEF Typed

-----------------------------------------------------------------------------
(* The server's steps. *)

LEMMA NextSentType ==
    ASSUME Typed, NEW c \in Conns, conn[c].sent # << >>
    PROVE  /\ NextSent(c) \in Message /\ NextSent(c) \in OnItsWay(c)
           /\ NextSent(c).kind \in {"Call", "Stream", "Credit", "Cancel"}
           /\ Tail(conn[c].sent) \in Seq(Request)
           /\ (NextSent(c).kind = "Call" => NextSent(c).id \in Attempts)
           /\ (NextSent(c).kind \in {"Stream", "Credit", "Cancel"} => NextSent(c).id \in Streams)
  <1>1. conn[c].sent \in Seq(Request)
    BY WireType
  <1>2. /\ Head(conn[c].sent) \in Request /\ Tail(conn[c].sent) \in Seq(Request)
        /\ Head(conn[c].sent) \in ToSet(conn[c].sent)
    BY <1>1, TailShape, SetTail
  <1>. QED
    BY <1>2, AskedOf DEF NextSent, Request, Message, Messages, Exchanges

LEMMA FrameType ==
    /\ \A o \in Outcomes, id \in Attempts : Frame(o, id, 0) \in Answer
    /\ \A kind \in {"Ok", "End", "Error"}, x \in Streams : Frame(kind, x, 0) \in Answer
    /\ \A x \in Streams, n \in 0 .. Window : Frame("Records", x, n) \in Answer
  BY Limit DEF Frame, Answer, Frames, Outcomes, Final

LEMMA CommandType ==
    /\ \A id \in Attempts : Command("Call", id, 0) \in Message
    /\ \A id \in Exchanges : Command("Forget", id, 0) \in Message
    /\ \A x \in Streams : Command("Cancel", x, 0) \in Message
    /\ \A x \in Streams, n \in 0 .. Window : /\ Command("Stream", x, n) \in Message
                                             /\ Command("Credit", x, n) \in Message
  BY Limit DEF Command, Message, Messages, Exchanges

LEMMA ServeCallEffect ==
    ASSUME Typed, NEW c \in Conns, NEW o \in Outcomes, ServeCall(c, o)
    PROVE  /\ Typed' /\ Elsewhere(c) /\ conn[c].sent # << >> /\ NextSent(c).kind = "Call"
           /\ NextSent(c).id \in Attempts
           /\ conn'[c] = [conn[c] EXCEPT !.sent = Tail(@),
                 !.inbound = IF conn[c].alive THEN Append(@, Frame(o, NextSent(c).id, 0)) ELSE @]
           /\ executed' = IF o = "Ack" THEN executed \cup {NextSent(c).id} ELSE executed
           /\ UNCHANGED <<slot, call, sub, server, closed>>
           /\ conn[c].alive => Len(conn[c].inbound) < Queue
  <1>. DEFINE in == IF conn[c].alive THEN Append(conn[c].inbound, Frame(o, NextSent(c).id, 0))
                    ELSE conn[c].inbound
              w == [conn[c] EXCEPT !.sent = Tail(@), !.inbound = in]
  <1>1. /\ conn[c].sent # << >> /\ NextSent(c).kind = "Call" /\ NextSent(c).id \in Attempts
        /\ Tail(conn[c].sent) \in Seq(Request)
        /\ conn[c].alive => Len(conn[c].inbound) < Queue
    BY NextSentType DEF ServeCall, Room
  <1>2. in \in Seq(Answer)
    <2>1. Frame(o, NextSent(c).id, 0) \in Answer
      BY <1>1, FrameType
    <2>. QED
      BY <2>1, WireType
  <1>3. conn' = [conn EXCEPT ![c].sent = Tail(@), ![c].inbound = in]
    <2>1. conn' = [conn EXCEPT ![c].sent = Tail(@),
                     ![c].inbound = IF conn[c].alive
                                    THEN Append(@, Frame(o, NextSent(c).id, 0)) ELSE @]
      BY DEF ServeCall
    <2>. QED
      BY <2>1 DEF Typed
  <1>4. /\ executed' = IF o = "Ack" THEN executed \cup {NextSent(c).id} ELSE executed
        /\ UNCHANGED <<slot, call, sub, server, closed>>
    BY DEF ServeCall
  <1>. HIDE DEF in
  <1>5. w \in Wire
    BY <1>1, <1>2, WireType DEF Wire
  <1>6. conn'[c] = w /\ Elsewhere(c)
    BY <1>3 DEF Typed, Elsewhere
  <1>7. conn' \in [Conns -> Wire]
    BY <1>3, <1>5, <1>6 DEF Typed, Elsewhere
  <1>. QED
    BY <1>1, <1>4, <1>6, <1>7 DEF Typed, in

LEMMA ReadUnseenEffect ==
    ASSUME Typed, NEW c \in Conns, ReadUnseen(c)
    PROVE  /\ Typed' /\ Elsewhere(c) /\ conn[c].sent # << >> /\ NextSent(c).kind # "Call"
           /\ conn'[c] = [conn[c] EXCEPT !.sent = Tail(@)] /\ ~conn[c].alive
           /\ UNCHANGED <<slot, call, sub, server, executed, closed>>
  <1>. DEFINE w == [conn[c] EXCEPT !.sent = Tail(@)]
  <1>1. conn[c].sent # << >> /\ Tail(conn[c].sent) \in Seq(Request)
    BY NextSentType DEF ReadUnseen
  <1>2. conn' = [conn EXCEPT ![c].sent = Tail(@)]
    BY DEF ReadUnseen
  <1>3. w \in Wire
    BY <1>1, WireType DEF Wire
  <1>4. conn'[c] = w /\ Elsewhere(c)
    BY <1>2 DEF Typed, Elsewhere
  <1>5. conn' \in [Conns -> Wire]
    BY <1>2, <1>3, <1>4 DEF Typed, Elsewhere
  <1>. QED
    BY <1>1, <1>4, <1>5 DEF Typed, ReadUnseen

-----------------------------------------------------------------------------
(* What a stream's credit is made of. *)

LEMMA Shares ==
    ASSUME Typed, NEW x \in Streams, NEW c \in Conns
    PROVE  /\ Granting(conn[c].cmds, x) \in Nat /\ Granting(conn[c].pending, x) \in Nat
           /\ Granting(conn[c].sent, x) \in Nat /\ Carrying(conn[c].inbound, x) \in Nat
           /\ Carrying(sub[x].sink, x) \in Nat
           /\ sub[x].drained \in 0 .. Window /\ sub[x].pending \in 0 .. Window
           /\ server[x].credit \in 0 .. Window /\ server[x].left \in 0 .. Records
           /\ OnWire(conn[c], x) \in Nat /\ InHand(sub[x], x) \in Nat
  <1>1. /\ Granting(conn[c].cmds, x) \in Nat /\ Granting(conn[c].pending, x) \in Nat
        /\ Granting(conn[c].sent, x) \in Nat
    BY WireType, Worths, SumType, Limit DEF Granting
  <1>2. Carrying(conn[c].inbound, x) \in Nat
    BY WireType, Worths, SumType, Limit DEF Carrying
  <1>3. /\ sub[x].sink \in Seq(Answer) /\ sub[x].drained \in 0 .. Window
        /\ sub[x].pending \in 0 .. Window
    BY DEF Typed, Consumer
  <1>4. Carrying(sub[x].sink, x) \in Nat
    BY <1>3, Worths, SumType, Limit DEF Carrying
  <1>5. server[x].credit \in 0 .. Window /\ server[x].left \in 0 .. Records
    BY DEF Typed, Account
  <1>6. OnWire(conn[c], x) \in Nat
    BY <1>1, <1>2 DEF OnWire
  <1>7. InHand(sub[x], x) \in Nat
    BY <1>3, <1>4, Limit DEF InHand
  <1>. QED
    BY <1>1, <1>2, <1>3, <1>4, <1>5, <1>6, <1>7

\* A stream that is known somewhere has a home.
LEMMA HomeOf ==
    ASSUME Typed, Placed, Homes, NEW c \in Conns, NEW x \in Streams, x \in Named(c)
    PROVE  sub[x].at = c /\ sub[x].phase # "idle"
  <1>1. sub[x].at = c
    BY DEF Homes, StreamHomes
  <1>2. c # None
    BY DEF Conns, None
  <1>. QED
    BY <1>1, <1>2 DEF Placed

LEMMA AtType ==
    ASSUME Typed, Placed, NEW x \in Streams, sub[x].phase # "idle"
    PROVE  sub[x].at \in Conns
  BY DEF Typed, Placed, Consumer

\* A message on its way to the server is part of its stream's credit.
LEMMA WithinWindow ==
    ASSUME IInv, NEW x \in Streams, sub[x].phase # "idle"
    PROVE  LET c == sub[x].at IN
           /\ c \in Conns /\ Total(x) \in Nat
           /\ server[x].credit + Granting(conn[c].sent, x) <= Window
           /\ sub[x].drained + sub[x].pending + Carrying(sub[x].sink, x) <= Window
  <1>. DEFINE c == sub[x].at
  <1>1. c \in Conns
    BY AtType DEF IInv
  <1>2. /\ Total(x) = server[x].credit + OnWire(conn[c], x) + InHand(sub[x], x)
        /\ OnWire(conn[c], x) = Granting(conn[c].cmds, x) + Granting(conn[c].pending, x)
                                  + Granting(conn[c].sent, x) + Carrying(conn[c].inbound, x)
        /\ InHand(sub[x], x) = Carrying(sub[x].sink, x) + sub[x].drained + sub[x].pending
    BY DEF Total, OnWire, InHand
  <1>3. Total(x) <= Window
    BY DEF IInv, Conserved, Balanced
  <1>4. Typed
    BY DEF IInv
  <1>. HIDE DEF c
  <1>. QED
    BY <1>1, <1>2, <1>3, <1>4, Shares, Limit DEF c

LEMMA ServeStreamEffect ==
    ASSUME IInv, NEW c \in Conns, ServeStream(c)
    PROVE  LET m == NextSent(c)
               x == m.id
               live == server[x].phase = "live"
           IN  /\ Typed' /\ Elsewhere(c) /\ conn[c].sent # << >> /\ m \in Message
               /\ m.kind \in {"Stream", "Credit", "Cancel"} /\ conn[c].alive /\ x \in Streams
               /\ Len(conn[c].inbound) < Queue
               /\ \E kind \in {"Ok", "End", "Error"} :
                     /\ conn'[c] = [conn[c] EXCEPT !.sent = Tail(@),
                                                   !.inbound = Append(@, Frame(kind, x, 0))]
                     /\ kind \in Final => m.kind = "Cancel" \/ ~live
                     /\ m.kind = "Stream" => kind = "Ok"
               /\ server' = [server EXCEPT ![x] =
                     IF m.kind = "Stream" THEN [@ EXCEPT !.phase = "live", !.credit = m.n]
                     ELSE IF m.kind = "Cancel" THEN Over
                     ELSE IF live THEN [@ EXCEPT !.credit = server[x].credit + m.n] ELSE @]
               /\ UNCHANGED <<slot, call, sub, executed, closed>>
  <1>. DEFINE m == NextSent(c)
              x == m.id
              live == server[x].phase = "live"
              kind == IF m.kind = "Stream" \/ (m.kind = "Credit" /\ live) THEN "Ok"
                      ELSE IF live THEN "End" ELSE "Error"
              acc == IF m.kind = "Stream" THEN [server[x] EXCEPT !.phase = "live", !.credit = m.n]
                     ELSE IF m.kind = "Cancel" THEN Over
                     ELSE IF live THEN [server[x] EXCEPT !.credit = @ + m.n] ELSE server[x]
              w == [conn[c] EXCEPT !.sent = Tail(@), !.inbound = Append(@, Frame(kind, x, 0))]
  <1>1. Typed /\ Placed /\ Homes
    BY DEF IInv
  <1>2. /\ conn[c].sent # << >> /\ m.kind # "Call" /\ conn[c].alive
        /\ Len(conn[c].inbound) < Queue
    BY DEF ServeStream, Room
  <1>3. /\ m \in Message /\ m \in OnItsWay(c) /\ Tail(conn[c].sent) \in Seq(Request)
        /\ m.kind \in {"Stream", "Credit", "Cancel"} /\ x \in Streams
    BY <1>1, <1>2, NextSentType
  <1>4. sub[x].phase # "idle" /\ sub[x].at = c
    <2>1. x \in Named(c)
      BY <1>3 DEF Named, Ids
    <2>. QED
      BY <1>1, <1>3, <2>1, HomeOf
  <1>5. m.n \in 0 .. Window /\ Window \in Nat
    BY <1>3, Worths, Limit
  <1>6. server[x].credit \in 0 .. Window /\ (m.kind = "Credit" => server[x].credit + m.n <= Window)
    <2>1. server[x].credit \in 0 .. Window
      BY <1>1, <1>3 DEF Typed, Account
    <2>2. server[x].credit + Granting(conn[c].sent, x) <= Window
      BY <1>3, <1>4, WithinWindow
    <2>3. Granting(conn[c].sent, x) =
            SumOf({"Stream", "Credit"}, Tail(conn[c].sent), x) + Worth({"Stream", "Credit"}, m, x)
          /\ SumOf({"Stream", "Credit"}, Tail(conn[c].sent), x) \in Nat
      BY <1>1, <1>2, <1>5, WireType, Worths, SumTail DEF Granting, NextSent
    <2>4. m.kind = "Credit" => Worth({"Stream", "Credit"}, m, x) = m.n
      BY DEF Worth
    <2>. HIDE DEF m
    <2>. QED
      BY <1>5, <2>1, <2>2, <2>3, <2>4
  <1>7. acc \in Account
    <2>1. server[x] \in Account /\ Over \in Account
      BY <1>1, <1>3, Limit DEF Typed, Over, Account
    <2>2. m.kind = "Credit" => server[x].credit + m.n \in 0 .. Window
      BY <1>5, <1>6
    <2>. HIDE DEF m
    <2>. QED
      BY <1>3, <1>5, <2>1, <2>2 DEF Account
  <1>8. kind \in {"Ok", "End", "Error"} /\ Frame(kind, x, 0) \in Answer
    BY <1>3, FrameType
  <1>9. /\ conn' = [conn EXCEPT ![c].sent = Tail(@), ![c].inbound = Append(@, Frame(kind, x, 0))]
        /\ server' = [server EXCEPT ![x] =
                 IF m.kind = "Stream" THEN [@ EXCEPT !.phase = "live", !.credit = m.n]
                 ELSE IF m.kind = "Cancel" THEN Over
                 ELSE IF live THEN [@ EXCEPT !.credit = server[x].credit + m.n] ELSE @]
        /\ UNCHANGED <<slot, call, sub, executed, closed>>
    BY DEF ServeStream
  <1>10. \A y \in Streams : server'[y] = IF y = x THEN acc ELSE server[y]
    <2>1. server' = [server EXCEPT ![x] = acc]
      BY <1>9
    <2>. HIDE DEF m, acc
    <2>. QED
      BY <1>1, <1>3, <2>1 DEF Typed
  <1>11. server' \in [Streams -> Account]
    <2>. HIDE DEF m, acc
    <2>1. \A y \in Streams : server'[y] \in Account
      BY <1>1, <1>7, <1>10 DEF Typed
    <2>2. DOMAIN server' = Streams /\ server' = [y \in Streams |-> server'[y]]
      BY <1>1, <1>9 DEF Typed
    <2>. QED
      BY <2>1, <2>2
  <1>12. (kind \in Final => m.kind = "Cancel" \/ ~live) /\ (m.kind = "Stream" => kind = "Ok")
    BY <1>3 DEF Final
  <1>. HIDE DEF m, kind, acc
  <1>13. w \in Wire
    <2>1. Append(conn[c].inbound, Frame(kind, x, 0)) \in Seq(Answer)
      BY <1>1, <1>8, WireType
    <2>. QED
      BY <1>1, <1>3, <2>1, WireType DEF Wire
  <1>14. conn'[c] = w /\ Elsewhere(c)
    BY <1>1, <1>9 DEF Typed, Elsewhere
  <1>15. conn' \in [Conns -> Wire]
    BY <1>1, <1>9, <1>13, <1>14 DEF Typed, Elsewhere
  <1>16. Typed'
    BY <1>1, <1>9, <1>11, <1>15 DEF Typed
  <1>17. \E word \in {"Ok", "End", "Error"} :
            /\ conn'[c] = [conn[c] EXCEPT !.sent = Tail(@), !.inbound = Append(@, Frame(word, x, 0))]
            /\ word \in Final => m.kind = "Cancel" \/ ~live
            /\ m.kind = "Stream" => word = "Ok"
    BY <1>8, <1>12, <1>14
  <1>. QED
    BY <1>2, <1>3, <1>9, <1>14, <1>16, <1>17 DEF m

LEMMA PushEffect ==
    ASSUME Typed, Placed, NEW x \in Streams, NEW n \in 1 .. Window, Push(x, n)
    PROVE  LET c == sub[x].at IN
           /\ Typed' /\ c \in Conns /\ Elsewhere(c) /\ server[x].phase = "live"
           /\ conn'[c] = [conn[c] EXCEPT !.inbound = Append(@, Frame("Records", x, n))]
           /\ Frame("Records", x, n) \in Answer
           /\ Len(conn[c].inbound) < Queue /\ n \in 0 .. Window /\ n <= server[x].credit
           /\ server' = [server EXCEPT ![x].credit = @ - n, ![x].left = @ - n]
           /\ UNCHANGED <<slot, call, sub, executed, closed>>
  <1>. DEFINE c == sub[x].at
              w == [conn[c] EXCEPT !.inbound = Append(@, Frame("Records", x, n))]
              acc == [server[x] EXCEPT !.credit = @ - n, !.left = @ - n]
  <1>1. /\ server[x].phase = "live" /\ n <= server[x].credit /\ n <= server[x].left
        /\ Len(conn[c].inbound) < Queue
        /\ conn' = [conn EXCEPT ![c].inbound = Append(@, Frame("Records", x, n))]
        /\ server' = [server EXCEPT ![x].credit = @ - n, ![x].left = @ - n]
        /\ UNCHANGED <<slot, call, sub, executed, closed>>
    BY DEF Push, Room
  <1>2. sub[x].phase # "idle"
    BY <1>1 DEF Placed
  <1>3. c \in Conns
    BY <1>2, AtType
  <1>4. n \in 0 .. Window
    BY Limit
  <1>5. Frame("Records", x, n) \in Answer
    BY <1>4, FrameType
  <1>6. acc \in Account
    <2>1. server[x] \in Account /\ server[x].credit \in 0 .. Window /\ server[x].left \in 0 .. Records
      BY DEF Typed, Account
    <2>2. n <= server[x].credit /\ n <= server[x].left
      BY <1>1
    <2>3. server[x].credit - n \in 0 .. Window /\ server[x].left - n \in 0 .. Records
      BY <1>4, <2>1, <2>2, Limit
    <2>. QED
      BY <2>1, <2>3 DEF Account
  <1>. HIDE DEF c
  <1>7. w \in Wire
    <2>1. Append(conn[c].inbound, Frame("Records", x, n)) \in Seq(Answer)
      BY <1>3, <1>5, WireType
    <2>. QED
      BY <1>3, <2>1, WireType DEF Wire
  <1>8. conn'[c] = w /\ Elsewhere(c)
    BY <1>1, <1>3 DEF Typed, Elsewhere
  <1>9. conn' \in [Conns -> Wire]
    BY <1>1, <1>3, <1>7, <1>8 DEF Typed, Elsewhere
  <1>10. server' \in [Streams -> Account]
    <2>1. server'[x] = acc /\ \A y \in Streams : y # x => server'[y] = server[y]
      BY <1>1 DEF Typed
    <2>. HIDE DEF acc
    <2>2. \A y \in Streams : server'[y] \in Account
      BY <1>6, <2>1 DEF Typed
    <2>. QED
      BY <1>1, <2>2 DEF Typed
  <1>. QED
    BY <1>1, <1>3, <1>4, <1>5, <1>8, <1>9, <1>10 DEF Typed, c

-----------------------------------------------------------------------------
(* The callers' steps. *)

\* An attempt is over.
Leaves(k, outcome) ==
    /\ \A j \in Calls : j # k => call'[j] = call[j]
    /\ call'[k].phase \in {"acquiring", "done"} /\ call'[k].tries = call[k].tries
    /\ call'[k].reply = "none"
    /\ call'[k].phase = "acquiring" => call'[k].left + 1 = call[k].left
    /\ call'[k].phase = "done" => call'[k].left = call[k].left /\ call'[k].result = outcome

Results == Outcomes \cup Transient \cup {"Closed"}

LEMMA FinishedEffect ==
    ASSUME Typed, NEW k \in Calls, NEW outcome \in Results, call' = Finished(k, outcome)
    PROVE  call' \in [Calls -> CallState] /\ Leaves(k, outcome)
  <1>. DEFINE r == IF outcome \in Transient /\ call[k].left > 0
                   THEN [call[k] EXCEPT !.phase = "acquiring", !.left = call[k].left - 1,
                                        !.at = None, !.reply = "none"]
                   ELSE [call[k] EXCEPT !.phase = "done", !.result = outcome, !.at = None,
                                        !.reply = "none"]
  <1>1. call[k] \in CallState /\ call[k].left \in 0 .. Retries
    BY DEF Typed, CallState
  <1>2. call' = [call EXCEPT ![k] = r]
    BY DEF Finished
  <1>3. /\ r \in CallState /\ r.phase \in {"acquiring", "done"} /\ r.tries = call[k].tries
        /\ r.reply = "none" /\ (r.phase = "acquiring" => r.left + 1 = call[k].left)
        /\ r.phase = "done" => r.left = call[k].left /\ r.result = outcome
    <2>1. CASE outcome \in Transient /\ call[k].left > 0
      <3>1. call[k].left - 1 \in 0 .. Retries /\ (call[k].left - 1) + 1 = call[k].left
        BY <1>1, <2>1, Limit
      <3>. QED
        BY <1>1, <2>1, <3>1 DEF CallState
    <2>2. CASE ~(outcome \in Transient /\ call[k].left > 0)
      BY <1>1, <2>2 DEF CallState, Results
    <2>. QED
      BY <2>1, <2>2
  <1>. HIDE DEF r
  <1>4. call'[k] = r /\ \A j \in Calls : j # k => call'[j] = call[j]
    BY <1>2 DEF Typed
  <1>. QED
    BY <1>2, <1>3, <1>4 DEF Typed, Leaves

\* A handle, a charge against it and a fresh id.
LEMMA AcquireEffect ==
    ASSUME Typed, Limits, NEW k \in Calls, Acquire(k)
    PROVE  /\ Typed' /\ call[k].phase = "acquiring"
           /\ \A j \in Calls : j # k => call'[j] = call[j]
           /\ call'[k].phase = "sending" /\ call'[k].tries = call[k].tries + 1
           /\ call'[k].at \in Conns
           /\ call'[k].left = call[k].left /\ call'[k].reply = call[k].reply
           /\ UNCHANGED <<slot, conn, sub, server, executed, closed>>
  <1>1. PICK s \in Pick : call' = [call EXCEPT ![k].phase = "sending", ![k].tries = @ + 1,
                                              ![k].at = slot[s].published]
    BY DEF Acquire
  <1>2. call[k].phase = "acquiring" /\ UNCHANGED <<slot, conn, sub, server, executed, closed>>
    BY DEF Acquire
  <1>3. slot[s].published \in Conns
    BY DEF Pick, Live, Typed
  <1>4. call[k] \in CallState /\ call[k].tries \in 0 .. Retries + 1 /\ call[k].left \in 0 .. Retries
    BY DEF Typed, CallState
  <1>5. call[k].tries + 1 \in 0 .. Retries + 1
    <2>1. call[k].tries + call[k].left <= Retries
      BY <1>2 DEF Limits
    <2>. QED
      BY <1>4, <2>1, Limit
  <1>6. [call[k] EXCEPT !.phase = "sending", !.tries = @ + 1, !.at = slot[s].published] \in CallState
    BY <1>3, <1>4, <1>5 DEF CallState
  <1>7. call' \in [Calls -> CallState]
    BY <1>1, <1>6 DEF Typed
  <1>8. /\ \A j \in Calls : j # k => call'[j] = call[j]
        /\ call'[k] = [call[k] EXCEPT !.phase = "sending", !.tries = @ + 1,
                                      !.at = slot[s].published]
    BY <1>1 DEF Typed
  <1>9. /\ call'[k].phase = "sending" /\ call'[k].tries = call[k].tries + 1
        /\ call'[k].at = slot[s].published
        /\ call'[k].left = call[k].left /\ call'[k].reply = call[k].reply
    BY <1>4, <1>8 DEF CallState
  <1>. QED
    BY <1>2, <1>3, <1>7, <1>8, <1>9 DEF Typed

\* The steps in which a caller gives up or returns touch no connection.
LEMMA ReturnsEffect ==
    ASSUME Typed, NEW k \in Calls, NEW outcome \in Results, Returns(k, outcome)
    PROVE  /\ Typed' /\ Leaves(k, outcome)
           /\ UNCHANGED <<slot, conn, sub, server, executed, closed>>
  BY FinishedEffect DEF Returns, Typed

\* A request of an attempt is queued.
Sends(k) ==
    /\ call[k].phase = "sending" /\ Running(call[k].at) /\ Len(conn[call[k].at].cmds) < Queue
    /\ Elsewhere(call[k].at)
    /\ conn'[call[k].at] =
         [conn[call[k].at] EXCEPT !.cmds = Append(@, Command("Call", Id(k), 0))]
    /\ call'[k] = [call[k] EXCEPT !.phase = "waiting"]
    /\ \A j \in Calls : j # k => call'[j] = call[j]
    /\ UNCHANGED <<slot, sub, server, executed, closed>>

LEMMA IdType ==
    ASSUME Typed, Placed, NEW k \in Calls, call[k].phase \in {"sending", "waiting"}
    PROVE  Id(k) \in Attempts /\ IsCall(Id(k)) /\ CallerOf(Id(k)) = k /\ call[k].at \in Conns
           /\ call[k].tries \in 1 .. Retries + 1
  <1>1. call[k].tries \in 0 .. Retries + 1 /\ call[k].tries # 0 /\ call[k].at \in Conns
    BY DEF Typed, CallState, Placed
  <1>2. call[k].tries \in 1 .. Retries + 1
    BY <1>1, Limit
  <1>3. Id(k) \in Attempts
    BY <1>2 DEF Id, Attempts
  <1>. QED
    BY <1>1, <1>2, <1>3, Limit DEF IsCall, CallerOf, Id

LEMMA SendsEffect ==
    ASSUME Typed, Placed, NEW k \in Calls, Sends(k),
           conn' = [conn EXCEPT ![call[k].at].cmds = Append(@, Command("Call", Id(k), 0))],
           call' = [call EXCEPT ![k].phase = "waiting"]
    PROVE  Typed'
  <1>. DEFINE c == call[k].at
              w == [conn[c] EXCEPT !.cmds = Append(@, Command("Call", Id(k), 0))]
  <1>1. c \in Conns /\ Id(k) \in Attempts
    BY IdType DEF Sends
  <1>2. Append(conn[c].cmds, Command("Call", Id(k), 0)) \in Seq(Message)
    BY <1>1, CommandType, WireType
  <1>. HIDE DEF c
  <1>3. w \in Wire
    BY <1>1, <1>2, WireType DEF Wire
  <1>4. conn' = [conn EXCEPT ![c] = w]
    BY <1>1 DEF Typed, c
  <1>5. conn' \in [Conns -> Wire]
    BY <1>1, <1>3, <1>4 DEF Typed
  <1>6. [call[k] EXCEPT !.phase = "waiting"] \in CallState
    BY DEF Typed, CallState
  <1>7. call' \in [Calls -> CallState]
    BY <1>6 DEF Typed
  <1>. QED
    BY <1>5, <1>7 DEF Typed, Sends

LEMMA SendEffect ==
    ASSUME Typed, Placed, NEW k \in Calls, Send(k)
    PROVE  /\ call[k].phase = "sending" /\ Typed'
           /\ \/ Sends(k)
              \/ /\ Leaves(k, "Disconnected")
                 /\ UNCHANGED <<slot, conn, sub, server, executed, closed>>
  <1>1. call[k].phase = "sending"
    BY DEF Send
  <1>2. CASE Returns(k, "Disconnected")
    BY <1>1, <1>2, ReturnsEffect DEF Results, Transient
  <1>3. CASE /\ Running(call[k].at) /\ Len(conn[call[k].at].cmds) < Queue
             /\ conn' = [conn EXCEPT ![call[k].at].cmds = Append(@, Command("Call", Id(k), 0))]
             /\ call' = [call EXCEPT ![k].phase = "waiting"]
             /\ UNCHANGED <<slot, sub, server, executed, closed>>
    <2>1. call[k].at \in Conns
      BY <1>1, IdType
    <2>2. Sends(k)
      BY <1>1, <1>3, <2>1 DEF Sends, Elsewhere, Typed
    <2>. QED
      BY <1>1, <1>3, <2>2, SendsEffect
  <1>. QED
    BY <1>2, <1>3 DEF Send

-----------------------------------------------------------------------------
(* Commands that open nothing. *)

\* A queue with commands of one exchange behind it, within its capacity.
Longer(q, r, id, kinds) ==
    /\ r \in Seq(Message) /\ Len(q) <= Len(r) /\ (Len(q) <= Queue => Len(r) <= Queue)
    /\ \A i \in 1 .. Len(q) : r[i] = q[i]
    /\ \A i \in 1 .. Len(r) : i > Len(q) => r[i].id = id /\ r[i].kind \in kinds

LEMMA LongerSame ==
    ASSUME NEW q \in Seq(Message), NEW id, NEW kinds
    PROVE  Longer(q, q, id, kinds)
  <1>1. Len(q) \in Nat
    OBVIOUS
  <1>. QED
    BY <1>1 DEF Longer

LEMMA LongerOne ==
    ASSUME NEW q \in Seq(Message), NEW r, NEW id, NEW kinds, Longer(q, r, id, kinds),
           NEW m \in Message, m.id = id, m.kind \in kinds, Len(r) < Queue
    PROVE  Longer(q, Append(r, m), id, kinds)
  <1>. DEFINE t == Append(r, m)
  <1>1. r \in Seq(Message) /\ Len(q) \in Nat /\ Len(r) \in Nat /\ Len(q) <= Len(r)
    BY DEF Longer
  <1>2. /\ t \in Seq(Message) /\ Len(t) = Len(r) + 1 /\ t[Len(r) + 1] = m
        /\ \A i \in 1 .. Len(r) : t[i] = r[i]
    BY <1>1, AppendShape
  <1>3. \A i \in 1 .. Len(t) : i \in 1 .. Len(r) \/ i = Len(r) + 1
    BY <1>1, <1>2, OneMore
  <1>4. \A i \in 1 .. Len(q) : i \in 1 .. Len(r)
    BY <1>1
  <1>5. Len(q) <= Len(t) /\ Len(t) <= Queue
    BY <1>1, <1>2, Limit
  <1>. HIDE DEF t
  <1>6. \A i \in 1 .. Len(q) : t[i] = q[i]
    BY <1>2, <1>4 DEF Longer
  <1>7. \A i \in 1 .. Len(t) : i > Len(q) => t[i].id = id /\ t[i].kind \in kinds
    BY <1>2, <1>3 DEF Longer
  <1>8. Longer(q, t, id, kinds)
    BY <1>2, <1>5, <1>6, <1>7 DEF Longer
  <1>. QED
    BY <1>8 DEF t

LEMMA LongerShape ==
    ASSUME NEW q \in Seq(Message), NEW r, NEW id, NEW kinds, Longer(q, r, id, kinds)
    PROVE  /\ r \in Seq(Message) /\ ToSet(q) \subseteq ToSet(r)
           /\ \A m \in ToSet(r) : m \in ToSet(q) \/ (m.id = id /\ m.kind \in kinds)
           /\ kinds \cap Opening = {} =>
                 /\ Asks(r) = Asks(q) /\ (Once(q) => Once(r))
                 /\ \A i \in 1 .. Len(r) : r[i].kind \in Opening => i \in 1 .. Len(q)
  <1>1. /\ r \in Seq(Message) /\ Len(q) \in Nat /\ Len(r) \in Nat /\ Len(q) <= Len(r)
        /\ \A i \in 1 .. Len(q) : r[i] = q[i] /\ i \in 1 .. Len(r)
        /\ \A i \in 1 .. Len(r) : i \in 1 .. Len(q) \/ i > Len(q)
        /\ \A i \in 1 .. Len(r) : i > Len(q) => r[i].id = id /\ r[i].kind \in kinds
    BY DEF Longer
  <1>2. \A m : /\ m \in ToSet(q) <=> \E i \in 1 .. Len(q) : q[i] = m
               /\ m \in ToSet(r) <=> \E i \in 1 .. Len(r) : r[i] = m
    BY <1>1, ElementOf
  <1>3. ToSet(q) \subseteq ToSet(r)
    BY <1>1, <1>2
  <1>4. \A m \in ToSet(r) : m \in ToSet(q) \/ (m.id = id /\ m.kind \in kinds)
    BY <1>1, <1>2
  <1>5. ASSUME kinds \cap Opening = {}
        PROVE  /\ Asks(r) = Asks(q) /\ (Once(q) => Once(r))
               /\ \A i \in 1 .. Len(r) : r[i].kind \in Opening => i \in 1 .. Len(q)
    <2>1. Asks(r) = Asks(q)
      BY <1>3, <1>4, <1>5 DEF Asks, Opens
    <2>2. \A i \in 1 .. Len(r) : r[i].kind \in Opening => i \in 1 .. Len(q)
      BY <1>1, <1>5
    <2>3. Once(q) => Once(r)
      BY <1>1, <2>2 DEF Once
    <2>. QED
      BY <2>1, <2>2, <2>3
  <1>. QED
    BY <1>1, <1>3, <1>4, <1>5

\* Commands that are worth nothing to a stream.
LEMMA LongerWorth ==
    ASSUME NEW q \in Seq(Message), NEW m \in Message, NEW x,
           m.kind \notin {"Stream", "Credit"} \/ m.id # x
    PROVE  Granting(TrySend(q, m), x) = Granting(q, x)
  <1>1. Granting(q, x) \in Nat
    BY Worths, Limit, SumType DEF Granting
  <1>2. Granting(Append(q, m), x) = Granting(q, x) + Worth({"Stream", "Credit"}, m, x)
    BY Worths, Limit, SumAppend DEF Granting
  <1>3. Worth({"Stream", "Credit"}, m, x) = 0
    BY DEF Worth
  <1>4. Granting(Append(q, m), x) = Granting(q, x)
    BY <1>1, <1>2, <1>3
  <1>. QED
    BY <1>4 DEF TrySend

LEMMA TrySendShape ==
    ASSUME NEW q \in Seq(Message), NEW r, NEW id, NEW kinds, Longer(q, r, id, kinds),
           NEW m \in Message, m.id = id, m.kind \in kinds, Len(r) <= Queue
    PROVE  Longer(q, TrySend(r, m), id, kinds)
  <1>1. Len(r) < Queue \/ Len(r) = Queue
    BY Limit DEF Longer
  <1>. QED
    BY <1>1, LongerOne DEF TrySend

\* Commands about one exchange are queued at a connection.
Queues(c, id, kinds) ==
    /\ Elsewhere(c) /\ Longer(conn[c].cmds, conn'[c].cmds, id, kinds)
    /\ conn'[c].state = conn[c].state /\ conn'[c].alive = conn[c].alive
    /\ conn'[c].waiters = conn[c].waiters /\ conn'[c].pending = conn[c].pending
    /\ conn'[c].sent = conn[c].sent /\ conn'[c].inbound = conn[c].inbound
    /\ conn[c].lost \subseteq conn'[c].lost

LEMMA QueuesNothing ==
    ASSUME Typed, NEW c \in Conns, NEW id, NEW kinds, UNCHANGED conn
    PROVE  Queues(c, id, kinds)
  BY WireType, LongerSame DEF Queues, Elsewhere

\* The connection is told that nobody waits any more, or the Forget is lost.
Forgets(c, id) ==
    \/ id \in conn'[c].lost
    \/ \E j \in 1 .. Len(conn'[c].cmds) : /\ j > Len(conn[c].cmds)
                                          /\ conn'[c].cmds[j].kind = "Forget"
                                          /\ conn'[c].cmds[j].id = id

SameButCommands(w, u) ==
    /\ u.state = w.state /\ u.alive = w.alive /\ u.waiters = w.waiters
    /\ u.pending = w.pending /\ u.sent = w.sent /\ u.inbound = w.inbound

LEMMA CommandsOnly ==
    ASSUME Typed, NEW c \in Conns, NEW q, NEW l,
           conn'[c] = [conn[c] EXCEPT !.cmds = q, !.lost = l]
    PROVE  conn'[c].cmds = q /\ conn'[c].lost = l /\ SameButCommands(conn[c], conn'[c])
  <1>1. conn[c] \in Wire
    BY DEF Typed
  <1>. QED
    BY <1>1 DEF Wire, SameButCommands

LEMMA ForgottenEffect ==
    ASSUME Typed, Limits, NEW c \in Conns, NEW id \in Exchanges, NEW kinds, NEW q,
           "Forget" \in kinds, Longer(conn[c].cmds, q, id, kinds),
           conn' = [conn EXCEPT ![c] = Forgotten(conn[c], q, id)]
    PROVE  /\ conn' \in [Conns -> Wire] /\ Queues(c, id, kinds) /\ Forgets(c, id)
           /\ conn'[c].cmds = TrySend(q, Command("Forget", id, 0))
  <1>. DEFINE m == Command("Forget", id, 0)
              w == Forgotten(conn[c], q, id)
              l == IF Len(q) < Queue THEN conn[c].lost ELSE conn[c].lost \cup {id}
  <1>1. /\ m \in Message /\ m.id = id /\ m.kind = "Forget"
    BY CommandType DEF Command
  <1>2. conn[c].cmds \in Seq(Message) /\ q \in Seq(Message) /\ Len(q) <= Queue
    BY WireType DEF Longer, Limits
  <1>3. Longer(conn[c].cmds, TrySend(q, m), id, kinds)
    BY <1>1, <1>2, TrySendShape
  <1>4. TrySend(q, m) \in Seq(Message)
    BY <1>3 DEF Longer
  <1>5. l \subseteq Exchanges /\ conn[c].lost \subseteq l
    BY WireType
  <1>6. w = [conn[c] EXCEPT !.cmds = TrySend(q, m), !.lost = l]
    BY DEF Forgotten
  <1>7. w \in Wire
    <2>. HIDE DEF m, l, w
    <2>. QED
      BY <1>4, <1>5, <1>6, WireType DEF Wire
  <1>8. conn'[c] = w /\ Elsewhere(c) /\ conn' \in [Conns -> Wire]
    <2>1. conn' = [conn EXCEPT ![c] = w]
      OBVIOUS
    <2>. HIDE DEF w
    <2>. QED
      BY <1>7, <2>1 DEF Typed, Elsewhere
  <1>9. /\ conn'[c].cmds = TrySend(q, m) /\ conn'[c].lost = l
        /\ conn'[c].state = conn[c].state /\ conn'[c].alive = conn[c].alive
        /\ conn'[c].waiters = conn[c].waiters /\ conn'[c].pending = conn[c].pending
        /\ conn'[c].sent = conn[c].sent /\ conn'[c].inbound = conn[c].inbound
    <2>1. conn'[c] = [conn[c] EXCEPT !.cmds = TrySend(q, m), !.lost = l] /\ conn[c] \in Wire
      BY <1>6, <1>8, WireType
    <2>. DEFINE t == TrySend(q, m)
    <2>. HIDE DEF m, l, t
    <2>2. conn'[c] = [conn[c] EXCEPT !.cmds = t, !.lost = l] /\ conn[c] \in Wire
      BY <2>1 DEF t
    <2>3. conn'[c].cmds = t /\ conn'[c].lost = l /\ SameButCommands(conn[c], conn'[c])
      BY ONLY Typed, c \in Conns, <2>2, CommandsOnly
    <2>. QED
      BY <2>3 DEF t, SameButCommands
  <1>10. Queues(c, id, kinds)
    BY <1>3, <1>5, <1>8, <1>9 DEF Queues
  <1>11. Forgets(c, id)
    <2>1. CASE Len(q) < Queue
      <3>1. /\ conn'[c].cmds = Append(q, m) /\ Len(Append(q, m)) = Len(q) + 1
            /\ Append(q, m)[Len(q) + 1] = m /\ Len(q) \in Nat /\ Len(conn[c].cmds) \in Nat
            /\ Len(conn[c].cmds) <= Len(q)
        BY <1>2, <1>9, <2>1, AppendShape DEF TrySend, Longer
      <3>2. Len(q) + 1 \in 1 .. Len(conn'[c].cmds) /\ Len(q) + 1 > Len(conn[c].cmds)
        BY <3>1
      <3>. HIDE DEF m
      <3>. QED
        BY <1>1, <3>1, <3>2 DEF Forgets
    <2>2. CASE ~(Len(q) < Queue)
      BY <1>9, <2>2 DEF Forgets
    <2>. QED
      BY <2>1, <2>2
  <1>. QED
    BY <1>8, <1>9, <1>10, <1>11

LEMMA ReplyTimeoutEffect ==
    ASSUME Typed, Limits, Placed, NEW k \in Calls, ReplyTimeout(k)
    PROVE  LET c == call[k].at IN
           /\ Typed' /\ Leaves(k, "Timeout") /\ c \in Conns /\ Id(k) \in Attempts
           /\ call[k].phase = "waiting" /\ call[k].reply = "none"
           /\ Queues(c, Id(k), {"Forget"}) /\ Forgets(c, Id(k))
           /\ UNCHANGED <<slot, sub, server, executed, closed>>
  <1>. DEFINE c == call[k].at
  <1>1. /\ call[k].phase = "waiting" /\ call[k].reply = "none" /\ call' = Finished(k, "Timeout")
        /\ conn' = [conn EXCEPT ![c] = Forgotten(conn[c], conn[c].cmds, Id(k))]
        /\ UNCHANGED <<slot, sub, server, executed, closed>>
    BY DEF ReplyTimeout
  <1>2. c \in Conns /\ Id(k) \in Attempts /\ Id(k) \in Exchanges
    BY <1>1, IdType DEF Exchanges
  <1>3. call' \in [Calls -> CallState] /\ Leaves(k, "Timeout")
    BY <1>1, FinishedEffect DEF Results, Transient
  <1>. HIDE DEF c
  <1>4. Longer(conn[c].cmds, conn[c].cmds, Id(k), {"Forget"})
    BY <1>2, WireType, LongerSame
  <1>5. conn' \in [Conns -> Wire] /\ Queues(c, Id(k), {"Forget"}) /\ Forgets(c, Id(k))
    <2>. DEFINE kinds == {"Forget"}
                id == Id(k)
                q == conn[c].cmds
    <2>1. "Forget" \in kinds /\ id \in Exchanges /\ Longer(conn[c].cmds, q, id, kinds)
      BY <1>2, <1>4
    <2>2. conn' = [conn EXCEPT ![c] = Forgotten(conn[c], q, id)]
      BY <1>1
    <2>. HIDE DEF kinds, id, q
    <2>3. conn' \in [Conns -> Wire] /\ Queues(c, id, kinds) /\ Forgets(c, id)
      BY <1>2, <2>1, <2>2, ForgottenEffect
    <2>. QED
      BY <2>3 DEF kinds, id
  <1>. QED
    BY <1>1, <1>2, <1>3, <1>5 DEF Typed, c

-----------------------------------------------------------------------------
(* The consumers' steps. *)

\* The parts of a subscription that a grant leaves alone.
SameStream(s, t) == /\ t.phase = s.phase /\ t.at = s.at /\ t.sink = s.sink
                    /\ t.overrun = s.overrun /\ t.lost = s.lost

LEMMA EarnedShape ==
    ASSUME NEW s \in Consumer, s.drained + s.pending <= Window
    PROVE  /\ Earned(s) \in Consumer /\ SameStream(s, Earned(s))
           /\ Earned(s).drained + Earned(s).pending = s.drained + s.pending
           /\ Earned(s).drained \in 0 .. Window /\ Earned(s).pending \in 0 .. Window
  <1>1. s.drained \in 0 .. Window /\ s.pending \in 0 .. Window /\ Window \in Nat
    BY Limit DEF Consumer
  <1>2. s.pending + s.drained \in 0 .. Window /\ 0 \in 0 .. Window
    BY <1>1
  <1>3. CASE s.drained >= Threshold
    <2>1. Earned(s) = [s EXCEPT !.pending = @ + s.drained, !.drained = 0]
      BY <1>3 DEF Earned
    <2>2. Earned(s).pending = s.pending + s.drained /\ Earned(s).drained = 0
      BY <2>1 DEF Consumer
    <2>3. SameStream(s, Earned(s)) /\ Earned(s) \in Consumer
      BY <1>2, <2>1 DEF Consumer, SameStream
    <2>. QED
      BY <1>1, <1>2, <2>2, <2>3
  <1>4. CASE ~(s.drained >= Threshold)
    BY <1>1, <1>4 DEF Earned, SameStream
  <1>. QED
    BY <1>3, <1>4

LEMMA GrantShape ==
    ASSUME NEW s \in Consumer, NEW x \in Streams, NEW q \in Seq(Message)
    PROVE  /\ Granted(s, q) \in Consumer /\ SameStream(s, Granted(s, q))
           /\ Granted(s, q).drained = s.drained /\ Granted(s, q).pending <= s.pending
           /\ Granted(s, q).pending \in 0 .. Window
           /\ GrantSent(x, s, q) \in Seq(Message)
           /\ Granting(GrantSent(x, s, q), x) + Granted(s, q).pending = Granting(q, x) + s.pending
           /\ Granting(q, x) \in Nat /\ Granting(GrantSent(x, s, q), x) \in Nat
           /\ \A p \in Seq(Message) : Longer(p, q, x, {"Credit"}) =>
                                        Longer(p, GrantSent(x, s, q), x, {"Credit"})
  <1>. DEFINE m == Command("Credit", x, s.pending)
  <1>1. s.drained \in 0 .. Window /\ s.pending \in 0 .. Window /\ Window \in Nat
    BY Limit DEF Consumer
  <1>2. m \in Message /\ m.kind = "Credit" /\ m.id = x /\ m.n = s.pending
    BY <1>1, CommandType DEF Command
  <1>3. Granting(q, x) \in Nat
    BY Worths, Limit, SumType DEF Granting
  <1>4. CASE CanGrant(s, q)
    <2>1. Granted(s, q) = [s EXCEPT !.pending = 0] /\ GrantSent(x, s, q) = Append(q, m)
      BY <1>4 DEF Granted, GrantSent
    <2>2. /\ Granted(s, q) \in Consumer /\ SameStream(s, Granted(s, q))
          /\ Granted(s, q).drained = s.drained /\ Granted(s, q).pending = 0
      <3>. DEFINE r == [s EXCEPT !.pending = 0]
      <3>1. 0 \in 0 .. Window
        BY <1>1
      <3>2. r \in Consumer /\ r.drained = s.drained /\ r.pending = 0
        BY <3>1 DEF Consumer
      <3>3. SameStream(s, r)
        BY DEF Consumer, SameStream
      <3>. QED
        BY <2>1, <3>2, <3>3
    <2>3. Granting(Append(q, m), x) = Granting(q, x) + Worth({"Stream", "Credit"}, m, x)
      BY <1>2, Worths, Limit, SumAppend DEF Granting
    <2>4. Worth({"Stream", "Credit"}, m, x) = s.pending
      BY <1>2 DEF Worth
    <2>5. Append(q, m) \in Seq(Message)
      BY <1>2
    <2>6. Len(q) < Queue
      BY <1>4 DEF CanGrant
    <2>7. ASSUME NEW p \in Seq(Message), Longer(p, q, x, {"Credit"})
          PROVE  Longer(p, Append(q, m), x, {"Credit"})
      <3>. DEFINE kinds == {"Credit"}
      <3>1. m.kind \in kinds /\ Longer(p, q, x, kinds)
        BY <1>2, <2>7
      <3>. HIDE DEF m, kinds
      <3>2. Longer(p, Append(q, m), x, kinds)
        BY <1>2, <2>6, <3>1, LongerOne
      <3>. QED
        BY <3>2 DEF kinds
    <2>. HIDE DEF m
    <2>8. Granting(Append(q, m), x) + 0 = Granting(q, x) + s.pending /\ Granting(Append(q, m), x) \in Nat
      BY <1>1, <1>3, <2>3, <2>4
    <2>. QED
      BY <1>1, <1>3, <2>1, <2>2, <2>5, <2>7, <2>8
  <1>5. CASE ~CanGrant(s, q)
    <2>1. Granted(s, q) = s /\ GrantSent(x, s, q) = q
      BY <1>5 DEF Granted, GrantSent
    <2>. QED
      BY <1>1, <1>3, <2>1 DEF SameStream
  <1>. QED
    BY <1>4, <1>5

LEMMA InHandType ==
    ASSUME NEW s \in Consumer, NEW x
    PROVE  InHand(s, x) \in Nat /\ Carrying(s.sink, x) \in Nat /\ s.drained \in Nat /\ s.pending \in Nat
  <1>1. s.sink \in Seq(Answer) /\ s.drained \in Nat /\ s.pending \in Nat
    BY Limit DEF Consumer
  <1>2. Carrying(s.sink, x) \in Nat
    BY <1>1, Worths, Limit, SumType DEF Carrying
  <1>. QED
    BY <1>1, <1>2 DEF InHand

LEMMA EarnedHolds ==
    ASSUME NEW s \in Consumer, NEW x, s.drained + s.pending <= Window
    PROVE  InHand(Earned(s), x) = InHand(s, x)
  <1>1. /\ Earned(s).sink = s.sink /\ Earned(s) \in Consumer
        /\ Earned(s).drained + Earned(s).pending = s.drained + s.pending
    BY EarnedShape DEF SameStream
  <1>2. /\ Carrying(s.sink, x) \in Nat /\ s.drained \in Nat /\ s.pending \in Nat
        /\ Earned(s).drained \in Nat /\ Earned(s).pending \in Nat
    BY <1>1, InHandType
  <1>3. Earned(s).drained + Earned(s).pending = s.drained + s.pending
    BY <1>1
  <1>4. Carrying(s.sink, x) + Earned(s).drained + Earned(s).pending
          = Carrying(s.sink, x) + s.drained + s.pending
    BY <1>2, <1>3
  <1>. QED
    BY <1>1, <1>4 DEF InHand

LEMMA GrantHolds ==
    ASSUME NEW s \in Consumer, NEW x \in Streams, NEW q \in Seq(Message)
    PROVE  Granting(GrantSent(x, s, q), x) + InHand(Granted(s, q), x)
             = Granting(q, x) + InHand(s, x)
  <1>1. /\ Granted(s, q) \in Consumer /\ Granted(s, q).sink = s.sink
        /\ Granted(s, q).drained = s.drained
        /\ Granting(GrantSent(x, s, q), x) + Granted(s, q).pending = Granting(q, x) + s.pending
        /\ Granting(q, x) \in Nat /\ Granting(GrantSent(x, s, q), x) \in Nat
    BY GrantShape DEF SameStream
  <1>2. /\ Carrying(s.sink, x) \in Nat /\ s.drained \in Nat /\ s.pending \in Nat
        /\ Granted(s, q).pending \in Nat
    BY <1>1, InHandType
  <1>3. Granting(q, x) \in Nat /\ Granting(GrantSent(x, s, q), x) \in Nat
    BY <1>1
  <1>4. Granting(GrantSent(x, s, q), x) + Granted(s, q).pending = Granting(q, x) + s.pending
    BY <1>1
  <1>5. Granting(GrantSent(x, s, q), x) + (Carrying(s.sink, x) + s.drained + Granted(s, q).pending)
          = Granting(q, x) + (Carrying(s.sink, x) + s.drained + s.pending)
    <2>. DEFINE a == Carrying(s.sink, x)
                d == s.drained
                p == s.pending
                g == Granting(q, x)
                t == Granted(s, q).pending
                u == Granting(GrantSent(x, s, q), x)
    <2>1. a \in Nat /\ d \in Nat /\ p \in Nat /\ g \in Nat /\ t \in Nat /\ u \in Nat
      BY <1>2, <1>3
    <2>2. u + t = g + p
      BY <1>4
    <2>. HIDE DEF a, d, p, g, t, u
    <2>3. u + (a + d + t) = g + (a + d + p)
      BY ONLY <2>1, <2>2
    <2>. QED
      BY <2>3 DEF a, d, p, g, t, u
  <1>. QED
    BY <1>1, <1>5 DEF InHand

\* Whatever a consumer does: it takes from its sink, and commands of its stream are
\* queued.  Nothing of the credit is made up, and none is lost while it stays.
Consumes(x, kinds) ==
    /\ sub[x].at \in Conns /\ sub[x].phase \in {"open", "ended"}
    /\ Queues(sub[x].at, x, kinds) /\ kinds \subseteq {"Credit", "Cancel", "Forget"}
    /\ \A y \in Streams : y # x => sub'[y] = sub[y]
    /\ sub'[x].at = sub[x].at /\ sub'[x].overrun = sub[x].overrun
    /\ ToSet(sub'[x].sink) \subseteq ToSet(sub[x].sink) /\ Len(sub'[x].sink) <= Len(sub[x].sink)
    /\ sub'[x].phase \in {"open", "ended", "dropped"}
    /\ Granting(conn'[sub[x].at].cmds, x) + InHand(sub'[x], x)
         <= Granting(conn[sub[x].at].cmds, x) + InHand(sub[x], x)
    /\ sub'[x].phase = "open" =>
          /\ sub[x].phase = "open"
          /\ Granting(conn'[sub[x].at].cmds, x) + InHand(sub'[x], x)
               = Granting(conn[sub[x].at].cmds, x) + InHand(sub[x], x)
    /\ server[x].phase = "none" =>
          /\ "Credit" \notin kinds
          /\ sub'[x].drained = 0 /\ sub'[x].pending = 0 /\ sub'[x].sink = << >>
    /\ "Cancel" \in kinds \/ "Forget" \in kinds => sub'[x].phase = "dropped"
    /\ sub'[x].phase = "dropped" /\ Running(sub[x].at) => Forgets(sub[x].at, x)
    /\ UNCHANGED <<slot, call, server, executed, closed>>

\* Giving up what is in hand.
LEMMA QuitShape ==
    ASSUME NEW s \in Consumer, NEW phase \in {"ended", "dropped"}
    PROVE  /\ Quit(s, phase) \in Consumer /\ Quit(s, phase).phase = phase
           /\ Quit(s, phase).at = s.at /\ Quit(s, phase).overrun = s.overrun
           /\ Quit(s, phase).sink = << >> /\ Quit(s, phase).drained = 0
           /\ Quit(s, phase).pending = 0
           /\ \A x : InHand(Quit(s, phase), x) = 0
           /\ ToSet(Quit(s, phase).sink) = {} /\ Len(Quit(s, phase).sink) = 0
  <1>1. << >> \in Seq(Answer) /\ Len(<< >>) = 0 /\ 0 \in 0 .. Window
    BY Limit
  <1>2. /\ Quit(s, phase) \in Consumer /\ Quit(s, phase).phase = phase
        /\ Quit(s, phase).at = s.at /\ Quit(s, phase).overrun = s.overrun
        /\ Quit(s, phase).sink = << >> /\ Quit(s, phase).drained = 0
        /\ Quit(s, phase).pending = 0
    BY <1>1 DEF Quit, Consumer
  <1>3. ToSet(<< >>) = {}
    BY NothingIn
  <1>4. \A x : InHand(Quit(s, phase), x) = 0
    BY <1>2, SumEmpty DEF InHand, Carrying
  <1>. QED
    BY <1>1, <1>2, <1>3, <1>4

LEMMA QueuedEffect ==
    ASSUME Typed, NEW c \in Conns, NEW id, NEW kinds, NEW q,
           Longer(conn[c].cmds, q, id, kinds), conn' = [conn EXCEPT ![c].cmds = q]
    PROVE  /\ conn' \in [Conns -> Wire] /\ Queues(c, id, kinds) /\ conn'[c].cmds = q
  <1>1. conn[c] \in Wire /\ q \in Seq(Message) /\ conn[c].lost \subseteq Exchanges
    BY WireType DEF Longer
  <1>2. [conn[c] EXCEPT !.cmds = q] \in Wire
    BY <1>1 DEF Wire
  <1>3. conn'[c] = [conn[c] EXCEPT !.cmds = q] /\ Elsewhere(c) /\ conn' \in [Conns -> Wire]
    BY <1>2 DEF Typed, Elsewhere
  <1>4. /\ conn'[c].cmds = q /\ conn'[c].lost = conn[c].lost
        /\ SameButCommands(conn[c], conn'[c])
    BY ONLY <1>1, <1>3 DEF Wire, SameButCommands
  <1>. QED
    BY <1>3, <1>4 DEF Queues, SameButCommands

\* What a consumer holds is of its own stream, and part of its window.
LEMMA InHandIs ==
    ASSUME IInv, NEW x \in Streams, sub[x].phase # "idle"
    PROVE  /\ sub[x] \in Consumer /\ sub[x].at \in Conns /\ sub[x].sink \in Seq(Answer)
           /\ sub[x].drained \in 0 .. Window /\ sub[x].pending \in 0 .. Window
           /\ sub[x].drained + sub[x].pending <= Window
           /\ Carrying(sub[x].sink, x) \in Nat
           /\ sub[x].drained + sub[x].pending + Carrying(sub[x].sink, x) <= Window
           /\ conn[sub[x].at].cmds \in Seq(Message)
           /\ Granting(conn[sub[x].at].cmds, x) \in Nat
  <1>1. Typed /\ Placed
    BY DEF IInv
  <1>2. sub[x].at \in Conns /\ sub[x] \in Consumer /\ sub[x].sink \in Seq(Answer)
    BY <1>1, AtType DEF Typed, Consumer
  <1>3. /\ Carrying(sub[x].sink, x) \in Nat /\ sub[x].drained \in 0 .. Window
        /\ sub[x].pending \in 0 .. Window /\ Granting(conn[sub[x].at].cmds, x) \in Nat
    BY <1>1, <1>2, Shares
  <1>4. sub[x].drained + sub[x].pending + Carrying(sub[x].sink, x) <= Window
    BY WithinWindow
  <1>5. sub[x].drained + sub[x].pending <= Window
    BY <1>3, <1>4, Limit
  <1>. QED
    BY <1>1, <1>2, <1>3, <1>4, <1>5, WireType

LEMMA RegrantEffect ==
    ASSUME IInv, NEW x \in Streams, Regrant(x)
    PROVE  Typed' /\ Consumes(x, {"Credit"})
  <1>. DEFINE c == sub[x].at
              s == sub[x]
              q == conn[c].cmds
              t == Granted(s, q)
              r == GrantSent(x, s, q)
              kinds == {"Credit"}
  <1>1. /\ s.phase = "open" /\ s.pending > 0
        /\ sub' = [sub EXCEPT ![x] = t] /\ conn' = [conn EXCEPT ![c].cmds = r]
        /\ UNCHANGED <<slot, call, server, executed, closed>>
    BY DEF Regrant, CanGrant
  <1>2. /\ s \in Consumer /\ c \in Conns /\ q \in Seq(Message) /\ s.sink \in Seq(Answer)
        /\ Carrying(s.sink, x) \in Nat /\ s.drained \in 0 .. Window /\ s.pending \in 0 .. Window
    BY <1>1, InHandIs
  <1>3. Longer(q, q, x, kinds)
    BY <1>2, LongerSame
  <1>. HIDE DEF s, q, c
  <1>4. /\ t \in Consumer /\ SameStream(s, t) /\ t.drained = s.drained /\ t.pending \in 0 .. Window
        /\ Granting(r, x) + t.pending = Granting(q, x) + s.pending
        /\ Granting(r, x) \in Nat /\ Granting(q, x) \in Nat /\ Longer(q, r, x, kinds)
    BY <1>2, <1>3, GrantShape
  <1>. HIDE DEF t, r, kinds
  <1>5. conn' \in [Conns -> Wire] /\ Queues(c, x, kinds) /\ conn'[c].cmds = r
    <2>1. Longer(conn[c].cmds, r, x, kinds) /\ conn' = [conn EXCEPT ![c].cmds = r]
      BY <1>1, <1>4 DEF q
    <2>. QED
      BY <1>2, <2>1, QueuedEffect DEF IInv
  <1>6. sub'[x] = t /\ (\A y \in Streams : y # x => sub'[y] = sub[y]) /\ sub' \in [Streams -> Consumer]
    BY <1>1, <1>4 DEF IInv, Typed
  <1>7. Granting(r, x) + InHand(t, x) = Granting(q, x) + InHand(s, x)
    BY <1>2, GrantHolds DEF t, r
  <1>8. server[x].phase # "none"
    <2>1. sub[x].pending # 0
      BY <1>1, <1>2 DEF s
    <2>. QED
      BY <2>1 DEF IInv, Streaming, Flows, Served
  <1>9. Typed'
    BY <1>1, <1>5, <1>6 DEF IInv, Typed
  <1>10. InHand(t, x) \in Nat /\ InHand(s, x) \in Nat /\ Len(s.sink) \in Nat
    <2>1. Len(s.sink) \in Nat
      BY <1>2
    <2>. QED
      BY <1>2, <1>4, <2>1, InHandType
  <1>11. Granting(r, x) \in Nat /\ Granting(q, x) \in Nat /\ Len(t.sink) = Len(s.sink)
    BY <1>4 DEF SameStream
  <1>12. Granting(r, x) + InHand(t, x) <= Granting(q, x) + InHand(s, x) /\ Len(t.sink) <= Len(s.sink)
    BY <1>7, <1>10, <1>11
  <1>13. kinds \subseteq {"Credit", "Cancel", "Forget"} /\ "Cancel" \notin kinds /\ "Forget" \notin kinds
    BY DEF kinds
  <1>14. t.phase = "open" /\ t.at = c /\ t.overrun = s.overrun /\ ToSet(t.sink) \subseteq ToSet(s.sink)
    BY <1>1, <1>4 DEF SameStream, c, s
  <1>15. Consumes(x, kinds)
    BY <1>1, <1>2, <1>5, <1>6, <1>7, <1>8, <1>12, <1>13, <1>14 DEF Consumes, s, q, c
  <1>. QED
    BY <1>9, <1>15 DEF kinds

\* A poll, by what is left of the subscription and of the queue.
LEMMA PollLeaves ==
    ASSUME IInv, NEW x \in Streams, NEW t \in Consumer, NEW r,
           sub[x].phase = "open", server[x].phase # "none",
           Longer(conn[sub[x].at].cmds, r, x, {"Credit"}),
           conn' = [conn EXCEPT ![sub[x].at].cmds = r], sub' = [sub EXCEPT ![x] = t],
           UNCHANGED <<slot, call, server, executed, closed>>,
           t.at = sub[x].at, t.overrun = sub[x].overrun, t.phase \in {"open", "ended"},
           ToSet(t.sink) \subseteq ToSet(sub[x].sink), Len(t.sink) <= Len(sub[x].sink),
           Granting(r, x) + InHand(t, x) <= Granting(conn[sub[x].at].cmds, x) + InHand(sub[x], x),
           t.phase = "open" =>
              Granting(r, x) + InHand(t, x) = Granting(conn[sub[x].at].cmds, x) + InHand(sub[x], x)
    PROVE  Typed' /\ Consumes(x, {"Credit"})
  <1>. DEFINE kinds == {"Credit"}
              c == sub[x].at
  <1>1. c \in Conns /\ Typed
    BY InHandIs DEF IInv
  <1>2. conn' \in [Conns -> Wire] /\ Queues(c, x, kinds) /\ conn'[c].cmds = r
    <2>1. Longer(conn[c].cmds, r, x, kinds) /\ conn' = [conn EXCEPT ![c].cmds = r]
      OBVIOUS
    <2>. HIDE DEF kinds, c
    <2>. QED
      BY ONLY <1>1, <2>1, QueuedEffect
  <1>3. sub'[x] = t /\ (\A y \in Streams : y # x => sub'[y] = sub[y]) /\ sub' \in [Streams -> Consumer]
    BY <1>1 DEF Typed
  <1>4. Typed'
    BY <1>1, <1>2, <1>3 DEF Typed
  <1>5. kinds \subseteq {"Credit", "Cancel", "Forget"} /\ "Cancel" \notin kinds /\ "Forget" \notin kinds
    BY DEF kinds
  <1>. HIDE DEF kinds
  <1>6. Consumes(x, kinds)
    BY <1>1, <1>2, <1>3, <1>5 DEF Consumes
  <1>. QED
    BY <1>4, <1>6 DEF kinds

\* A frame is taken from the sink.
LEMMA TakenShape ==
    ASSUME NEW s \in Consumer, NEW x, s.sink # << >>, Head(s.sink).id = x
    PROVE  LET t == [s EXCEPT !.sink = Tail(@)]
               f == Head(s.sink)
           IN  /\ t \in Consumer /\ t.phase = s.phase /\ t.at = s.at /\ t.overrun = s.overrun
               /\ t.drained = s.drained /\ t.pending = s.pending /\ t.sink = Tail(s.sink)
               /\ ToSet(t.sink) \subseteq ToSet(s.sink) /\ Len(t.sink) <= Len(s.sink)
               /\ f \in Answer /\ f \in ToSet(s.sink)
               /\ InHand(s, x) = InHand(t, x) + (IF f.kind = "Records" THEN f.n ELSE 0)
               /\ f.n \in 0 .. Window
               /\ f.kind = "Records" => f.n <= Carrying(s.sink, x)
  <1>. DEFINE t == [s EXCEPT !.sink = Tail(@)]
              f == Head(s.sink)
              n == IF f.kind = "Records" THEN f.n ELSE 0
  <1>1. s.sink \in Seq(Answer)
    BY DEF Consumer
  <1>2. /\ Tail(s.sink) \in Seq(Answer) /\ f \in Answer /\ Len(Tail(s.sink)) = Len(s.sink) - 1
        /\ Len(s.sink) \in Nat \ {0}
    BY <1>1, TailShape
  <1>3. ToSet(s.sink) = ToSet(Tail(s.sink)) \cup {f}
    BY <1>1, SetTail
  <1>4. /\ t \in Consumer /\ t.phase = s.phase /\ t.at = s.at /\ t.overrun = s.overrun
        /\ t.drained = s.drained /\ t.pending = s.pending /\ t.sink = Tail(s.sink)
    BY <1>2 DEF Consumer
  <1>5. f.n \in 0 .. Window /\ Window \in Nat
    BY <1>2, Worths, Limit
  <1>6. /\ Carrying(Tail(s.sink), x) \in Nat
        /\ Carrying(s.sink, x) = Carrying(Tail(s.sink), x) + Worth({"Records"}, f, x)
    BY <1>1, Worths, Limit, SumTail DEF Carrying
  <1>7. Worth({"Records"}, f, x) = n
    BY DEF Worth
  <1>8. n \in Nat
    BY <1>5
  <1>. HIDE DEF n, f, t
  <1>9. InHand(s, x) = InHand(t, x) + n
    <2>. DEFINE a == Carrying(Tail(s.sink), x)
                b == Carrying(s.sink, x)
                d == s.drained
                p == s.pending
    <2>1. a \in Nat /\ d \in Nat /\ p \in Nat /\ b = a + n
      BY <1>6, <1>7, InHandType
    <2>2. InHand(s, x) = b + d + p /\ InHand(t, x) = a + d + p
      BY <1>4 DEF InHand
    <2>. HIDE DEF a, b, d, p
    <2>3. b + d + p = (a + d + p) + n
      BY ONLY <2>1, <1>8
    <2>. QED
      BY <2>2, <2>3
  <1>10. n <= Carrying(s.sink, x)
    BY <1>6, <1>7, <1>8
  <1>11. Len(t.sink) <= Len(s.sink)
    BY <1>2, <1>4
  <1>12. f.kind = "Records" => f.n <= Carrying(s.sink, x)
    BY <1>10 DEF n
  <1>. QED
    BY <1>2, <1>3, <1>4, <1>5, <1>9, <1>11, <1>12 DEF n, f, t

\* What was taken counts as drained.
LEMMA DrainedShape ==
    ASSUME NEW s \in Consumer, NEW n \in 0 .. Window, s.drained + s.pending + n <= Window, NEW x
    PROVE  LET t == [s EXCEPT !.drained = @ + n] IN
           /\ t \in Consumer /\ t.phase = s.phase /\ t.at = s.at /\ t.overrun = s.overrun
           /\ t.sink = s.sink /\ t.drained + t.pending <= Window
           /\ InHand(t, x) = InHand(s, x) + n
  <1>. DEFINE t == [s EXCEPT !.drained = @ + n]
  <1>1. s.drained \in Nat /\ s.pending \in Nat /\ Carrying(s.sink, x) \in Nat /\ n \in Nat /\ Window \in Nat
    BY InHandType, Limit
  <1>2. s.drained + n \in 0 .. Window
    BY <1>1
  <1>3. /\ t \in Consumer /\ t.phase = s.phase /\ t.at = s.at /\ t.overrun = s.overrun
        /\ t.sink = s.sink /\ t.pending = s.pending /\ t.drained = s.drained + n
    BY <1>2 DEF Consumer
  <1>. HIDE DEF t
  <1>4. t.drained + t.pending <= Window
    BY <1>1, <1>3
  <1>5. InHand(t, x) = InHand(s, x) + n
    <2>. DEFINE a == Carrying(s.sink, x)
                d == s.drained
                p == s.pending
    <2>1. a \in Nat /\ d \in Nat /\ p \in Nat /\ n \in Nat
      BY <1>1
    <2>2. InHand(s, x) = a + d + p /\ InHand(t, x) = a + (d + n) + p
      BY <1>3 DEF InHand
    <2>. HIDE DEF a, d, p
    <2>3. a + (d + n) + p = (a + d + p) + n
      BY ONLY <2>1
    <2>. QED
      BY <2>2, <2>3
  <1>. QED
    BY <1>3, <1>4, <1>5 DEF t

LEMMA PollEffect ==
    ASSUME IInv, NEW x \in Streams, Poll(x)
    PROVE  Typed' /\ Consumes(x, {"Credit"})
  <1>. DEFINE c == sub[x].at
              s == sub[x]
              f == Head(s.sink)
              q == conn[c].cmds
              s0 == Earned(s)
              q0 == GrantSent(x, s0, q)
              g == Granted(s0, q)
              s1 == [g EXCEPT !.sink = Tail(@)]
              sd == [s1 EXCEPT !.drained = @ + f.n]
              s2 == Earned(sd)
              more == Granting(q, x) + InHand(s, x)
  <1>1. s.phase = "open" /\ s.sink # << >>
    BY DEF Poll
  <1>2. /\ s \in Consumer /\ c \in Conns /\ q \in Seq(Message) /\ s.sink \in Seq(Answer)
        /\ s.drained + s.pending <= Window /\ s.drained \in 0 .. Window /\ s.pending \in 0 .. Window
        /\ Carrying(s.sink, x) \in Nat
        /\ s.drained + s.pending + Carrying(s.sink, x) <= Window
    BY <1>1, InHandIs
  <1>3. f.id = x /\ server[x].phase # "none"
    <2>1. f \in ToSet(s.sink)
      BY <1>1, <1>2, SetTail
    <2>. QED
      BY <1>1, <2>1 DEF IInv, Streaming, Flows, Served
  <1>4. /\ sub' = [sub EXCEPT ![x] = IF f.kind \in Final THEN Quit(s1, "ended")
                                      ELSE IF f.kind = "Records" THEN Granted(s2, q0) ELSE s1]
        /\ conn' = [conn EXCEPT ![c].cmds = IF f.kind = "Records" THEN GrantSent(x, s2, q0) ELSE q0]
        /\ UNCHANGED <<slot, call, server, executed, closed>>
    BY DEF Poll
  <1>5. /\ s0 \in Consumer /\ SameStream(s, s0) /\ s0.drained + s0.pending = s.drained + s.pending
        /\ InHand(s0, x) = InHand(s, x)
    BY <1>2, EarnedShape, EarnedHolds
  <1>. HIDE DEF c, q, s, f, s0
  <1>6. /\ g \in Consumer /\ SameStream(s0, g) /\ q0 \in Seq(Message)
        /\ g.drained = s0.drained /\ g.pending <= s0.pending
        /\ Granting(q0, x) + InHand(g, x) = Granting(q, x) + InHand(s0, x)
        /\ Longer(q, q0, x, {"Credit"}) /\ Granting(q0, x) \in Nat
    BY <1>2, <1>5, GrantShape, GrantHolds, LongerSame
  <1>. HIDE DEF g, q0
  <1>7. g.sink = s.sink /\ g.phase = "open" /\ g.at = c /\ g.overrun = s.overrun
    BY <1>1, <1>5, <1>6 DEF SameStream, c, s
  <1>8. /\ s1 \in Consumer /\ s1.phase = "open" /\ s1.at = c /\ s1.overrun = s.overrun
        /\ s1.drained = g.drained /\ s1.pending = g.pending
        /\ ToSet(s1.sink) \subseteq ToSet(s.sink) /\ Len(s1.sink) <= Len(s.sink)
        /\ InHand(g, x) = InHand(s1, x) + (IF f.kind = "Records" THEN f.n ELSE 0)
        /\ f.n \in 0 .. Window /\ (f.kind = "Records" => f.n <= Carrying(s.sink, x))
    <2>1. g.sink # << >> /\ Head(g.sink) = f /\ Head(g.sink).id = x /\ g \in Consumer
      BY <1>1, <1>3, <1>6, <1>7 DEF f
    <2>2. /\ s1 \in Consumer /\ s1.phase = g.phase /\ s1.at = g.at /\ s1.overrun = g.overrun
          /\ s1.drained = g.drained /\ s1.pending = g.pending
          /\ ToSet(s1.sink) \subseteq ToSet(g.sink) /\ Len(s1.sink) <= Len(g.sink)
          /\ InHand(g, x) = InHand(s1, x) +
                (IF Head(g.sink).kind = "Records" THEN Head(g.sink).n ELSE 0)
          /\ Head(g.sink).n \in 0 .. Window
          /\ Head(g.sink).kind = "Records" => Head(g.sink).n <= Carrying(g.sink, x)
      BY ONLY <2>1, TakenShape
    <2>. HIDE DEF s1
    <2>. QED
      BY <1>7, <2>1, <2>2
  <1>. HIDE DEF s1
  <1>9. Granting(q0, x) + InHand(g, x) = more /\ more \in Nat /\ InHand(s1, x) \in Nat
    <2>1. Granting(q, x) \in Nat
      BY <1>2, Worths, Limit, SumType DEF Granting
    <2>2. InHand(s, x) \in Nat /\ InHand(s1, x) \in Nat
      BY <1>2, <1>8, InHandType
    <2>. QED
      BY <1>5, <1>6, <2>1, <2>2
  <1>. HIDE DEF more
  <1>10. CASE f.kind \in Final
    <2>. DEFINE t == Quit(s1, "ended")
    <2>1. /\ t \in Consumer /\ t.phase = "ended" /\ t.at = c /\ t.overrun = s.overrun
          /\ ToSet(t.sink) = {} /\ Len(t.sink) = 0 /\ InHand(t, x) = 0
      BY <1>8, QuitShape
    <2>2. sub' = [sub EXCEPT ![x] = t] /\ conn' = [conn EXCEPT ![c].cmds = q0]
      BY <1>4, <1>10 DEF Final
    <2>. HIDE DEF t
    <2>3. Granting(q0, x) + InHand(t, x) <= more
      <3>1. InHand(g, x) \in Nat
        BY <1>6, InHandType
      <3>. QED
        BY <1>6, <1>9, <2>1, <3>1
    <2>4. Len(t.sink) <= Len(s.sink)
      BY <1>2, <2>1
    <2>. QED
      BY <1>1, <1>3, <1>4, <1>6, <2>1, <2>2, <2>3, <2>4, PollLeaves DEF c, s, q, more
  <1>11. CASE f.kind = "Records"
    <2>1. s1.drained + s1.pending + f.n <= Window
      <3>1. /\ s0.drained \in Nat /\ s0.pending \in Nat /\ g.pending \in Nat /\ g.drained \in Nat
            /\ s.drained \in Nat /\ s.pending \in Nat /\ f.n \in Nat /\ Window \in Nat
        BY <1>2, <1>5, <1>6, <1>8, InHandType, Limit
      <3>2. g.drained = s0.drained /\ g.pending <= s0.pending
        BY <1>6
      <3>3. s0.drained + s0.pending = s.drained + s.pending
        BY <1>5
      <3>4. f.n <= Carrying(s.sink, x) /\ Carrying(s.sink, x) \in Nat
            /\ s.drained + s.pending + Carrying(s.sink, x) <= Window
        BY <1>2, <1>8, <1>11
      <3>5. g.drained + g.pending + f.n <= Window
        BY <3>1, <3>2, <3>3, <3>4
      <3>. QED
        BY <1>8, <3>5
    <2>2. /\ sd \in Consumer /\ sd.phase = "open" /\ sd.at = c /\ sd.overrun = s.overrun
          /\ sd.sink = s1.sink /\ sd.drained + sd.pending <= Window
          /\ InHand(sd, x) = InHand(s1, x) + f.n
      BY <1>8, <2>1, DrainedShape
    <2>. HIDE DEF sd
    <2>3. s2 \in Consumer /\ SameStream(sd, s2) /\ InHand(s2, x) = InHand(sd, x)
      BY <2>2, EarnedShape, EarnedHolds
    <2>. HIDE DEF s2
    <2>. DEFINE t == Granted(s2, q0)
                r == GrantSent(x, s2, q0)
    <2>4. /\ t \in Consumer /\ SameStream(s2, t) /\ Longer(q, r, x, {"Credit"})
          /\ Granting(r, x) + InHand(t, x) = Granting(q0, x) + InHand(s2, x)
      BY <1>2, <1>6, <2>3, GrantShape, GrantHolds
    <2>5. sub' = [sub EXCEPT ![x] = t] /\ conn' = [conn EXCEPT ![c].cmds = r]
      <3>1. f.kind \notin Final
        BY <1>11 DEF Final
      <3>. QED
        BY <1>4, <1>11, <3>1
    <2>. HIDE DEF t, r
    <2>6. /\ t.phase = "open" /\ t.at = c /\ t.overrun = s.overrun /\ t.sink = s1.sink
      BY <2>2, <2>3, <2>4 DEF SameStream
    <2>7. Granting(r, x) + InHand(t, x) = more
      BY <1>8, <1>9, <1>11, <2>2, <2>3, <2>4
    <2>8. Granting(r, x) + InHand(t, x) <= more
      BY <1>9, <2>7
    <2>. QED
      BY <1>1, <1>3, <1>4, <1>8, <2>4, <2>5, <2>6, <2>7, <2>8, PollLeaves DEF c, s, q, more
  <1>12. CASE f.kind \notin Final /\ f.kind # "Records"
    <2>1. sub' = [sub EXCEPT ![x] = s1] /\ conn' = [conn EXCEPT ![c].cmds = q0]
      BY <1>4, <1>12
    <2>2. Granting(q0, x) + InHand(s1, x) = more
      BY <1>8, <1>9, <1>12
    <2>3. Granting(q0, x) + InHand(s1, x) <= more
      BY <1>9, <2>2
    <2>. QED
      BY <1>1, <1>3, <1>4, <1>6, <1>8, <2>1, <2>2, <2>3, PollLeaves DEF c, s, q, more
  <1>. QED
    BY <1>10, <1>11, <1>12

\* A consumer that is through: what is in hand is given up.
Quits(x, t, kinds) ==
    /\ t \in Consumer /\ sub[x].phase \in {"open", "ended"} /\ kinds \subseteq {"Cancel", "Forget"}
    /\ conn' \in [Conns -> Wire] /\ Queues(sub[x].at, x, kinds)
    /\ Granting(conn'[sub[x].at].cmds, x) = Granting(conn[sub[x].at].cmds, x)
    /\ sub' = [sub EXCEPT ![x] = t] /\ UNCHANGED <<slot, call, server, executed, closed>>
    /\ t.at = sub[x].at /\ t.overrun = sub[x].overrun /\ t.phase \in {"ended", "dropped"}
    /\ t.sink = << >> /\ t.drained = 0 /\ t.pending = 0
    /\ kinds # {} => t.phase = "dropped"
    /\ t.phase = "dropped" /\ Running(sub[x].at) => Forgets(sub[x].at, x)

LEMMA QuitLeaves ==
    ASSUME IInv, NEW x \in Streams, NEW t, NEW kinds, Quits(x, t, kinds)
    PROVE  Typed' /\ Consumes(x, kinds)
  <1>1. /\ sub[x].at \in Conns /\ Typed /\ sub[x] \in Consumer
        /\ Granting(conn[sub[x].at].cmds, x) \in Nat
        /\ Carrying(sub[x].sink, x) \in Nat /\ sub[x].sink \in Seq(Answer)
    BY InHandIs DEF IInv, Quits
  <1>2. sub'[x] = t /\ (\A y \in Streams : y # x => sub'[y] = sub[y]) /\ sub' \in [Streams -> Consumer]
    BY <1>1 DEF Typed, Quits
  <1>3. Typed'
    BY <1>1, <1>2 DEF Typed, Quits
  <1>4. InHand(t, x) = 0 /\ ToSet(t.sink) = {} /\ Len(t.sink) = 0
    BY SumEmpty, NothingIn DEF InHand, Carrying, Quits
  <1>5. Len(t.sink) <= Len(sub[x].sink)
    BY <1>1, <1>4
  <1>6. InHand(sub[x], x) \in Nat
    BY <1>1, InHandType
  <1>7. Granting(conn'[sub[x].at].cmds, x) + InHand(t, x)
          <= Granting(conn[sub[x].at].cmds, x) + InHand(sub[x], x)
    BY <1>1, <1>4, <1>6 DEF Quits
  <1>8. kinds \subseteq {"Credit", "Cancel", "Forget"} /\ "Credit" \notin kinds
    BY DEF Quits
  <1>9. "Cancel" \in kinds \/ "Forget" \in kinds => t.phase = "dropped"
    BY DEF Quits
  <1>10. t.phase # "open" /\ t.phase \in {"open", "ended", "dropped"}
    BY DEF Quits
  <1>11. Consumes(x, kinds)
    BY <1>1, <1>2, <1>4, <1>5, <1>7, <1>8, <1>9, <1>10 DEF Consumes, Quits
  <1>. QED
    BY <1>3, <1>11

LEMMA PollEndsEffect ==
    ASSUME IInv, NEW x \in Streams, PollEnds(x)
    PROVE  Typed' /\ Consumes(x, {})
  <1>. DEFINE t == Quit(sub[x], "ended")
  <1>1. /\ sub[x].phase = "open" /\ sub' = [sub EXCEPT ![x] = t]
        /\ UNCHANGED <<slot, conn, call, server, executed, closed>>
    BY DEF PollEnds
  <1>2. sub[x].at \in Conns /\ sub[x] \in Consumer /\ Typed
    BY <1>1, InHandIs DEF IInv
  <1>3. /\ t \in Consumer /\ t.phase = "ended" /\ t.at = sub[x].at /\ t.overrun = sub[x].overrun
        /\ t.sink = << >> /\ t.drained = 0 /\ t.pending = 0
    BY <1>2, QuitShape
  <1>. HIDE DEF t
  <1>4. Queues(sub[x].at, x, {}) /\ conn' \in [Conns -> Wire]
    BY <1>1, <1>2, QueuesNothing DEF Typed
  <1>5. Granting(conn'[sub[x].at].cmds, x) = Granting(conn[sub[x].at].cmds, x)
    BY <1>1
  <1>6. Quits(x, t, {})
    BY <1>1, <1>3, <1>4, <1>5 DEF Quits
  <1>. QED
    BY <1>6, QuitLeaves

LEMMA DropStreamEffect ==
    ASSUME IInv, NEW x \in Streams, DropStream(x)
    PROVE  Typed' /\ Consumes(x, {"Cancel", "Forget"})
  <1>. DEFINE c == sub[x].at
              q == conn[c].cmds
              m == Command("Cancel", x, 0)
              e == Command("Forget", x, 0)
              q0 == IF sub[x].phase = "ended" THEN q ELSE TrySend(q, m)
              l == sub[x].phase = "open" /\ Len(q) = Queue
              t == [Quit(sub[x], "dropped") EXCEPT !.lost = l]
              kinds == {"Cancel", "Forget"}
  <1>1. /\ sub[x].phase \in {"open", "ended"} /\ sub' = [sub EXCEPT ![x] = t]
        /\ conn' = IF Running(c) THEN [conn EXCEPT ![c] = Forgotten(conn[c], q0, x)] ELSE conn
        /\ UNCHANGED <<slot, call, server, executed, closed>>
    BY DEF DropStream
  <1>2. c \in Conns /\ sub[x] \in Consumer /\ q \in Seq(Message) /\ Typed /\ Limits
    BY <1>1, InHandIs DEF IInv
  <1>3. /\ t \in Consumer /\ t.phase = "dropped" /\ t.at = c /\ t.overrun = sub[x].overrun
        /\ t.sink = << >> /\ t.drained = 0 /\ t.pending = 0
    <2>. DEFINE z == Quit(sub[x], "dropped")
    <2>1. /\ z \in Consumer /\ z.phase = "dropped" /\ z.at = c /\ z.overrun = sub[x].overrun
          /\ z.sink = << >> /\ z.drained = 0 /\ z.pending = 0
      BY <1>2, QuitShape
    <2>2. l \in BOOLEAN
      OBVIOUS
    <2>3. t = [z EXCEPT !.lost = l]
      OBVIOUS
    <2>. HIDE DEF z, l, t
    <2>. QED
      BY ONLY <2>1, <2>2, <2>3 DEF Consumer
  <1>. HIDE DEF t
  <1>4. /\ m \in Message /\ m.id = x /\ m.kind = "Cancel" /\ e \in Message /\ e.id = x
        /\ e.kind = "Forget" /\ x \in Exchanges
    BY CommandType DEF Command, Exchanges
  <1>5. Longer(q, q0, x, kinds) /\ q0 \in Seq(Message) /\ Granting(q0, x) = Granting(q, x)
    <2>1. Longer(q, q, x, kinds) /\ Len(q) <= Queue
      BY <1>2, LongerSame DEF Limits
    <2>2. m.kind \in kinds
      BY <1>4
    <2>. HIDE DEF m, kinds, q
    <2>3. Longer(q, TrySend(q, m), x, kinds)
      BY <1>2, <1>4, <2>1, <2>2, TrySendShape
    <2>4. Granting(TrySend(q, m), x) = Granting(q, x)
      BY <1>2, <1>4, LongerWorth
    <2>5. Longer(q, q0, x, kinds) /\ Granting(q0, x) = Granting(q, x)
      BY <2>1, <2>3, <2>4
    <2>. QED
      BY <2>5 DEF Longer
  <1>6. "Forget" \in kinds /\ kinds \subseteq {"Cancel", "Forget"}
    OBVIOUS
  <1>. HIDE DEF kinds, q0, m
  <1>7. ASSUME Running(c) PROVE Typed' /\ Consumes(x, kinds)
    <2>1. /\ conn' \in [Conns -> Wire] /\ Queues(c, x, kinds) /\ Forgets(c, x)
          /\ conn'[c].cmds = TrySend(q0, e)
      <3>1. conn' = [conn EXCEPT ![c] = Forgotten(conn[c], q0, x)]
        BY <1>1, <1>7
      <3>2. Typed /\ Limits /\ c \in Conns /\ x \in Exchanges /\ "Forget" \in kinds
        BY <1>2, <1>4, <1>6
      <3>3. Longer(conn[c].cmds, q0, x, kinds)
        BY <1>5
      <3>. HIDE DEF c
      <3>. QED
        BY ONLY <3>1, <3>2, <3>3, ForgottenEffect
    <2>2. Granting(conn'[c].cmds, x) = Granting(q, x)
      <3>. HIDE DEF e
      <3>. QED
        BY <1>4, <1>5, <2>1, LongerWorth
    <2>3. Quits(x, t, kinds)
      BY <1>1, <1>3, <1>6, <2>1, <2>2 DEF Quits
    <2>. QED
      BY <2>3, QuitLeaves
  <1>8. ASSUME ~Running(c) PROVE Typed' /\ Consumes(x, kinds)
    <2>1. UNCHANGED conn
      BY <1>1, <1>8
    <2>2. conn' \in [Conns -> Wire] /\ Queues(c, x, kinds)
      BY <1>2, <2>1, QueuesNothing DEF Typed
    <2>3. Granting(conn'[c].cmds, x) = Granting(q, x)
      BY <2>1
    <2>4. Quits(x, t, kinds)
      BY <1>1, <1>3, <1>6, <1>8, <2>2, <2>3 DEF Quits
    <2>. QED
      BY <2>4, QuitLeaves
  <1>9. Typed' /\ Consumes(x, kinds)
    BY <1>7, <1>8
  <1>. QED
    BY <1>9 DEF kinds

\* A subscription asks for its stream.
Subscribes(x, c) ==
    /\ c \in Conns /\ Running(c) /\ sub[x].phase = "idle" /\ Len(conn[c].cmds) < Queue
    /\ Elsewhere(c)
    /\ conn'[c] = [conn[c] EXCEPT !.cmds = Append(@, Command("Stream", x, Window))]
    /\ \A y \in Streams : y # x => sub'[y] = sub[y]
    /\ sub'[x] = [sub[x] EXCEPT !.phase = "open", !.at = c]
    /\ UNCHANGED <<slot, call, server, executed, closed>>

LEMMA OpenStreamEffect ==
    ASSUME Typed, NEW x \in Streams, OpenStream(x)
    PROVE  Typed' /\ \E c \in Conns : Subscribes(x, c)
  <1>1. PICK s \in Pick :
           /\ Running(slot[s].published) /\ Len(conn[slot[s].published].cmds) < Queue
           /\ conn' = [conn EXCEPT ![slot[s].published].cmds =
                                     Append(@, Command("Stream", x, Window))]
           /\ sub' = [sub EXCEPT ![x].phase = "open", ![x].at = slot[s].published]
    BY DEF OpenStream
  <1>. DEFINE c == slot[s].published
              m == Command("Stream", x, Window)
              w == [conn[c] EXCEPT !.cmds = Append(@, m)]
              t == [sub[x] EXCEPT !.phase = "open", !.at = c]
  <1>2. sub[x].phase = "idle" /\ UNCHANGED <<slot, call, server, executed, closed>>
    BY DEF OpenStream
  <1>3. c \in Conns
    BY DEF Pick, Live, Typed
  <1>4. m \in Message
    BY CommandType, Limit
  <1>5. /\ conn' = [conn EXCEPT ![c].cmds = Append(@, m)] /\ Running(c) /\ Len(conn[c].cmds) < Queue
        /\ sub' = [sub EXCEPT ![x].phase = "open", ![x].at = c]
    BY <1>1
  <1>. HIDE DEF c, m
  <1>6. w \in Wire
    <2>1. Append(conn[c].cmds, m) \in Seq(Message)
      BY <1>3, <1>4, WireType
    <2>. QED
      BY <1>3, <2>1, WireType DEF Wire
  <1>7. conn'[c] = w /\ Elsewhere(c)
    BY <1>3, <1>5 DEF Typed, Elsewhere
  <1>8. conn' \in [Conns -> Wire]
    BY <1>3, <1>5, <1>6, <1>7 DEF Typed, Elsewhere
  <1>9. t \in Consumer
    BY <1>3 DEF Typed, Consumer
  <1>10. sub'[x] = t /\ \A y \in Streams : y # x => sub'[y] = sub[y]
    BY <1>5 DEF Typed
  <1>11. sub' \in [Streams -> Consumer]
    <2>. HIDE DEF t
    <2>1. \A y \in Streams : sub'[y] \in Consumer
      BY <1>9, <1>10 DEF Typed
    <2>. QED
      BY <1>5, <2>1 DEF Typed
  <1>12. Subscribes(x, c)
    BY <1>2, <1>3, <1>5, <1>7, <1>10 DEF Subscribes, m
  <1>. QED
    BY <1>2, <1>3, <1>8, <1>11, <1>12 DEF Typed

-----------------------------------------------------------------------------
(* Steps that make nothing known. *)

\* What a connection knows of, from one state to the next.
Narrow(c) == /\ OnItsWay(c)' \subseteq OnItsWay(c) /\ Arriving(c)' \subseteq Arriving(c)
             /\ Owed(c)' \subseteq Owed(c)
Recedes(c) == /\ Asked(c)' \subseteq Asked(c) /\ Held(c)' \cap Attempts \subseteq Held(c)
              /\ Owed(c)' \subseteq Owed(c)
              /\ \A f \in Arriving(c)' : f.id \in Attempts => f \in Arriving(c)
Fades == \A c \in Conns : Recedes(c)

LEMMA StillAt ==
    ASSUME NEW c, conn'[c] = conn[c]
    PROVE  /\ OnItsWay(c)' = OnItsWay(c) /\ Arriving(c)' = Arriving(c) /\ Owed(c)' = Owed(c)
           /\ Asked(c)' = Asked(c) /\ Held(c)' = Held(c) /\ Named(c)' = Named(c)
           /\ Narrow(c) /\ Recedes(c)
  <1>1. OnItsWay(c)' = OnItsWay(c) /\ Arriving(c)' = Arriving(c) /\ Owed(c)' = Owed(c)
    BY DEF OnItsWay, Arriving, Owed
  <1>2. Asked(c)' = Asked(c)
    BY <1>1 DEF Asked
  <1>3. Held(c)' = Held(c) /\ Named(c)' = Named(c)
    BY <1>1, <1>2 DEF Held, Named
  <1>. QED
    BY <1>1, <1>2, <1>3 DEF Narrow, Recedes

LEMMA NarrowRecedes ==
    ASSUME NEW c, Narrow(c)
    PROVE  /\ Recedes(c) /\ Named(c)' \subseteq Named(c) /\ Held(c)' \subseteq Held(c)
           /\ Asked(c)' \subseteq Asked(c)
  <1>1. Asked(c)' \subseteq Asked(c)
    BY DEF Asked, Opens, Narrow
  <1>2. Ids(OnItsWay(c))' \subseteq Ids(OnItsWay(c)) /\ Ids(Arriving(c))' \subseteq Ids(Arriving(c))
    BY DEF Ids, Narrow
  <1>3. Owed(c) \subseteq Held(c) /\ Owed(c) \subseteq Named(c)
    BY AskedOf DEF Owed, Held, Named
  <1>4. conn'[c].waiters \subseteq Owed(c)
    BY DEF Narrow, Owed
  <1>5. Held(c)' \subseteq Held(c)
    <2>1. Held(c)' = Asked(c)' \cup Ids(Arriving(c))' \cup conn'[c].waiters
      BY DEF Held
    <2>. QED
      BY <1>1, <1>2, <1>3, <1>4, <2>1 DEF Held
  <1>6. Named(c)' \subseteq Named(c)
    <2>1. Named(c)' = Ids(OnItsWay(c))' \cup Ids(Arriving(c))' \cup conn'[c].waiters
      BY DEF Named
    <2>. QED
      BY <1>2, <1>3, <1>4, <2>1 DEF Named
  <1>. QED
    BY <1>1, <1>5, <1>6 DEF Recedes, Narrow

LEMMA FadesAt ==
    ASSUME NEW c \in Conns, Elsewhere(c), Recedes(c)
    PROVE  Fades
  BY StillAt DEF Elsewhere, Fades

\* Whose attempts go on as they were, or are new.
Onward ==
    \A k \in Calls :
        /\ call[k].tries <= call'[k].tries
        /\ call'[k].phase = "waiting" =>
              call[k].phase = "waiting" /\ call'[k].at = call[k].at /\ call'[k].tries = call[k].tries
        /\ call'[k].phase = "sending" =>
              \/ call[k].phase = "sending" /\ call'[k].tries = call[k].tries
              \/ call[k].tries < call'[k].tries

LEMMA SpentKeeps ==
    ASSUME IInv, Typed', Fades, Onward, executed' = executed
    PROVE  Spent'
  <1>1. Typed /\ Spent
    BY DEF IInv
  <1>. SUFFICES ASSUME NEW k \in Calls, NEW t \in 1 .. Retries + 1, Known(<<k, t>>)'
                PROVE  /\ t <= call'[k].tries
                       /\ call'[k].phase = "sending" => t < call'[k].tries
    BY DEF Spent
  <1>2. <<k, t>> \in Attempts
    BY DEF Attempts
  <1>3. Known(<<k, t>>)
    <2>1. ASSUME NEW c \in Conns, <<k, t>> \in Held(c)' PROVE <<k, t>> \in Held(c)
      BY <1>2, <2>1 DEF Fades, Recedes
    <2>. QED
      BY <2>1 DEF Known
  <1>4. t <= call[k].tries /\ (call[k].phase = "sending" => t < call[k].tries)
    BY <1>1, <1>3 DEF Spent
  <1>5. call[k].tries \in Nat /\ call'[k].tries \in Nat /\ t \in Nat
    <2>1. call[k].tries \in 0 .. Retries + 1 /\ call'[k].tries \in 0 .. Retries + 1
      BY <1>1 DEF Typed, CallState
    <2>. QED
      BY <2>1, Limit
  <1>6. call[k].tries <= call'[k].tries
    BY DEF Onward
  <1>7. CASE call'[k].phase = "sending"
    <2>1. \/ call[k].phase = "sending" /\ call'[k].tries = call[k].tries
          \/ call[k].tries < call'[k].tries
      BY <1>7 DEF Onward
    <2>. QED
      BY <1>4, <1>5, <1>6, <2>1
  <1>8. CASE call'[k].phase # "sending"
    BY <1>4, <1>5, <1>6, <1>8
  <1>. QED
    BY <1>7, <1>8

LEMMA CallHomesKeeps ==
    ASSUME IInv, Typed', Placed', Fades, Onward
    PROVE  CallHomes'
  <1>. SUFFICES ASSUME NEW c \in Conns, NEW k \in Calls, call'[k].phase = "waiting",
                       Id(k)' \in Held(c)'
                PROVE  call'[k].at = c
    BY DEF CallHomes
  <1>1. call[k].phase = "waiting" /\ call'[k].at = call[k].at /\ Id(k)' = Id(k)
    BY DEF Onward, Id
  <1>2. Id(k) \in Attempts
    BY <1>1, IdType DEF IInv
  <1>3. Id(k) \in Held(c)
    BY <1>1, <1>2 DEF Fades, Recedes
  <1>. QED
    BY <1>1, <1>3 DEF IInv, Homes, CallHomes

LEMMA AskedType ==
    ASSUME Typed, NEW c \in Conns
    PROVE  Asked(c) \subseteq Exchanges /\ Named(c) \subseteq Exchanges /\ Held(c) \subseteq Exchanges
  <1>1. Ids(OnItsWay(c)) \subseteq Exchanges
    BY WireType, Worths DEF Ids
  <1>2. Ids(Arriving(c)) \subseteq Exchanges
    BY WireType, Worths DEF Ids
  <1>. QED
    BY <1>1, <1>2, AskedOf, WireType DEF Named

LEMMA ArrivingNext ==
    ASSUME Typed', NEW c \in Conns
    PROVE  Arriving(c)' \subseteq Answer
  <1>1. conn'[c] \in Wire
    BY DEF Typed
  <1>2. conn'[c].inbound \in Seq(Answer)
    BY <1>1 DEF Wire
  <1>. QED
    BY <1>2, ElementOf DEF Arriving

LEMMA ExchangedKeeps ==
    ASSUME IInv, Typed', Fades, executed' = executed
    PROVE  Exchanged'
  <1>1. Typed /\ Exchanged
    BY DEF IInv
  <1>2. ASSUME NEW c \in Conns, NEW d \in Conns, NEW id, id \in Ids(Arriving(c))', id \in Asked(d)'
        PROVE  id \in Streams
    <2>1. id \in Asked(d)
      BY <1>2 DEF Fades, Recedes
    <2>2. id \in Exchanges
      BY <1>1, <2>1, AskedType
    <2>3. PICK f \in Arriving(c)' : f.id = id
      BY <1>2 DEF Ids
    <2>4. CASE id \in Attempts
      <3>1. f \in Arriving(c)
        BY <2>3, <2>4 DEF Fades, Recedes
      <3>2. id \in Ids(Arriving(c))
        BY <2>3, <3>1 DEF Ids
      <3>. QED
        BY <1>1, <2>1, <3>2 DEF Exchanged
    <2>. QED
      BY <2>2, <2>4 DEF Exchanges
  <1>3. ASSUME NEW c \in Conns PROVE executed' \cap Asked(c)' = {}
    BY <1>1 DEF Fades, Recedes, Exchanged
  <1>4. ASSUME NEW c \in Conns, NEW f \in Arriving(c)'
        PROVE  /\ f.kind = "Ack" => f.id \in executed'
               /\ f.kind \in {"Refused", "Fatal"} => f.id \notin executed'
    <2>1. f \in Answer
      BY ArrivingNext
    <2>2. CASE f.kind \in Outcomes
      <3>1. f \in Arriving(c)
        BY <2>1, <2>2 DEF Fades, Recedes, Answer
      <3>. QED
        BY <1>1, <3>1 DEF Exchanged
    <2>. QED
      BY <2>2 DEF Outcomes
  <1>5. \A c, d \in Conns : Ids(Arriving(c))' \cap Asked(d)' \subseteq Streams
    BY <1>2
  <1>. QED
    BY <1>3, <1>4, <1>5 DEF Exchanged

LEMMA TruthfulKeeps ==
    ASSUME IInv, Fades, NEW k \in Calls, call'[k] = call[k], executed' = executed
    PROVE  Truthful(k)'
  <1>1. Truthful(k)
    BY DEF IInv, Answering
  <1>2. \A c \in Conns : Asked(c)' \subseteq Asked(c) /\ Owed(c)' \subseteq Owed(c)
    BY DEF Fades, Recedes
  <1>3. Told(k)' = Told(k) /\ Id(k)' = Id(k)
    BY DEF Told, Id
  <1>. QED
    BY <1>1, <1>2, <1>3 DEF Truthful

LEMMA AnsweringKeeps ==
    ASSUME IInv, Fades, UNCHANGED <<call, executed>>
    PROVE  Answering'
  BY TruthfulKeeps DEF Answering

LEMMA ApartAt ==
    ASSUME IInv, NEW c \in Conns, Elsewhere(c), Fades, Single(conn'[c])
    PROVE  Apart'
  <1>1. Apart
    BY DEF IInv
  <1>2. \A d \in Conns : Single(conn'[d])
    BY <1>1 DEF Apart, Elsewhere
  <1>3. \A d, e \in Conns : d # e => Asked(d)' \cap Asked(e)' = {}
    BY <1>1 DEF Apart, Fades, Recedes
  <1>. QED
    BY <1>2, <1>3 DEF Apart

\* Steps at a connection that make known, at most, what already has its home there.
Settles(c) ==
    /\ Elsewhere(c) /\ Recedes(c) /\ Single(conn'[c]) /\ Onward /\ executed' = executed
    /\ \A x \in Streams : sub'[x].at = sub[x].at
    /\ \A x \in Streams : x \in Named(c)' => x \in Named(c) \/ sub[x].at = c

LEMMA SettledKeeps ==
    ASSUME IInv, Typed', Placed', NEW c \in Conns, Settles(c)
    PROVE  Apart' /\ Homes' /\ Spent' /\ Exchanged' /\ Fades
  <1>1. Elsewhere(c) /\ Recedes(c) /\ Single(conn'[c]) /\ Onward /\ executed' = executed
    BY DEF Settles
  <1>2. Fades
    BY <1>1, FadesAt
  <1>3. Apart' /\ Spent' /\ Exchanged' /\ CallHomes'
    BY <1>1, <1>2, ApartAt, SpentKeeps, ExchangedKeeps, CallHomesKeeps
  <1>4. StreamHomes'
    <2>1. \A d \in Conns : \A x \in Streams : x \in Named(d) => sub[x].at = d
      BY DEF IInv, Homes, StreamHomes
    <2>2. ASSUME NEW d \in Conns, NEW x \in Streams, x \in Named(d)' PROVE sub'[x].at = d
      <3>1. sub'[x].at = sub[x].at
        BY DEF Settles
      <3>2. CASE d = c
        BY <2>1, <2>2, <3>1, <3>2 DEF Settles
      <3>3. CASE d # c
        <4>1. Named(d)' = Named(d)
          BY <1>1, <3>3, StillAt DEF Elsewhere
        <4>. QED
          BY <2>1, <2>2, <3>1, <4>1
      <3>. QED
        BY <3>2, <3>3
    <2>. QED
      BY <2>2 DEF StreamHomes
  <1>. QED
    BY <1>2, <1>3, <1>4 DEF Homes

\* Steps that add nothing to any queue but what was there.
LEMMA NarrowSettles ==
    ASSUME NEW c \in Conns, Elsewhere(c), Narrow(c), Single(conn'[c]), Onward,
           executed' = executed, \A x \in Streams : sub'[x].at = sub[x].at
    PROVE  Settles(c)
  BY NarrowRecedes DEF Settles

\* Steps of the callers' and the connections' tasks by which no attempt begins.
LEMMA OnwardSame ==
    ASSUME Typed, UNCHANGED call
    PROVE  Onward
  <1>1. \A k \in Calls : call[k].tries \in 0 .. Retries + 1
    BY DEF Typed, CallState
  <1>2. \A k \in Calls : call[k].tries <= call[k].tries
    BY <1>1, Limit
  <1>. QED
    BY <1>2 DEF Onward

-----------------------------------------------------------------------------
(* Streams that a step has nothing to do with. *)

\* Nothing about the stream comes to the connection, nor does the connection come up.
Quiet(c, x) ==
    /\ x \in Asked(c)' => x \in Asked(c)
    /\ conn'[c].alive => conn[c].alive \/ x \notin Asked(c)'
    /\ \A f \in Arriving(c)' : f.id = x => f \in Arriving(c)
    /\ \A m \in OnItsWay(c)' : m.id = x => m \in OnItsWay(c)

\* Its connection is not less ready for it, or has been cut.
Carries(c, x) ==
    /\ OnWire(conn'[c], x) <= OnWire(conn[c], x)
    /\ conn'[c].alive =>
          /\ conn[c].alive /\ OnWire(conn'[c], x) = OnWire(conn[c], x)
          /\ x \in Owed(c) => x \in Owed(c)' \/ sub[x].phase = "dropped"

\* The server has it as it was, or over with its connection.
Accounts(x) ==
    \/ server'[x] = server[x]
    \/ server'[x] = Over /\ sub[x].phase # "idle" /\ ~conn'[sub[x].at].alive

Steady(x) ==
    /\ sub'[x] = sub[x] /\ Accounts(x) /\ \A c \in Conns : Quiet(c, x)
    /\ sub[x].phase # "idle" => Carries(sub[x].at, x)

LEMMA NarrowQuiet ==
    ASSUME NEW c, Narrow(c), NEW x, conn'[c].alive => conn[c].alive
    PROVE  Quiet(c, x)
  BY NarrowRecedes DEF Quiet, Narrow

LEMMA OverIs == Over.phase = "ended" /\ Over.credit = 0 /\ Over.left = 0
  BY DEF Over

LEMMA SteadyFlows ==
    ASSUME IInv, StreamHomes', NEW x \in Streams, Steady(x)
    PROVE  Flows(x)'
  <1>1. Flows(x)
    BY DEF IInv, Streaming
  <1>2. Through(x) => Through(x)'
    BY OverIs DEF Through, Steady, Accounts
  <1>3. server'[x] = server[x] \/ (server'[x].phase = "ended" /\ server'[x].credit = 0)
    BY OverIs DEF Steady, Accounts
  <1>4. Served(x)'
    BY <1>1, <1>2, <1>3 DEF Flows, Served, Steady
  <1>5. ASSUME NEW c \in Conns PROVE Asking(c, x)' /\ Coming(c, x)' /\ Going(c, x)'
    <2>1. Quiet(c, x) /\ Asking(c, x) /\ Coming(c, x) /\ Going(c, x)
      BY <1>1 DEF Flows, Steady
    <2>2. sub'[x] = sub[x]
      BY DEF Steady
    <2>3. Asking(c, x)'
      <3>1. SUFFICES ASSUME x \in Asked(c)'
                     PROVE  /\ server'[x].phase # "live"
                            /\ conn'[c].alive /\ sub'[x].phase # "dropped" => server'[x].phase = "none"
        BY DEF Asking
      <3>2. CASE server'[x] = server[x]
        BY <2>1, <2>2, <3>1, <3>2 DEF Asking, Quiet
      <3>3. CASE server'[x] = Over /\ ~conn'[sub[x].at].alive
        <4>1. x \in Named(c)'
          <5>1. x \in Ids(OnItsWay(c))'
            BY <3>1 DEF Asked, Opens, Ids
          <5>. QED
            BY <5>1 DEF Named
        <4>2. sub'[x].at = c
          BY <4>1 DEF StreamHomes
        <4>. QED
          BY <2>2, <3>3, <4>2, OverIs
      <3>. QED
        BY <3>2, <3>3 DEF Steady, Accounts
    <2>4. Coming(c, x)' /\ Going(c, x)'
      BY <1>2, <1>3, <2>1, <2>2 DEF Coming, Going, Quiet
    <2>. QED
      BY <2>3, <2>4
  <1>. QED
    BY <1>4, <1>5 DEF Flows

LEMMA SteadyUp ==
    ASSUME IInv, NEW x \in Streams, Steady(x), Up(x)'
    PROVE  Up(x) /\ server'[x] = server[x] /\ sub[x].phase = "open" /\ conn'[sub[x].at].alive
  <1>1. /\ sub[x].phase = "open" /\ ~sub[x].overrun /\ conn'[sub[x].at].alive
        /\ server'[x].phase # "ended"
    BY DEF Up, Steady
  <1>2. server'[x] = server[x]
    BY <1>1, OverIs DEF Steady, Accounts
  <1>3. conn[sub[x].at].alive
    BY <1>1 DEF Steady, Carries
  <1>. QED
    BY <1>1, <1>2, <1>3 DEF Up

LEMMA SteadyHeard ==
    ASSUME IInv, NEW x \in Streams, Steady(x)
    PROVE  Heard(x)'
  <1>. SUFFICES ASSUME Up(x)' PROVE x \in Owed(sub[x].at)'
    BY DEF Heard, Steady
  <1>1. Up(x) /\ sub[x].phase = "open" /\ conn'[sub[x].at].alive
    BY SteadyUp
  <1>2. x \in Owed(sub[x].at)
    BY <1>1 DEF IInv, Listening, Heard
  <1>. QED
    BY <1>1, <1>2 DEF Steady, Carries

\* What the queues of a connection are worth.
LEMMA WireWorth ==
    ASSUME NEW w \in Wire, NEW x
    PROVE  /\ Granting(w.cmds, x) \in Nat /\ Granting(w.pending, x) \in Nat
           /\ Granting(w.sent, x) \in Nat /\ Carrying(w.inbound, x) \in Nat
           /\ OnWire(w, x) \in Nat
  <1>1. /\ w.cmds \in Seq(Message) /\ w.pending \in Seq(Message) /\ w.sent \in Seq(Message)
        /\ w.inbound \in Seq(Answer)
    BY RequestsAre DEF Wire
  <1>2. /\ Granting(w.cmds, x) \in Nat /\ Granting(w.pending, x) \in Nat
        /\ Granting(w.sent, x) \in Nat
    BY <1>1, Worths, SumType, Limit DEF Granting
  <1>3. Carrying(w.inbound, x) \in Nat
    BY <1>1, Worths, SumType, Limit DEF Carrying
  <1>. QED
    BY <1>2, <1>3 DEF OnWire

LEMMA WorthType ==
    /\ \A m \in Message : \A S, x : Worth(S, m, x) \in 0 .. Window
    /\ \A f \in Answer : \A S, x : Worth(S, f, x) \in 0 .. Window
    /\ \A n \in 0 .. Window : n \in Nat
  BY Worths, Limit DEF Worth

Grant(m, x) == Worth({"Stream", "Credit"}, m, x)
Cargo(f, x) == Worth({"Records"}, f, x)

LEMMA GrantingTail ==
    ASSUME NEW q \in Seq(Message), q # << >>, NEW x
    PROVE  /\ Granting(Tail(q), x) \in Nat /\ Grant(Head(q), x) \in Nat
           /\ Granting(q, x) = Granting(Tail(q), x) + Grant(Head(q), x)
  <1>1. \A m \in Message : m.n \in 0 .. Window
    BY Worths
  <1>2. Head(q) \in Message
    BY TailShape
  <1>. QED
    BY <1>1, <1>2, SumTail, WorthType, Limit DEF Granting, Grant

LEMMA GrantingAppend ==
    ASSUME NEW q \in Seq(Message), NEW m \in Message, NEW x
    PROVE  /\ Granting(q, x) \in Nat /\ Grant(m, x) \in Nat
           /\ Granting(Append(q, m), x) = Granting(q, x) + Grant(m, x)
  <1>1. \A n \in Message : n.n \in 0 .. Window
    BY Worths
  <1>. QED
    BY <1>1, SumAppend, SumType, WorthType, Limit DEF Granting, Grant

LEMMA CarryingTail ==
    ASSUME NEW q \in Seq(Answer), q # << >>, NEW x
    PROVE  /\ Carrying(Tail(q), x) \in Nat /\ Cargo(Head(q), x) \in Nat
           /\ Carrying(q, x) = Carrying(Tail(q), x) + Cargo(Head(q), x)
  <1>1. \A m \in Answer : m.n \in 0 .. Window
    BY Worths
  <1>2. Head(q) \in Answer
    BY TailShape
  <1>. QED
    BY <1>1, <1>2, SumTail, WorthType, Limit DEF Carrying, Cargo

LEMMA CarryingAppend ==
    ASSUME NEW q \in Seq(Answer), NEW f \in Answer, NEW x
    PROVE  /\ Carrying(q, x) \in Nat /\ Cargo(f, x) \in Nat
           /\ Carrying(Append(q, f), x) = Carrying(q, x) + Cargo(f, x)
  <1>1. \A n \in Answer : n.n \in 0 .. Window
    BY Worths
  <1>. QED
    BY <1>1, SumAppend, SumType, WorthType, Limit DEF Carrying, Cargo

LEMMA SteadyBalanced ==
    ASSUME IInv, Typed', NEW x \in Streams, Steady(x)
    PROVE  Balanced(x)'
  <1>. SUFFICES ASSUME sub[x].phase # "idle"
                PROVE  Total(x)' <= Window /\ (Up(x)' => Total(x)' = Window)
    BY DEF Balanced, Steady
  <1>. DEFINE c == sub[x].at
              h == InHand(sub[x], x)
              w == OnWire(conn[c], x)
              v == OnWire(conn'[c], x)
              e == server[x].credit
              f == server'[x].credit
  <1>1. c \in Conns /\ Typed
    BY AtType DEF IInv
  <1>2. h \in Nat /\ w \in Nat /\ e \in Nat /\ Window \in Nat
    BY <1>1, Shares, Limit
  <1>3. v \in Nat
    <2>1. conn'[c] \in Wire
      BY <1>1 DEF Typed
    <2>. QED
      BY <2>1, WireWorth
  <1>4. f = e \/ f = 0
    BY OverIs DEF Steady, Accounts
  <1>5. Total(x) = e + w + h
    BY DEF Total
  <1>6. Total(x)' = f + v + h
    BY DEF Total, Steady
  <1>7. v <= w /\ (conn'[c].alive => v = w)
    BY DEF Steady, Carries
  <1>8. Total(x) <= Window /\ (Up(x) => Total(x) = Window)
    BY DEF IInv, Conserved, Balanced
  <1>9. Up(x)' => Up(x) /\ f = e /\ v = w
    BY <1>7, SteadyUp
  <1>10. e + w + h <= Window /\ (Up(x) => e + w + h = Window)
    BY <1>5, <1>8
  <1>. HIDE DEF c, h, w, v, e, f
  <1>11. f + v + h <= Window /\ (Up(x)' => f + v + h = Window)
    BY ONLY <1>2, <1>3, <1>4, <1>7, <1>9, <1>10
  <1>. QED
    BY <1>6, <1>11

LEMMA SteadyKeeps ==
    ASSUME IInv, Typed', StreamHomes', NEW x \in Streams, Steady(x)
    PROVE  Flows(x)' /\ Heard(x)' /\ Balanced(x)'
  BY SteadyFlows, SteadyHeard, SteadyBalanced

-----------------------------------------------------------------------------
(* Who is waited for. *)

LEMMA WantedSame ==
    ASSUME \A k \in Calls : call'[k].phase = call[k].phase /\ call'[k].tries = call[k].tries,
           \A x \in Streams : sub'[x].phase = sub[x].phase, NEW id \in Exchanges
    PROVE  Wanted(id)' = Wanted(id)
  <1>1. CASE id \in Streams
    BY <1>1 DEF Wanted, IsCall
  <1>2. CASE id \notin Streams
    <2>1. id \in Attempts
      BY <1>2 DEF Exchanges
    <2>2. CallerOf(id) \in Calls
      BY <2>1 DEF CallerOf, Attempts
    <2>3. Awaits(CallerOf(id), id)' = Awaits(CallerOf(id), id)
      BY <2>2 DEF Awaits, Id
    <2>. QED
      BY <1>2, <2>3 DEF Wanted, IsCall
  <1>. QED
    BY <1>1, <1>2

LEMMA OwedType ==
    ASSUME Typed, NEW c \in Conns
    PROVE  /\ Owed(c) \subseteq Exchanges /\ conn[c].waiters \subseteq Owed(c)
           /\ \A i \in 1 .. Len(conn[c].cmds) :
                 conn[c].cmds[i].kind \in Opening => conn[c].cmds[i].id \in Owed(c)
           /\ Owed(c) \subseteq Held(c) /\ Owed(c) \subseteq Named(c)
  <1>1. conn[c].cmds \in Seq(Message)
    BY WireType
  <1>2. \A i \in 1 .. Len(conn[c].cmds) :
           conn[c].cmds[i].kind \in Opening => conn[c].cmds[i].id \in Asks(conn[c].cmds)
    BY <1>1, ElementOf DEF Asks, Opens
  <1>3. Owed(c) \subseteq Held(c) /\ Owed(c) \subseteq Named(c)
    BY AskedOf DEF Owed, Held, Named
  <1>. QED
    BY <1>2, <1>3, AskedType DEF Owed

\* Nothing is opened or taken, and who was wanted still is.
LEMMA TendedSame ==
    ASSUME Typed, NEW c \in Conns, Tended(c), Running(c)' => Running(c),
           conn'[c].waiters \subseteq conn[c].waiters, conn'[c].cmds = conn[c].cmds,
           conn[c].lost \subseteq conn'[c].lost,
           \A id \in Owed(c) : Wanted(id) => Wanted(id)'
    PROVE  Tended(c)'
  <1>. SUFFICES ASSUME Running(c)', NEW id \in Exchanges
                PROVE  /\ id \in conn'[c].waiters => Excused(c, 0, id)'
                       /\ \A i \in 1 .. Len(conn'[c].cmds) :
                             conn'[c].cmds[i].kind \in Opening /\ conn'[c].cmds[i].id = id
                               => Excused(c, i, id)'
    BY DEF Tended
  <1>1. /\ id \in conn[c].waiters => Excused(c, 0, id)
        /\ \A i \in 1 .. Len(conn[c].cmds) :
              conn[c].cmds[i].kind \in Opening /\ conn[c].cmds[i].id = id => Excused(c, i, id)
    BY DEF Tended
  <1>2. ASSUME NEW i, id \in Owed(c), Excused(c, i, id) PROVE Excused(c, i, id)'
    BY <1>2 DEF Excused
  <1>. QED
    BY <1>1, <1>2, OwedType

\* Commands about one exchange: who is no longer wanted is forgotten.
LEMMA TendedQueues ==
    ASSUME Typed, NEW c \in Conns, Tended(c), NEW x, NEW kinds, Queues(c, x, kinds),
           kinds \cap Opening = {},
           \A id \in Owed(c) : Wanted(id) => Wanted(id)' \/ (id = x /\ Forgets(c, x))
    PROVE  Tended(c)'
  <1>. DEFINE q == conn[c].cmds
              r == conn'[c].cmds
  <1>1. q \in Seq(Message) /\ r \in Seq(Message) /\ Len(q) \in Nat /\ Len(r) \in Nat
    BY WireType DEF Queues, Longer
  <1>2. /\ Len(q) <= Len(r) /\ \A i \in 1 .. Len(q) : r[i] = q[i]
        /\ \A i \in 1 .. Len(r) : r[i].kind \in Opening => i \in 1 .. Len(q)
    BY <1>1, LongerShape DEF Queues, Longer
  <1>3. conn'[c].waiters = conn[c].waiters /\ conn[c].lost \subseteq conn'[c].lost
        /\ (Running(c)' => Running(c))
    BY DEF Queues, Running
  <1>. SUFFICES ASSUME Running(c)', NEW id \in Exchanges
                PROVE  /\ id \in conn'[c].waiters => Excused(c, 0, id)'
                       /\ \A i \in 1 .. Len(r) : r[i].kind \in Opening /\ r[i].id = id
                                                  => Excused(c, i, id)'
    BY DEF Tended
  <1>4. /\ id \in conn[c].waiters => Excused(c, 0, id)
        /\ \A i \in 1 .. Len(q) : q[i].kind \in Opening /\ q[i].id = id => Excused(c, i, id)
    BY <1>3 DEF Tended
  <1>5. ASSUME NEW i \in 0 .. Len(q), id \in Owed(c), Excused(c, i, id)
        PROVE  Excused(c, i, id)'
    <2>1. CASE Wanted(id)
      <3>1. Wanted(id)' \/ (id = x /\ Forgets(c, x))
        BY <1>5, <2>1
      <3>2. ASSUME id = x, Forgets(c, x) PROVE id \in conn'[c].lost \/ ForgetsBehind(r, i, id)
        <4>1. CASE x \in conn'[c].lost
          BY <3>2, <4>1
        <4>2. CASE \E j \in 1 .. Len(r) : j > Len(q) /\ r[j].kind = "Forget" /\ r[j].id = x
          <5>1. PICK j \in 1 .. Len(r) : j > Len(q) /\ r[j].kind = "Forget" /\ r[j].id = x
            BY <4>2
          <5>2. j > i
            BY <1>1, <5>1
          <5>. QED
            BY <3>2, <5>1, <5>2 DEF ForgetsBehind
        <4>. QED
          BY <3>2, <4>1, <4>2 DEF Forgets
      <3>. QED
        BY <3>1, <3>2 DEF Excused
    <2>2. CASE id \in conn[c].lost
      BY <1>3, <2>2 DEF Excused
    <2>3. CASE ForgetsBehind(q, i, id)
      <3>1. PICK j \in 1 .. Len(q) : j > i /\ q[j].kind = "Forget" /\ q[j].id = id
        BY <2>3 DEF ForgetsBehind
      <3>2. j \in 1 .. Len(r) /\ r[j] = q[j]
        BY <1>1, <1>2, <3>1
      <3>3. ForgetsBehind(r, i, id)
        BY <3>1, <3>2 DEF ForgetsBehind
      <3>. QED
        BY <3>3 DEF Excused
    <2>. QED
      BY <1>5, <2>1, <2>2, <2>3 DEF Excused
  <1>6. \A i \in 1 .. Len(r) : r[i].kind \in Opening =>
            /\ i \in 1 .. Len(q) /\ r[i] = q[i] /\ q[i].kind \in Opening /\ i \in 0 .. Len(q)
    BY <1>1, <1>2
  <1>7. 0 \in 0 .. Len(q)
    BY <1>1
  <1>8. id \in conn'[c].waiters => id \in Owed(c) /\ Excused(c, 0, id)
    BY <1>3, <1>4, OwedType
  <1>9. \A i \in 1 .. Len(q) : q[i].kind \in Opening /\ q[i].id = id => id \in Owed(c)
    BY OwedType
  <1>. HIDE DEF q, r
  <1>. QED
    BY <1>4, <1>5, <1>6, <1>7, <1>8, <1>9

\* An exchange is opened for somebody who waits for it.
LEMMA TendedOpens ==
    ASSUME Typed, NEW c \in Conns, Tended(c), NEW m, conn'[c].cmds = Append(conn[c].cmds, m),
           conn'[c].state = conn[c].state, conn'[c].waiters = conn[c].waiters,
           conn'[c].lost = conn[c].lost, Wanted(m.id)',
           \A id \in Owed(c) : Wanted(id) => Wanted(id)'
    PROVE  Tended(c)'
  <1>. DEFINE q == conn[c].cmds
              r == conn'[c].cmds
  <1>1. q \in Seq(Message) /\ Len(q) \in Nat
    BY WireType
  <1>2. Len(r) = Len(q) + 1 /\ r[Len(q) + 1] = m /\ \A i \in 1 .. Len(q) : r[i] = q[i]
    BY <1>1, AppendShape
  <1>. SUFFICES ASSUME Running(c)', NEW id \in Exchanges
                PROVE  /\ id \in conn'[c].waiters => Excused(c, 0, id)'
                       /\ \A i \in 1 .. Len(r) : r[i].kind \in Opening /\ r[i].id = id
                                                  => Excused(c, i, id)'
    BY DEF Tended
  <1>3. /\ id \in conn[c].waiters => Excused(c, 0, id)
        /\ \A i \in 1 .. Len(q) : q[i].kind \in Opening /\ q[i].id = id => Excused(c, i, id)
    BY DEF Tended, Running
  <1>4. ASSUME NEW i, id \in Owed(c), Excused(c, i, id) PROVE Excused(c, i, id)'
    <2>1. CASE ForgetsBehind(q, i, id)
      <3>1. PICK j \in 1 .. Len(q) : j > i /\ q[j].kind = "Forget" /\ q[j].id = id
        BY <2>1 DEF ForgetsBehind
      <3>2. j \in 1 .. Len(r) /\ r[j] = q[j]
        BY <1>1, <1>2, <3>1
      <3>3. ForgetsBehind(r, i, id)
        BY <3>1, <3>2 DEF ForgetsBehind
      <3>. QED
        BY <3>3 DEF Excused
    <2>. QED
      BY <1>4, <2>1 DEF Excused
  <1>5. id \in conn'[c].waiters => id \in Owed(c) /\ Excused(c, 0, id)
    BY <1>3, OwedType
  <1>6. \A i \in 1 .. Len(q) : q[i].kind \in Opening /\ q[i].id = id => id \in Owed(c)
    BY OwedType
  <1>7. ASSUME NEW i \in 1 .. Len(r), r[i].kind \in Opening, r[i].id = id
        PROVE Excused(c, i, id)'
    <2>1. i \in 1 .. Len(q) \/ i = Len(q) + 1
      BY <1>1, <1>2, <1>7, OneMore
    <2>2. CASE i = Len(q) + 1
      <3>1. id = m.id
        BY <1>2, <1>7, <2>2
      <3>. QED
        BY <3>1 DEF Excused
    <2>3. CASE i \in 1 .. Len(q)
      <3>1. r[i] = q[i] /\ id \in Owed(c) /\ Excused(c, i, id)
        BY <1>2, <1>3, <1>6, <1>7, <2>3
      <3>. QED
        BY <1>4, <3>1
    <2>. QED
      BY <2>1, <2>2, <2>3
  <1>. HIDE DEF q, r
  <1>. QED
    BY <1>4, <1>5, <1>7

\* Waiting at one connection is waiting at all, where nobody stops to be wanted.
LEMMA WaitingAt ==
    ASSUME Typed, Waiting, NEW c \in Conns, Elsewhere(c), Tended(c)',
           \A d \in Conns : d # c => \A id \in Owed(d) : Wanted(id) => Wanted(id)'
    PROVE  Waiting'
  <1>1. ASSUME NEW d \in Conns, d # c PROVE Tended(d)'
    <2>1. conn'[d] = conn[d] /\ Tended(d)
      BY <1>1 DEF Elsewhere, Waiting
    <2>. QED
      BY <1>1, <2>1, TendedSame DEF Running
  <1>. QED
    BY <1>1 DEF Waiting

-----------------------------------------------------------------------------
(* Steps at one connection. *)

Sound(w) == /\ w.alive => w.state = "running"
            /\ w.state # "running" => /\ w.cmds = << >> /\ w.pending = << >>
                                      /\ w.inbound = << >> /\ w.waiters = {}
            /\ w.state = "unused" => w.sent = << >>
Filled(w) == /\ Len(w.cmds) <= Queue /\ Len(w.pending) <= Queue
             /\ Len(w.sent) <= Queue /\ Len(w.inbound) <= Queue

LEMMA SoundIs == Placed => \A c \in Conns : Sound(conn[c])
  BY DEF Placed, Sound, Running

LEMMA PlacedAt ==
    ASSUME Typed, Placed, NEW c \in Conns, Elsewhere(c), conn[c].state # "unused",
           conn'[c].state # "unused", Sound(conn'[c]), UNCHANGED slot,
           \A k \in Calls : call'[k].phase \in {"sending", "waiting"} =>
                              call'[k].at # None /\ call'[k].tries # 0,
           \A x \in Streams :
              \/ sub'[x] = sub[x] /\ (sub[x].phase = "idle" => server'[x] = server[x])
              \/ /\ sub'[x].phase # "idle" /\ sub'[x].at = sub[x].at /\ sub[x].phase # "idle"
              \/ /\ sub'[x].phase # "idle" /\ sub'[x].at = c
    PROVE  Placed'
  <1>1. Dialled' = Dialled
    BY DEF Dialled, Elsewhere
  <1>2. \A d \in Conns : conn'[d].state # "unused" <=> conn[d].state # "unused"
    BY DEF Elsewhere
  <1>3. ASSUME NEW d \in Conns PROVE Sound(conn'[d])
    BY SoundIs DEF Elsewhere
  <1>4. \A s \in Slots : slot'[s].phase = "serving" => slot'[s].published # None
    BY DEF Placed
  <1>5. ASSUME NEW x \in Streams
        PROVE  /\ sub'[x].phase = "idle" =>
                     /\ server'[x].phase = "none" /\ sub'[x].sink = << >>
                     /\ sub'[x].drained = 0 /\ sub'[x].pending = 0 /\ sub'[x].at = None
               /\ sub'[x].phase # "idle" =>
                     sub'[x].at # None /\ conn'[sub'[x].at].state # "unused"
    <2>1. /\ sub[x].phase = "idle" =>
                     /\ server[x].phase = "none" /\ sub[x].sink = << >>
                     /\ sub[x].drained = 0 /\ sub[x].pending = 0 /\ sub[x].at = None
          /\ sub[x].phase # "idle" =>
                     sub[x].at # None /\ conn[sub[x].at].state # "unused"
      BY DEF Placed
    <2>2. sub[x].phase # "idle" => conn'[sub[x].at].state # "unused"
      BY <2>1, AtType DEF Elsewhere
    <2>3. c # None
      BY DEF Conns, None
    <2>. QED
      BY <2>1, <2>2, <2>3
  <1>. QED
    BY <1>1, <1>3, <1>4, <1>5 DEF Placed, Sound, Running

LEMMA LimitsAt ==
    ASSUME Limits, NEW c \in Conns, Elsewhere(c), Filled(conn'[c]),
           \A k \in Calls : call'[k].left + call'[k].tries = call[k].left + call[k].tries
                            /\ (call'[k].phase = "acquiring" <=> call[k].phase = "acquiring"),
           \A x \in Streams : Len(sub'[x].sink) <= Window,
           \A k \in Calls : /\ call[k].left \in Int /\ call[k].tries \in Int
                            /\ call'[k].left \in Int /\ call'[k].tries \in Int
    PROVE  Limits'
  <1>1. \A d \in Conns : Filled(conn'[d])
    BY DEF Limits, Filled, Elsewhere
  <1>2. \A k \in Calls : call'[k].tries + call'[k].left <=
                          IF call'[k].phase = "acquiring" THEN Retries ELSE Retries + 1
    <2>. SUFFICES ASSUME NEW k \in Calls
                  PROVE  call'[k].tries + call'[k].left <=
                          IF call'[k].phase = "acquiring" THEN Retries ELSE Retries + 1
      OBVIOUS
    <2>1. call[k].tries + call[k].left <=
                          IF call[k].phase = "acquiring" THEN Retries ELSE Retries + 1
      BY DEF Limits
    <2>2. call'[k].tries + call'[k].left = call[k].tries + call[k].left
      OBVIOUS
    <2>. QED
      BY <2>1, <2>2
  <1>. QED
    BY <1>1, <1>2 DEF Limits, Filled

\* The numbers of a call.
LEMMA CallNumbers ==
    ASSUME NEW f, f \in [Calls -> CallState]
    PROVE  \A k \in Calls : f[k].left \in Int /\ f[k].tries \in Int
  <1>1. \A k \in Calls : f[k].left \in 0 .. Retries /\ f[k].tries \in 0 .. Retries + 1
    BY DEF CallState
  <1>. QED
    BY <1>1, Limit

LEMMA SteadyAt ==
    ASSUME IInv, NEW c \in Conns, Elsewhere(c), NEW x \in Streams, sub'[x] = sub[x], Accounts(x),
           Quiet(c, x), sub[x].phase # "idle" /\ sub[x].at = c => Carries(c, x)
    PROVE  Steady(x)
  <1>1. Typed /\ Placed
    BY DEF IInv
  <1>2. ASSUME NEW d \in Conns PROVE Quiet(d, x)
    <2>1. CASE d = c
      BY <2>1
    <2>2. CASE d # c
      BY <2>2, StillAt DEF Elsewhere, Quiet
    <2>. QED
      BY <2>1, <2>2
  <1>3. ASSUME sub[x].phase # "idle" PROVE Carries(sub[x].at, x)
    <2>1. sub[x].at \in Conns
      BY <1>1, <1>3, AtType
    <2>2. CASE sub[x].at = c
      BY <1>3, <2>2
    <2>3. CASE sub[x].at # c
      <3>. DEFINE d == sub[x].at
      <3>1. conn'[d] = conn[d] /\ Owed(d)' = Owed(d)
        <4>1. ASSUME NEW e \in Conns, e # c PROVE conn'[e] = conn[e] /\ Owed(e)' = Owed(e)
          BY <4>1, StillAt DEF Elsewhere
        <4>. QED
          BY <2>1, <2>3, <4>1
      <3>2. OnWire(conn[d], x) \in Nat
        BY <1>1, <2>1, Shares
      <3>. QED
        BY <3>1, <3>2 DEF Carries
    <2>. QED
      BY <2>2, <2>3
  <1>. QED
    BY <1>2, <1>3 DEF Steady

\* What is left to see of a step at a connection.
LEMMA StepKeeps ==
    ASSUME IInv, Typed', Limits', Placed', NEW c \in Conns, Settles(c), Answering', Tended(c)',
           \A d \in Conns : d # c => \A id \in Owed(d) : Wanted(id) => Wanted(id)',
           \A x \in Streams : Steady(x) \/ (Flows(x)' /\ Heard(x)' /\ Balanced(x)')
    PROVE  IInv'
  <1>1. Apart' /\ Homes' /\ Spent' /\ Exchanged'
    BY SettledKeeps
  <1>2. Waiting'
    BY WaitingAt DEF IInv, Settles
  <1>3. \A x \in Streams : Flows(x)' /\ Heard(x)' /\ Balanced(x)'
    BY <1>1, SteadyKeeps DEF Homes
  <1>. QED
    BY <1>1, <1>2, <1>3 DEF IInv, Streaming, Listening, Conserved

\* Steps that are the connection's own.
LEMMA OwnStepKeeps ==
    ASSUME IInv, Typed', NEW c \in Conns, Settles(c), Filled(conn'[c]),
           conn[c].state # "unused", conn'[c].state # "unused", Sound(conn'[c]),
           UNCHANGED <<slot, call, sub>>, Tended(c)', \A x \in Streams : Steady(x)
    PROVE  IInv'
  <1>1. Typed /\ Limits /\ Placed /\ Elsewhere(c)
    BY DEF IInv, Settles
  <1>2. Limits'
    <2>1. \A k \in Calls : call[k].left \in Int /\ call[k].tries \in Int
      BY <1>1, CallNumbers DEF Typed
    <2>2. \A x \in Streams : Len(sub'[x].sink) <= Window
      BY <1>1 DEF Limits
    <2>. QED
      BY <1>1, <2>1, <2>2, LimitsAt
  <1>3. Placed'
    <2>1. \A x \in Streams : sub[x].phase = "idle" => server'[x] = server[x]
      BY DEF Steady, Accounts
    <2>2. \A k \in Calls : call'[k].phase \in {"sending", "waiting"} =>
                              call'[k].at # None /\ call'[k].tries # 0
      BY <1>1 DEF Placed
    <2>. QED
      BY <1>1, <2>1, <2>2, PlacedAt
  <1>4. Answering'
    BY <1>1, <1>2, <1>3, SettledKeeps, AnsweringKeeps DEF Settles
  <1>5. \A d \in Conns : \A id \in Owed(d) : Wanted(id) => Wanted(id)'
    BY <1>1, WantedSame, OwedType
  <1>. QED
    BY <1>2, <1>3, <1>4, <1>5, StepKeeps

-----------------------------------------------------------------------------
(* The connection's own steps. *)

LEMMA SingleIs == IInv => \A c \in Conns : Single(conn[c])
  BY DEF IInv, Apart

LEMMA FilledIs == Limits => \A c \in Conns : Filled(conn[c])
  BY DEF Limits, Filled

\* Requests go out in their order.
LEMMA WriteKeeps ==
    ASSUME IInv, NEW c \in Conns, Write(c)
    PROVE  IInv'
  <1>. DEFINE w == conn[c]
              v == conn'[c]
              m == Head(w.pending)
  <1>1. Typed /\ Limits /\ Placed /\ Running(c) /\ Len(w.sent) < Queue
        /\ UNCHANGED <<slot, call, sub, server, executed, closed>>
    BY DEF IInv, Write
  <1>2. /\ Typed' /\ Elsewhere(c) /\ w.pending # << >>
        /\ v = [w EXCEPT !.pending = Tail(@), !.sent = Append(@, m)]
    BY <1>1, WriteEffect
  <1>3. /\ w \in Wire /\ w.pending \in Seq(Message) /\ w.sent \in Seq(Message)
        /\ w.cmds \in Seq(Message) /\ w.inbound \in Seq(Answer)
    BY <1>1, WireType
  <1>4. /\ v.state = w.state /\ v.alive = w.alive /\ v.cmds = w.cmds /\ v.waiters = w.waiters
        /\ v.inbound = w.inbound /\ v.lost = w.lost
        /\ v.pending = Tail(w.pending) /\ v.sent = Append(w.sent, m)
    BY <1>2, <1>3 DEF Wire
  <1>. HIDE DEF w, v, m
  <1>5. ToSet(w.pending) = ToSet(v.pending) \cup {m} /\ ToSet(v.sent) = ToSet(w.sent) \cup {m}
    BY <1>2, <1>3, <1>4, SetTail, SetAppend DEF m
  <1>6. Narrow(c)
    BY <1>4, <1>5 DEF Narrow, OnItsWay, Arriving, Owed, w, v
  <1>7. Single(v)
    <2>1. Single(w)
      BY SingleIs DEF w
    <2>2. /\ Asks(w.pending) = Asks(v.pending) \cup Opens({m}) /\ Once(v.pending)
          /\ Asks(v.pending) \cap Opens({m}) = {}
      BY <1>2, <1>3, <1>4, <2>1, AsksTail DEF Single, m
    <2>3. Opens({m}) \cap Asks(w.sent) = {}
      BY <2>1, <2>2 DEF Single
    <2>4. Asks(v.sent) = Asks(w.sent) \cup Opens({m}) /\ Once(v.sent)
      BY <1>3, <1>4, <2>1, <2>3, AsksAppend DEF Single
    <2>. QED
      BY <1>4, <2>1, <2>2, <2>4 DEF Single
  <1>8. Settles(c)
    BY <1>1, <1>2, <1>6, <1>7, NarrowSettles, OnwardSame DEF v
  <1>9. Filled(v)
    <2>1. Filled(w) /\ Len(w.pending) \in Nat \ {0} /\ Len(w.sent) \in Nat
          /\ Len(v.pending) = Len(w.pending) - 1 /\ Len(v.sent) = Len(w.sent) + 1
      BY <1>1, <1>2, <1>3, <1>4, FilledIs, TailShape, AppendShape DEF w
    <2>. QED
      BY <1>1, <1>4, <2>1, Limit DEF Filled
  <1>10. Sound(v) /\ v.state = "running" /\ w.state = "running"
    BY <1>1, <1>4 DEF Sound, Running, w
  <1>11. Tended(c)'
    <2>1. \A id \in Owed(c) : Wanted(id) => Wanted(id)'
      BY <1>1, WantedSame, OwedType
    <2>. QED
      BY <1>1, <1>4, <2>1, TendedSame DEF IInv, Waiting, Running, w, v
  <1>12. ASSUME NEW x \in Streams PROVE Steady(x)
    <2>1. Quiet(c, x)
      BY <1>4, <1>6, NarrowQuiet DEF w, v
    <2>2. OnWire(v, x) = OnWire(w, x)
      <3>1. /\ Granting(v.pending, x) \in Nat /\ Grant(m, x) \in Nat
            /\ Granting(w.pending, x) = Granting(v.pending, x) + Grant(m, x)
        BY <1>2, <1>3, <1>4, GrantingTail DEF m
      <3>2. m \in Message
        BY <1>2, <1>3, TailShape DEF m
      <3>3. /\ Granting(w.sent, x) \in Nat
            /\ Granting(v.sent, x) = Granting(w.sent, x) + Grant(m, x)
        BY <1>3, <1>4, <3>2, GrantingAppend
      <3>4. Granting(w.cmds, x) \in Nat /\ Carrying(w.inbound, x) \in Nat
        BY <1>3, WireWorth
      <3>5. Granting(w.cmds, x) + Granting(v.pending, x) + Granting(v.sent, x) + Carrying(w.inbound, x)
             = Granting(w.cmds, x) + Granting(w.pending, x) + Granting(w.sent, x)
                + Carrying(w.inbound, x)
        BY ONLY <3>1, <3>3, <3>4
      <3>. QED
        BY <1>4, <3>5 DEF OnWire
    <2>3. OnWire(w, x) \in Nat
      BY <1>3, WireWorth
    <2>4. Carries(c, x)
      BY <1>4, <2>2, <2>3 DEF Carries, Owed, w, v
    <2>. QED
      BY <1>1, <1>2, <2>1, <2>4, SteadyAt DEF Accounts
  <1>. QED
    BY <1>1, <1>2, <1>8, <1>9, <1>10, <1>11, <1>12, OwnStepKeeps DEF w, v

\* The next command becomes a waiter and a request, or takes a waiter away.
LEMMA AcceptTends ==
    ASSUME Typed, NEW c \in Conns, Tended(c), Running(c), conn[c].cmds # << >>,
           conn'[c].cmds = Tail(conn[c].cmds), conn'[c].lost = conn[c].lost,
           conn'[c].waiters = Taken(conn[c].waiters, Head(conn[c].cmds)),
           \A id \in Exchanges : Wanted(id)' = Wanted(id)
    PROVE  Tended(c)'
  <1>. DEFINE q == conn[c].cmds
              r == conn'[c].cmds
  <1>1. /\ q \in Seq(Message) /\ q # << >> /\ Head(q) = q[1] /\ Len(q) \in Nat \ {0}
        /\ Len(r) = Len(q) - 1
        /\ \A i \in 1 .. Len(r) : r[i] = q[i + 1] /\ i + 1 \in 1 .. Len(q)
    BY WireType, TailShape
  <1>2. conn'[c].waiters = Taken(conn[c].waiters, q[1])
    BY <1>1
  <1>. SUFFICES ASSUME NEW id \in Exchanges
                PROVE  /\ id \in conn'[c].waiters => Excused(c, 0, id)'
                       /\ \A i \in 1 .. Len(r) : r[i].kind \in Opening /\ r[i].id = id
                                                  => Excused(c, i, id)'
    BY DEF Tended
  <1>3. /\ id \in conn[c].waiters => Excused(c, 0, id)
        /\ \A i \in 1 .. Len(q) : q[i].kind \in Opening /\ q[i].id = id => Excused(c, i, id)
    BY DEF Tended
  <1>4. ASSUME NEW i \in Nat, ForgetsBehind(q, i + 1, id) PROVE ForgetsBehind(r, i, id)
    <2>1. PICK j \in 1 .. Len(q) : j > i + 1 /\ q[j].kind = "Forget" /\ q[j].id = id
      BY <1>4 DEF ForgetsBehind
    <2>2. j - 1 \in 1 .. Len(r) /\ j - 1 > i /\ (j - 1) + 1 = j
      BY <1>1, <2>1
    <2>3. r[j - 1] = q[j]
      BY <1>1, <2>2
    <2>. QED
      BY <2>1, <2>2, <2>3 DEF ForgetsBehind
  <1>5. ASSUME NEW i \in Nat, Excused(c, i + 1, id) PROVE Excused(c, i, id)'
    BY <1>4, <1>5 DEF Excused
  <1>6. ASSUME id \in conn'[c].waiters PROVE Excused(c, 0, id)'
    <2>1. CASE q[1].kind \in Opening /\ q[1].id = id
      <3>1. 1 \in 1 .. Len(q) /\ 0 \in Nat /\ 0 + 1 = 1
        BY <1>1
      <3>2. Excused(c, 0 + 1, id)
        BY <1>3, <2>1, <3>1
      <3>. QED
        BY <1>5, <3>1, <3>2
    <2>2. CASE ~(q[1].kind \in Opening /\ q[1].id = id)
      <3>1. id \in conn[c].waiters /\ ~(q[1].kind = "Forget" /\ q[1].id = id)
        BY <1>2, <1>6, <2>2 DEF Taken, Opening
      <3>2. Excused(c, 0, id)
        BY <1>3, <3>1
      <3>3. ASSUME ForgetsBehind(q, 0, id) PROVE ForgetsBehind(q, 1, id)
        <4>1. PICK j \in 1 .. Len(q) : j > 0 /\ q[j].kind = "Forget" /\ q[j].id = id
          BY <3>3 DEF ForgetsBehind
        <4>2. j # 1
          BY <3>1, <4>1
        <4>3. j > 1
          BY <1>1, <4>1, <4>2
        <4>. QED
          BY <4>1, <4>3 DEF ForgetsBehind
      <3>4. Excused(c, 1, id)
        BY <3>2, <3>3 DEF Excused
      <3>5. 0 \in Nat /\ 0 + 1 = 1
        OBVIOUS
      <3>. QED
        BY <1>5, <3>4, <3>5
    <2>. QED
      BY <2>1, <2>2
  <1>7. ASSUME NEW i \in 1 .. Len(r), r[i].kind \in Opening, r[i].id = id
        PROVE  Excused(c, i, id)'
    <2>1. i + 1 \in 1 .. Len(q) /\ q[i + 1] = r[i] /\ i \in Nat
      BY <1>1
    <2>. QED
      BY <1>3, <1>5, <1>7, <2>1
  <1>. HIDE DEF q, r
  <1>. QED
    BY <1>6, <1>7

LEMMA AcceptKeeps ==
    ASSUME IInv, NEW c \in Conns, Accept(c)
    PROVE  IInv'
  <1>. DEFINE w == conn[c]
              v == conn'[c]
              m == Head(w.cmds)
  <1>1. Typed /\ Limits /\ Placed /\ Running(c) /\ Len(w.pending) < Queue
        /\ UNCHANGED <<slot, call, sub, server, executed, closed>>
    BY DEF IInv, Accept
  <1>2. /\ Typed' /\ Elsewhere(c) /\ w.cmds # << >> /\ m \in Message
        /\ v = [w EXCEPT !.cmds = Tail(@), !.waiters = Taken(@, m), !.pending = Backlog(@, m)]
    BY <1>1, AcceptEffect
  <1>3. /\ w \in Wire /\ w.pending \in Seq(Message) /\ w.sent \in Seq(Message)
        /\ w.cmds \in Seq(Message) /\ w.inbound \in Seq(Answer)
    BY <1>1, WireType
  <1>4. /\ v.state = w.state /\ v.alive = w.alive /\ v.sent = w.sent
        /\ v.inbound = w.inbound /\ v.lost = w.lost /\ v.waiters = Taken(w.waiters, m)
        /\ v.cmds = Tail(w.cmds) /\ v.pending = Backlog(w.pending, m)
    BY <1>2, <1>3 DEF Wire
  <1>5. m \in OnItsWay(c)
    BY <1>2, <1>3, SetTail DEF OnItsWay
  <1>. HIDE DEF w, v, m
  <1>6. ToSet(w.cmds) = ToSet(v.cmds) \cup {m} /\ ToSet(v.pending) \subseteq ToSet(w.pending) \cup {m}
    BY <1>2, <1>3, <1>4, SetTail, SetAppend DEF m, Backlog
  <1>7. /\ Asks(w.cmds) = Asks(v.cmds) \cup Opens({m})
        /\ (Once(w.cmds) => Once(v.cmds) /\ Asks(v.cmds) \cap Opens({m}) = {})
    BY <1>2, <1>3, <1>4, AsksTail DEF m
  <1>8. Opens({m}) = IF m.kind \in Opening THEN {m.id} ELSE {}
    BY OpensOne
  <1>9. v.waiters \cup Opens({m}) \subseteq w.waiters \cup Opens({m})
    BY <1>4, <1>8 DEF Taken
  <1>10. Opens({m}) \subseteq v.waiters
    BY <1>4, <1>8 DEF Taken
  <1>11. Owed(c) = w.waiters \cup Asks(w.cmds) /\ Owed(c)' = v.waiters \cup Asks(v.cmds)
    BY DEF Owed, w, v
  <1>12. Narrow(c)
    <2>1. Owed(c)' \subseteq Owed(c)
      BY <1>7, <1>9, <1>11
    <2>2. OnItsWay(c)' \subseteq OnItsWay(c)
      BY <1>4, <1>6 DEF OnItsWay, w, v
    <2>. QED
      BY <1>4, <2>1, <2>2 DEF Narrow, Arriving, w, v
  <1>13. Single(v)
    <2>1. Single(w)
      BY SingleIs DEF w
    <2>2. Opens({m}) \cap Asks(w.pending) = {} /\ Opens({m}) \cap Asks(w.sent) = {}
      BY <1>7, <2>1 DEF Single
    <2>3. Asks(v.pending) = Asks(w.pending) \cup Opens({m}) /\ Once(v.pending)
      <3>1. CASE m.kind = "Forget"
        BY <1>4, <1>8, <2>1, <3>1 DEF Backlog, Opening, Single
      <3>2. CASE m.kind # "Forget"
        BY <1>3, <1>4, <2>1, <2>2, <3>2, AsksAppend DEF Backlog, Single
      <3>. QED
        BY <3>1, <3>2
    <2>. QED
      BY <1>4, <1>7, <2>1, <2>2, <2>3 DEF Single
  <1>14. Settles(c)
    BY <1>1, <1>2, <1>12, <1>13, NarrowSettles, OnwardSame DEF v
  <1>15. Filled(v)
    <2>1. Filled(w) /\ Len(w.cmds) \in Nat \ {0} /\ Len(w.pending) \in Nat
          /\ Len(v.cmds) = Len(w.cmds) - 1
      BY <1>1, <1>2, <1>3, <1>4, FilledIs, TailShape, AppendShape DEF w
    <2>2. Len(v.pending) = Len(w.pending) \/ Len(v.pending) = Len(w.pending) + 1
      BY <1>3, <1>4, AppendShape DEF Backlog
    <2>. QED
      BY <1>1, <1>4, <2>1, <2>2, Limit DEF Filled
  <1>16. Sound(v) /\ v.state = "running" /\ w.state = "running"
    BY <1>1, <1>4 DEF Sound, Running, w
  <1>17. Tended(c)'
    <2>1. \A id \in Exchanges : Wanted(id)' = Wanted(id)
      BY <1>1, WantedSame
    <2>. QED
      BY <1>1, <1>2, <1>4, <2>1, AcceptTends DEF IInv, Waiting, w, v, m
  <1>18. ASSUME NEW x \in Streams PROVE Steady(x)
    <2>1. Quiet(c, x)
      BY <1>4, <1>12, NarrowQuiet DEF w, v
    <2>2. OnWire(v, x) = OnWire(w, x)
      <3>1. /\ Granting(v.cmds, x) \in Nat /\ Grant(m, x) \in Nat
            /\ Granting(w.cmds, x) = Granting(v.cmds, x) + Grant(m, x)
        BY <1>2, <1>3, <1>4, GrantingTail DEF m
      <3>2. /\ Granting(w.pending, x) \in Nat
            /\ Granting(v.pending, x) = Granting(w.pending, x) + Grant(m, x)
        <4>1. CASE m.kind = "Forget"
          <5>1. Grant(m, x) = 0
            BY <4>1 DEF Grant, Worth
          <5>2. Granting(w.pending, x) \in Nat
            BY <1>3, WireWorth
          <5>. QED
            BY <1>4, <4>1, <5>1, <5>2 DEF Backlog
        <4>2. CASE m.kind # "Forget"
          BY <1>2, <1>3, <1>4, <4>2, GrantingAppend DEF Backlog
        <4>. QED
          BY <4>1, <4>2
      <3>4. Granting(w.sent, x) \in Nat /\ Carrying(w.inbound, x) \in Nat
        BY <1>3, WireWorth
      <3>5. Granting(v.cmds, x) + Granting(v.pending, x) + Granting(w.sent, x) + Carrying(w.inbound, x)
             = Granting(w.cmds, x) + Granting(w.pending, x) + Granting(w.sent, x)
                + Carrying(w.inbound, x)
        BY ONLY <3>1, <3>2, <3>4
      <3>. QED
        BY <1>4, <3>5 DEF OnWire
    <2>3. OnWire(w, x) \in Nat
      BY <1>3, WireWorth
    <2>4. x \in Owed(c) => x \in Owed(c)' \/ sub[x].phase = "dropped"
      <3>1. ASSUME x \in Owed(c), x \notin Owed(c)' PROVE m.kind = "Forget" /\ m.id = x
        BY <1>4, <1>7, <1>10, <1>11, <3>1 DEF Taken
      <3>2. m.kind = "Forget" /\ m.id = x => sub[x].phase = "dropped"
        BY <1>5 DEF IInv, Streaming, Flows, Going
      <3>. QED
        BY <3>1, <3>2
    <2>5. Carries(c, x)
      BY <1>4, <2>2, <2>3, <2>4 DEF Carries, w, v
    <2>. QED
      BY <1>1, <1>2, <2>1, <2>5, SteadyAt DEF Accounts
  <1>. QED
    BY <1>1, <1>2, <1>14, <1>15, <1>16, <1>17, <1>18, OwnStepKeeps DEF w, v

\* Connections whose wire is dead, or dies: nothing that is up is disturbed.
LEMMA ShedsCarries ==
    ASSUME NEW c, NEW x, ~conn'[c].alive, OnWire(conn'[c], x) <= OnWire(conn[c], x)
    PROVE  Carries(c, x)
  BY DEF Carries

LEMMA SeveredAccounts ==
    ASSUME IInv, NEW c \in Conns, ~conn'[c].alive, server' = Severed(c), NEW x \in Streams
    PROVE  Accounts(x)
  <1>1. CASE sub[x].at = c
    <2>1. sub[x].phase # "idle"
      BY <1>1 DEF IInv, Placed, None, Conns
    <2>2. server'[x] = Over
      BY <1>1 DEF Severed
    <2>. QED
      BY <1>1, <2>1, <2>2 DEF Accounts
  <1>2. CASE sub[x].at # c
    BY <1>2 DEF Severed, Accounts
  <1>. QED
    BY <1>1, <1>2

LEMMA TendedStill ==
    ASSUME IInv, NEW c \in Conns, UNCHANGED <<call, sub>>, conn'[c].state = conn[c].state,
           conn'[c].waiters \subseteq conn[c].waiters, conn'[c].cmds = conn[c].cmds,
           conn'[c].lost = conn[c].lost
    PROVE  Tended(c)'
  <1>1. Typed /\ Tended(c)
    BY DEF IInv, Waiting
  <1>2. \A id \in Owed(c) : Wanted(id) => Wanted(id)'
    BY <1>1, WantedSame, OwedType
  <1>. QED
    BY <1>1, <1>2, TendedSame DEF Running

LEMMA LoseWireKeeps ==
    ASSUME IInv, NEW c \in Conns, NEW n \in 0 .. Queue, LoseWire(c, n)
    PROVE  IInv'
  <1>. DEFINE w == conn[c]
              v == conn'[c]
  <1>1. Typed /\ Limits /\ Placed /\ conn[c].alive
    BY DEF IInv, LoseWire
  <1>2. /\ Typed' /\ Elsewhere(c) /\ server' = Severed(c) /\ n \in 0 .. Len(w.inbound)
        /\ v = [w EXCEPT !.alive = FALSE, !.inbound = SubSeq(@, 1, n)]
        /\ UNCHANGED <<slot, call, sub, executed, closed>>
    BY <1>1, LoseWireEffect
  <1>3. /\ w \in Wire /\ w.pending \in Seq(Message) /\ w.sent \in Seq(Message)
        /\ w.cmds \in Seq(Message) /\ w.inbound \in Seq(Answer)
    BY <1>1, WireType
  <1>4. /\ v.state = w.state /\ v.alive = FALSE /\ v.cmds = w.cmds /\ v.waiters = w.waiters
        /\ v.inbound = SubSeq(w.inbound, 1, n) /\ v.lost = w.lost
        /\ v.pending = w.pending /\ v.sent = w.sent
    BY <1>2, <1>3 DEF Wire
  <1>5. ToSet(v.inbound) \subseteq ToSet(w.inbound) /\ Len(v.inbound) = n
    BY <1>2, <1>3, <1>4, SetPrefix
  <1>6. w.state = "running"
    BY <1>1 DEF Placed, Running
  <1>. HIDE DEF w, v
  <1>7. Narrow(c)
    BY <1>4, <1>5 DEF Narrow, OnItsWay, Arriving, Owed, w, v
  <1>8. Single(v)
    BY <1>4, SingleIs DEF Single, w
  <1>9. Settles(c)
    BY <1>1, <1>2, <1>7, <1>8, NarrowSettles, OnwardSame DEF v
  <1>10. Filled(v)
    <2>1. n <= Queue
      BY Limit
    <2>. QED
      BY <1>1, <1>4, <1>5, <2>1, FilledIs DEF Filled, w
  <1>11. Sound(v)
    BY <1>4, <1>6 DEF Sound
  <1>12. Tended(c)'
    BY <1>2, <1>4, TendedStill DEF w, v
  <1>13. ASSUME NEW x \in Streams PROVE Steady(x)
    <2>1. Quiet(c, x)
      BY <1>4, <1>7, NarrowQuiet DEF w, v
    <2>2. OnWire(v, x) <= OnWire(w, x)
      <3>1. /\ Granting(w.cmds, x) \in Nat /\ Granting(w.pending, x) \in Nat
            /\ Granting(w.sent, x) \in Nat /\ Carrying(w.inbound, x) \in Nat
        BY <1>3, WireWorth
      <3>2. Carrying(v.inbound, x) \in Nat /\ Carrying(v.inbound, x) <= Carrying(w.inbound, x)
        <4>1. \A f \in Answer : f.n \in 0 .. Window
          BY Worths
        <4>. QED
          BY <1>2, <1>3, <1>4, <4>1, SumPrefix, Limit DEF Carrying, w
      <3>3. Granting(w.cmds, x) + Granting(w.pending, x) + Granting(w.sent, x) + Carrying(v.inbound, x)
            <= Granting(w.cmds, x) + Granting(w.pending, x) + Granting(w.sent, x) + Carrying(w.inbound, x)
        BY ONLY <3>1, <3>2
      <3>. QED
        BY <1>4, <3>3 DEF OnWire
    <2>3. Carries(c, x)
      BY <1>4, <2>2, ShedsCarries DEF w, v
    <2>4. Accounts(x)
      BY <1>2, <1>4, SeveredAccounts DEF v
    <2>. QED
      BY <1>2, <2>1, <2>3, <2>4, SteadyAt
  <1>. QED
    BY <1>2, <1>4, <1>6, <1>9, <1>10, <1>11, <1>12, <1>13, OwnStepKeeps DEF w, v

\* A request goes out of the wire.
Passes(w, v) == /\ w.sent # << >> /\ v.sent = Tail(w.sent)
                /\ v.cmds = w.cmds /\ v.pending = w.pending /\ Single(w)

LEMMA SentTail ==
    ASSUME NEW w \in Wire, NEW v, Passes(w, v)
    PROVE  /\ Single(v) /\ ToSet(w.sent) = ToSet(v.sent) \cup {Head(w.sent)}
           /\ Len(v.sent) = Len(w.sent) - 1 /\ Len(w.sent) \in Nat
           /\ Opens({Head(w.sent)}) \cap (Asks(v.cmds) \cup Asks(v.pending) \cup Asks(v.sent)) = {}
           /\ Asks(w.sent) = Asks(v.sent) \cup Opens({Head(w.sent)})
  <1>1. w.sent \in Seq(Message)
    BY RequestsAre DEF Wire
  <1>. USE DEF Passes
  <1>2. /\ Asks(w.sent) = Asks(v.sent) \cup Opens({Head(w.sent)}) /\ Once(v.sent)
        /\ Asks(v.sent) \cap Opens({Head(w.sent)}) = {}
    <2>1. Once(w.sent)
      BY DEF Single
    <2>2. /\ Asks(w.sent) = Asks(Tail(w.sent)) \cup Opens({Head(w.sent)})
          /\ Once(w.sent) => /\ Once(Tail(w.sent))
                             /\ Asks(Tail(w.sent)) \cap Opens({Head(w.sent)}) = {}
      BY <1>1, AsksTail
    <2>. QED
      BY <2>1, <2>2
  <1>3. Opens({Head(w.sent)}) \cap Asks(w.cmds) = {} /\ Opens({Head(w.sent)}) \cap Asks(w.pending) = {}
    BY <1>2 DEF Single
  <1>4. Single(v)
    BY <1>2 DEF Single
  <1>. QED
    BY <1>1, <1>2, <1>3, <1>4, SetTail, TailShape

LEMMA ReadUnseenKeeps ==
    ASSUME IInv, NEW c \in Conns, ReadUnseen(c)
    PROVE  IInv'
  <1>. DEFINE w == conn[c]
              v == conn'[c]
  <1>1. Typed /\ Limits /\ Placed
    BY DEF IInv
  <1>2. /\ Typed' /\ Elsewhere(c) /\ w.sent # << >> /\ ~w.alive
        /\ v = [w EXCEPT !.sent = Tail(@)]
        /\ UNCHANGED <<slot, call, sub, server, executed, closed>>
    BY <1>1, ReadUnseenEffect
  <1>3. /\ w \in Wire /\ w.sent \in Seq(Message)
    BY <1>1, WireType
  <1>4. /\ v.state = w.state /\ v.alive = w.alive /\ v.cmds = w.cmds /\ v.waiters = w.waiters
        /\ v.inbound = w.inbound /\ v.lost = w.lost
        /\ v.pending = w.pending /\ v.sent = Tail(w.sent)
    BY <1>2, <1>3 DEF Wire
  <1>5. v \in Wire
    BY <1>2 DEF Typed
  <1>6. Sound(w) /\ w.state # "unused" /\ Filled(w) /\ Single(w)
    BY <1>1, <1>2, SoundIs, FilledIs, SingleIs DEF Sound
  <1>. HIDE DEF w, v
  <1>7. Single(v) /\ ToSet(v.sent) \subseteq ToSet(w.sent) /\ Len(v.sent) = Len(w.sent) - 1
        /\ Len(w.sent) \in Nat
    <2>1. w \in Wire /\ Passes(w, v)
      BY <1>2, <1>3, <1>4, <1>6 DEF Passes
    <2>2. /\ Single(v) /\ ToSet(w.sent) = ToSet(v.sent) \cup {Head(w.sent)}
          /\ Len(v.sent) = Len(w.sent) - 1 /\ Len(w.sent) \in Nat
      BY <2>1, SentTail
    <2>. QED
      BY <2>2
  <1>8. Narrow(c)
    BY <1>4, <1>7 DEF Narrow, OnItsWay, Arriving, Owed, w, v
  <1>9. Settles(c)
    BY <1>1, <1>2, <1>7, <1>8, NarrowSettles, OnwardSame DEF v
  <1>10. Filled(v)
    BY <1>4, <1>6, <1>7, Limit DEF Filled
  <1>11. Sound(v)
    BY <1>4, <1>6 DEF Sound
  <1>12. Tended(c)'
    BY <1>2, <1>4, TendedStill DEF w, v
  <1>13. ASSUME NEW x \in Streams PROVE Steady(x)
    <2>1. Quiet(c, x)
      BY <1>4, <1>8, NarrowQuiet DEF w, v
    <2>2. OnWire(v, x) <= OnWire(w, x)
      <3>1. /\ Granting(w.cmds, x) \in Nat /\ Granting(w.pending, x) \in Nat
            /\ Granting(w.sent, x) \in Nat /\ Carrying(w.inbound, x) \in Nat
        BY <1>3, WireWorth
      <3>2. /\ Granting(v.sent, x) \in Nat /\ Grant(Head(w.sent), x) \in Nat
            /\ Granting(w.sent, x) = Granting(v.sent, x) + Grant(Head(w.sent), x)
        BY <1>2, <1>3, <1>4, GrantingTail
      <3>3. Granting(w.cmds, x) + Granting(w.pending, x) + Granting(v.sent, x) + Carrying(w.inbound, x)
            <= Granting(w.cmds, x) + Granting(w.pending, x) + Granting(w.sent, x) + Carrying(w.inbound, x)
        BY ONLY <3>1, <3>2
      <3>. QED
        BY <1>4, <3>3 DEF OnWire
    <2>3. Carries(c, x)
      BY <1>2, <1>4, <2>2, ShedsCarries DEF w, v
    <2>. QED
      BY <1>2, <2>1, <2>3, SteadyAt DEF Accounts
  <1>. QED
    BY <1>2, <1>4, <1>6, <1>9, <1>10, <1>11, <1>12, <1>13, OwnStepKeeps DEF w, v

\* A new connection holds nothing.
LEMMA DialKeeps ==
    ASSUME IInv, NEW s \in Slots, Dial(s)
    PROVE  IInv'
  <1>1. Typed /\ Limits /\ Placed /\ UNCHANGED <<call, sub, server, executed, closed>>
    BY DEF IInv, Dial
  <1>2. Typed' /\ \E c \in Conns :
              /\ conn[c].state = "unused" /\ Dialled = 1 .. (c - 1)
              /\ conn'[c] = Connection("running", TRUE, << >>) /\ Elsewhere(c)
              /\ slot' = [slot EXCEPT ![s] = [phase |-> "serving", published |-> c]]
    BY <1>1, DialEffect
  <1>3. PICK c \in Conns :
              /\ conn[c].state = "unused" /\ Dialled = 1 .. (c - 1)
              /\ conn'[c] = Connection("running", TRUE, << >>) /\ Elsewhere(c)
              /\ slot' = [slot EXCEPT ![s] = [phase |-> "serving", published |-> c]]
    BY <1>2
  <1>. DEFINE w == conn[c]
              v == conn'[c]
  <1>4. /\ v.state = "running" /\ v.alive = TRUE /\ v.cmds = << >> /\ v.waiters = {}
        /\ v.inbound = << >> /\ v.lost = {} /\ v.pending = << >> /\ v.sent = << >>
    BY <1>3 DEF Connection
  <1>5. /\ w.state = "unused" /\ w.cmds = << >> /\ w.waiters = {} /\ w.inbound = << >>
        /\ w.pending = << >> /\ w.sent = << >>
    BY <1>1, <1>3 DEF Placed, Running
  <1>. HIDE DEF w, v
  <1>6. Narrow(c)
    BY <1>4, <1>5 DEF Narrow, OnItsWay, Arriving, Owed, w, v
  <1>7. Single(v)
    BY <1>4, NothingIn DEF Single
  <1>8. Settles(c)
    BY <1>1, <1>3, <1>6, <1>7, NarrowSettles, OnwardSame DEF v
  <1>9. Len(<< >>) = 0
    OBVIOUS
  <1>10. Limits'
    <2>1. Filled(v)
      BY <1>4, <1>9, Limit DEF Filled
    <2>2. \A k \in Calls : call[k].left \in Int /\ call[k].tries \in Int
      BY <1>1, CallNumbers DEF Typed
    <2>3. \A x \in Streams : Len(sub'[x].sink) <= Window
      BY <1>1 DEF Limits
    <2>. QED
      BY <1>1, <1>3, <2>1, <2>2, <2>3, LimitsAt DEF v
  <1>11. Placed'
    <2>1. Dialled' = 1 .. c
      <3>1. Dialled' = Dialled \cup {c}
        BY <1>3, <1>4 DEF Dialled, Elsewhere, v
      <3>2. c \in Nat \ {0}
        BY Limit DEF Conns
      <3>. QED
        BY <1>3, <3>1, <3>2
    <2>2. c \in 0 .. MaxDials /\ c # None
      BY Limit DEF Conns, None
    <2>3. \A d \in Conns : Sound(conn'[d])
      BY <1>1, <1>3, <1>4, SoundIs DEF Elsewhere, Sound, v
    <2>4. \A t \in Slots : slot'[t].phase = "serving" => slot'[t].published # None
      <3>1. slot \in [Slots -> [phase : {"down", "serving"}, published : {None} \cup Conns]]
        BY <1>1 DEF Typed
      <3>. QED
        BY <1>1, <1>3, <2>2, <3>1 DEF Placed
    <2>5. ASSUME NEW x \in Streams, sub[x].phase # "idle"
          PROVE  sub[x].at # None /\ conn'[sub[x].at].state # "unused"
      <3>1. sub[x].at \in Conns /\ sub[x].at # None /\ conn[sub[x].at].state # "unused"
        BY <1>1, <2>5, AtType DEF Placed
      <3>. QED
        BY <1>3, <3>1 DEF Elsewhere
    <2>. QED
      BY <1>1, <2>1, <2>2, <2>3, <2>4, <2>5 DEF Placed, Sound, Running
  <1>12. Tended(c)'
    BY <1>4, <1>9 DEF Tended, v
  <1>13. ASSUME NEW x \in Streams PROVE Steady(x)
    <2>1. Asked(c)' = {}
      <3>1. OnItsWay(c)' = {}
        BY <1>4, NothingIn DEF OnItsWay, v
      <3>. QED
        BY <3>1 DEF Asked, Opens
    <2>2. Quiet(c, x)
      BY <1>6, <2>1 DEF Quiet, Narrow
    <2>3. sub[x].phase # "idle" => sub[x].at # c
      BY <1>1, <1>3 DEF Placed
    <2>. QED
      BY <1>1, <1>3, <2>2, <2>3, SteadyAt DEF Accounts
  <1>14. Answering'
    BY <1>1, <1>2, <1>8, <1>11, SettledKeeps, AnsweringKeeps
  <1>15. \A d \in Conns : \A id \in Owed(d) : Wanted(id) => Wanted(id)'
    BY <1>1, WantedSame, OwedType
  <1>. QED
    BY <1>2, <1>8, <1>10, <1>11, <1>12, <1>13, <1>14, <1>15, StepKeeps

\* A call whose reply alone changes.
Replied(k) == /\ call'[k].phase = call[k].phase /\ call'[k].tries = call[k].tries
              /\ call'[k].at = call[k].at /\ call'[k].left = call[k].left

LEMMA RepliedOnward ==
    ASSUME Typed, \A k \in Calls : Replied(k)
    PROVE  Onward
  <1>1. \A k \in Calls : call[k].tries \in 0 .. Retries + 1
    BY DEF Typed, CallState
  <1>2. \A k \in Calls : call[k].tries <= call[k].tries
    BY <1>1, Limit
  <1>. QED
    BY <1>2 DEF Onward, Replied

LEMMA RepliedLimits ==
    ASSUME IInv, NEW c \in Conns, Elsewhere(c), Filled(conn'[c]), \A k \in Calls : Replied(k),
           \A x \in Streams : Len(sub'[x].sink) <= Window
    PROVE  Limits'
  <1>1. \A k \in Calls : call[k].left \in Int /\ call[k].tries \in Int
    BY CallNumbers DEF IInv, Typed
  <1>. QED
    BY <1>1, LimitsAt DEF Replied, IInv

LEMMA RepliedPlaced ==
    ASSUME IInv, NEW c \in Conns, Elsewhere(c), conn[c].state # "unused",
           conn'[c].state # "unused", Sound(conn'[c]), UNCHANGED slot,
           \A k \in Calls : Replied(k),
           \A x \in Streams :
              \/ sub'[x] = sub[x] /\ (sub[x].phase = "idle" => server'[x] = server[x])
              \/ /\ sub'[x].phase # "idle" /\ sub'[x].at = sub[x].at /\ sub[x].phase # "idle"
    PROVE  Placed'
  <1>1. Typed /\ Placed
    BY DEF IInv
  <1>2. \A k \in Calls : call'[k].phase \in {"sending", "waiting"} =>
                              call'[k].at # None /\ call'[k].tries # 0
    BY <1>1 DEF Placed, Replied
  <1>. QED
    BY <1>1, <1>2, PlacedAt

\* What a frame taken from the wire leaves.
LEMMA InboundTail ==
    ASSUME NEW w \in Wire, w.inbound # << >>
    PROVE  /\ ToSet(w.inbound) = ToSet(Tail(w.inbound)) \cup {Head(w.inbound)}
           /\ Len(Tail(w.inbound)) <= Len(w.inbound)
           /\ Head(w.inbound) \in ToSet(w.inbound) /\ w.inbound \in Seq(Answer)
           /\ \A x : /\ Carrying(Tail(w.inbound), x) \in Nat /\ Cargo(Head(w.inbound), x) \in Nat
                     /\ Carrying(w.inbound, x) = Carrying(Tail(w.inbound), x) + Cargo(Head(w.inbound), x)
  <1>1. w.inbound \in Seq(Answer)
    BY DEF Wire
  <1>2. Len(w.inbound) \in Nat \ {0} /\ Len(Tail(w.inbound)) = Len(w.inbound) - 1
    BY <1>1, TailShape
  <1>3. Len(Tail(w.inbound)) <= Len(w.inbound)
    BY ONLY <1>2
  <1>. QED
    BY <1>1, <1>3, SetTail, CarryingTail

\* A frame is delivered, and its waiter taken or left.
Delivers(c) ==
    LET w == conn[c]
        v == conn'[c]
    IN  /\ Elsewhere(c) /\ w.state = "running" /\ w.inbound # << >>
        /\ v.state = w.state /\ v.alive = w.alive /\ v.cmds = w.cmds /\ v.pending = w.pending
        /\ v.sent = w.sent /\ v.lost = w.lost /\ v.inbound = Tail(w.inbound)
        /\ v.waiters \subseteq w.waiters
        /\ \A k \in Calls : Replied(k)
        /\ \A x \in Streams : sub'[x].phase = sub[x].phase /\ sub'[x].at = sub[x].at
        /\ UNCHANGED <<slot, server, executed>>

LEMMA DeliversKeeps ==
    ASSUME IInv, Typed', NEW c \in Conns, Delivers(c),
           \A x \in Streams : Len(sub'[x].sink) <= Window,
           \A x \in Streams : sub[x].phase = "idle" => sub'[x] = sub[x]
    PROVE  /\ Limits' /\ Placed' /\ Settles(c) /\ Tended(c)' /\ Narrow(c) /\ Fades
           /\ \A d \in Conns : \A id \in Owed(d) : Wanted(id) => Wanted(id)'
           /\ \A x \in Streams : Quiet(c, x)
  <1>. DEFINE w == conn[c]
              v == conn'[c]
  <1>1. Typed /\ Limits /\ Placed
    BY DEF IInv
  <1>2. /\ Elsewhere(c) /\ w.state = "running" /\ w.inbound # << >>
        /\ v.state = w.state /\ v.alive = w.alive /\ v.cmds = w.cmds /\ v.pending = w.pending
        /\ v.sent = w.sent /\ v.lost = w.lost /\ v.inbound = Tail(w.inbound)
        /\ v.waiters \subseteq w.waiters
    BY DEF Delivers
  <1>3. /\ \A k \in Calls : Replied(k)
        /\ \A x \in Streams : sub'[x].phase = sub[x].phase /\ sub'[x].at = sub[x].at
        /\ UNCHANGED <<slot, server, executed>>
    BY DEF Delivers
  <1>4. w \in Wire /\ Sound(w) /\ Filled(w) /\ Single(w)
    BY <1>1, WireType, SoundIs, FilledIs, SingleIs
  <1>. HIDE DEF w, v
  <1>5. /\ ToSet(v.inbound) \subseteq ToSet(w.inbound) /\ Len(v.inbound) <= Len(w.inbound)
    BY <1>2, <1>4, InboundTail
  <1>6. Narrow(c)
    BY <1>2, <1>5 DEF Narrow, OnItsWay, Arriving, Owed, w, v
  <1>7. Single(v) /\ Sound(v)
    BY <1>2, <1>4 DEF Single, Sound
  <1>8. Filled(v)
    <2>1. Len(w.inbound) \in Nat /\ Len(v.inbound) \in Nat
      <3>1. w.inbound \in Seq(Answer) /\ v.inbound \in Seq(Answer)
        BY <1>2, <1>4, InboundTail, TailShape
      <3>. QED
        BY <3>1
    <2>2. Len(v.inbound) <= Queue
      BY <1>4, <1>5, <2>1, Limit DEF Filled
    <2>. QED
      BY <1>2, <1>4, <2>2 DEF Filled
  <1>9. Settles(c) /\ Fades
    <2>1. Onward
      BY <1>1, <1>3, RepliedOnward
    <2>2. executed' = executed
      BY <1>3
    <2>. QED
      BY <1>2, <1>3, <1>6, <1>7, <2>1, <2>2, NarrowSettles, NarrowRecedes, FadesAt DEF v
  <1>10. Limits'
    BY <1>2, <1>3, <1>8, RepliedLimits DEF v
  <1>11. Placed'
    <2>1. \A x \in Streams :
              \/ sub'[x] = sub[x] /\ (sub[x].phase = "idle" => server'[x] = server[x])
              \/ /\ sub'[x].phase # "idle" /\ sub'[x].at = sub[x].at /\ sub[x].phase # "idle"
      BY <1>3
    <2>2. v.state # "unused" /\ w.state # "unused" /\ UNCHANGED slot
      BY <1>2, <1>3
    <2>. QED
      BY <1>2, <1>3, <1>7, <2>1, <2>2, RepliedPlaced DEF v, w
  <1>12. \A d \in Conns : \A id \in Owed(d) : Wanted(id) => Wanted(id)'
    BY <1>1, <1>3, WantedSame, OwedType DEF Replied
  <1>13. Tended(c)'
    <2>1. Tended(c) /\ (Running(c)' => Running(c))
      BY <1>2 DEF IInv, Waiting, Running, w, v
    <2>. QED
      BY <1>1, <1>2, <1>12, <2>1, TendedSame DEF w, v
  <1>14. \A x \in Streams : Quiet(c, x)
    BY <1>2, <1>6, NarrowQuiet DEF w, v
  <1>. QED
    BY <1>6, <1>9, <1>10, <1>11, <1>12, <1>13, <1>14

\* Streams whose frames a delivery does not touch.
LEMMA DeliverySteady ==
    ASSUME IInv, Typed', NEW c \in Conns, Delivers(c), NEW x \in Streams, sub'[x] = sub[x],
           Head(conn[c].inbound).id # x, x \in conn[c].waiters => x \in conn'[c].waiters,
           Quiet(c, x)
    PROVE  Steady(x)
  <1>. DEFINE w == conn[c]
              v == conn'[c]
  <1>1. w \in Wire
    BY WireType DEF IInv
  <1>2. /\ w.inbound # << >> /\ v.alive = w.alive /\ v.cmds = w.cmds /\ v.pending = w.pending
        /\ v.sent = w.sent /\ v.inbound = Tail(w.inbound) /\ Elsewhere(c)
        /\ server' = server
    BY DEF Delivers
  <1>. HIDE DEF w, v
  <1>3. Cargo(Head(w.inbound), x) = 0
    BY DEF Cargo, Worth, w
  <1>4. Carrying(v.inbound, x) = Carrying(w.inbound, x) /\ OnWire(w, x) \in Nat
    BY <1>1, <1>2, <1>3, InboundTail, WireWorth
  <1>5. OnWire(v, x) = OnWire(w, x)
    BY <1>2, <1>4 DEF OnWire
  <1>6. OnWire(v, x) <= OnWire(w, x)
    BY <1>4, <1>5
  <1>7. Carries(c, x)
    BY <1>2, <1>5, <1>6 DEF Carries, Owed, w, v
  <1>. QED
    BY <1>2, <1>7, SteadyAt DEF Accounts

LEMMA DeliverCallKeeps ==
    ASSUME IInv, NEW c \in Conns, Deliver(c), IsCall(Head(conn[c].inbound).id)
    PROVE  IInv'
  <1>. DEFINE f == Head(conn[c].inbound)
              told(k) == call[k].phase = "waiting" /\ Id(k) = f.id /\ f.id \in conn[c].waiters
  <1>1. Typed /\ Limits /\ Placed /\ Running(c) /\ conn[c].inbound # << >>
        /\ DeliverCall(c, f) /\ UNCHANGED <<slot, server, executed, closed>>
    BY DEF IInv, Deliver
  <1>2. f \in Answer /\ f \in Arriving(c) /\ conn[c] \in Wire
    BY <1>1, WireType, InboundTail DEF Arriving
  <1>3. /\ Typed' /\ Elsewhere(c)
        /\ conn'[c] = [conn[c] EXCEPT !.inbound = Tail(@), !.waiters = @ \ {f.id}]
        /\ f.id \in Attempts /\ f.kind \in Outcomes
        /\ \A k \in Calls :
              call'[k] = IF told(k) THEN [call[k] EXCEPT !.reply = f.kind] ELSE call[k]
    BY <1>1, <1>2, DeliverCallEffect
  <1>4. sub' = sub
    BY <1>1 DEF DeliverCall
  <1>5. \A k \in Calls : Replied(k) /\ (told(k) => call'[k].reply = f.kind)
    <2>1. call \in [Calls -> CallState]
      BY <1>1 DEF Typed
    <2>. QED
      BY <1>3, <2>1 DEF Replied, CallState
  <1>6. f.id \notin Streams
    BY <1>3, Limit
  <1>. HIDE DEF told, f
  <1>7. Delivers(c) /\ conn'[c].waiters = conn[c].waiters \ {f.id} /\ conn'[c].cmds = conn[c].cmds
    BY <1>1, <1>2, <1>3, <1>4, <1>5 DEF Delivers, Running, Wire
  <1>8. /\ Limits' /\ Placed' /\ Settles(c) /\ Tended(c)' /\ Narrow(c) /\ Fades
        /\ \A d \in Conns : \A id \in Owed(d) : Wanted(id) => Wanted(id)'
        /\ \A x \in Streams : Quiet(c, x)
    <2>1. \A x \in Streams : Len(sub'[x].sink) <= Window
      BY <1>1, <1>4 DEF Limits
    <2>. QED
      BY <1>3, <1>4, <1>7, <2>1, DeliversKeeps
  <1>9. \A x \in Streams : Steady(x)
    BY <1>3, <1>4, <1>6, <1>7, <1>8, DeliverySteady DEF f
  <1>10. ASSUME NEW k \in Calls PROVE Truthful(k)'
    <2>1. CASE ~told(k)
      <3>1. call'[k] = call[k]
        BY <1>3, <2>1
      <3>. QED
        BY <1>1, <1>8, <3>1, TruthfulKeeps
    <2>2. CASE told(k)
      <3>1. /\ call[k].phase = "waiting" /\ Id(k) = f.id /\ f.id \in conn[c].waiters
            /\ call'[k].phase = "waiting" /\ call'[k].reply = f.kind /\ Id(k)' = f.id
        BY <1>5, <2>2 DEF told, Replied, Id
      <3>2. f.id \in Ids(Arriving(c))
        BY <1>2 DEF Ids
      <3>3. \A d \in Conns : f.id \notin Asked(d)
        BY <1>6, <3>2 DEF IInv, Exchanged
      <3>4. (f.kind = "Ack" => f.id \in executed)
            /\ (f.kind \in {"Refused", "Fatal"} => f.id \notin executed)
        BY <1>2 DEF IInv, Exchanged
      <3>5. \A d \in Conns : f.id \notin Asked(d)'
        BY <1>8, <3>3 DEF Fades, Recedes
      <3>6. ASSUME NEW d \in Conns PROVE f.id \notin Owed(d)'
        <4>1. CASE d = c
          <5>1. f.id \notin Asks(conn[c].cmds)
            BY <3>3, AskedOf
          <5>. QED
            BY <1>7, <4>1, <5>1 DEF Owed
        <4>2. CASE d # c
          <5>1. f.id \in Held(c)
            BY <3>2 DEF Held
          <5>2. call[k].at = c
            BY <3>1, <5>1 DEF IInv, Homes, CallHomes
          <5>3. f.id \notin Held(d)
            BY <3>1, <4>2, <5>2 DEF IInv, Homes, CallHomes
          <5>4. f.id \notin Owed(d)
            BY <1>1, <5>3, OwedType
          <5>. QED
            BY <1>8, <5>4 DEF Fades, Recedes
        <4>. QED
          BY <4>1, <4>2
      <3>7. Told(k)' = f.kind
        BY <3>1 DEF Told
      <3>8. f.id \in Attempts
        BY <1>1, <3>1, IdType
      <3>. QED
        BY <1>1, <3>1, <3>4, <3>5, <3>6, <3>7, <3>8 DEF Truthful
    <2>. QED
      BY <2>1, <2>2
  <1>11. Answering'
    BY <1>10 DEF Answering
  <1>. QED
    BY <1>3, <1>8, <1>9, <1>11, StepKeeps

\* A stream whose sink or credit alone changes.
LEMMA QuietFlows ==
    ASSUME IInv, NEW x \in Streams, \A c \in Conns : Quiet(c, x), server'[x] = server[x],
           sub'[x].phase = sub[x].phase, Served(x)'
    PROVE  Flows(x)'
  <1>1. Flows(x) /\ (Through(x) => Through(x)')
    BY DEF IInv, Streaming, Through
  <1>2. ASSUME NEW c \in Conns PROVE Asking(c, x)' /\ Coming(c, x)' /\ Going(c, x)'
    <2>1. Quiet(c, x) /\ Asking(c, x) /\ Coming(c, x) /\ Going(c, x)
      BY <1>1 DEF Flows
    <2>2. Asking(c, x)'
      BY <2>1 DEF Asking, Quiet
    <2>3. Coming(c, x)' /\ Going(c, x)'
      BY <1>1, <2>1 DEF Coming, Going, Quiet
    <2>. QED
      BY <2>2, <2>3
  <1>. QED
    BY <1>2 DEF Flows

LEMMA DeliverStreamKeeps ==
    ASSUME IInv, NEW c \in Conns, NEW x \in Streams, Deliver(c), Head(conn[c].inbound).id = x
    PROVE  IInv'
  <1>. DEFINE w == conn[c]
              v == conn'[c]
              f == Head(w.inbound)
              s == sub[x]
              t == sub'[x]
  <1>1. Typed /\ Limits /\ Placed /\ Running(c) /\ w.inbound # << >>
        /\ ~IsCall(f.id) /\ DeliverStream(c, f) /\ UNCHANGED <<slot, server, executed, closed>>
    BY DEF IInv, Deliver, IsCall
  <1>2. f \in Answer /\ f \in Arriving(c) /\ w \in Wire
    BY <1>1, WireType, InboundTail DEF Arriving
  <1>3. /\ Typed' /\ Elsewhere(c) /\ x \in Streams /\ f.id = x
        /\ v = [w EXCEPT !.inbound = Tail(@), !.waiters = StillHeard(c, x, f)]
        /\ sub' = [sub EXCEPT ![x] = Sunk(c, x, f)] /\ UNCHANGED call
    BY <1>1, <1>2, DeliverStreamEffect
  <1>4. s \in Consumer /\ sub \in [Streams -> Consumer]
    BY <1>1, <1>3 DEF Typed
  <1>5. t = Sunk(c, x, f) /\ \A y \in Streams : y # x => sub'[y] = sub[y]
    BY <1>3, <1>4
  <1>6. t.phase = s.phase /\ t.at = s.at /\ t.drained = s.drained /\ t.pending = s.pending
    BY <1>4, <1>5 DEF Sunk, Consumer
  <1>7. /\ v.state = w.state /\ v.alive = w.alive /\ v.cmds = w.cmds /\ v.pending = w.pending
        /\ v.sent = w.sent /\ v.lost = w.lost /\ v.inbound = Tail(w.inbound)
        /\ v.waiters = StillHeard(c, x, f)
    BY <1>2, <1>3 DEF Wire
  <1>8. \/ x \notin w.waiters /\ t = s
        \/ x \in w.waiters /\ SinkTakes(x) /\ t.sink = Append(s.sink, f) /\ t.overrun = s.overrun
        \/ x \in w.waiters /\ ~SinkTakes(x) /\ t.sink = s.sink
             /\ t.overrun = (s.overrun \/ s.phase = "open")
    BY <1>4, <1>5 DEF Sunk, Consumer
  <1>9. x \in Named(c)
    BY <1>2, <1>3 DEF Named, Ids
  <1>10. s.at = c /\ s.phase # "idle" /\ Served(x) /\ Coming(c, x) /\ Asking(c, x) /\ Heard(x)
    BY <1>1, <1>3, <1>9, HomeOf DEF IInv, Streaming, Flows, Listening
  <1>11. server[x].phase # "none" /\ (f.kind \in Final => Through(x))
    BY <1>2, <1>3, <1>10 DEF Coming
  <1>12. s.sink \in Seq(Answer) /\ s.phase \in {"idle", "open", "ended", "dropped"}
    BY <1>4 DEF Consumer
  <1>13. w.waiters \ {x} \subseteq v.waiters /\ v.waiters \subseteq w.waiters
    BY <1>7 DEF StillHeard
  <1>14. SinkTakes(x) <=> s.phase = "open" /\ Len(s.sink) < Window
    BY DEF SinkTakes
  <1>15. v.waiters = w.waiters \/ f.kind \in Final \/ ~SinkTakes(x)
    BY <1>7 DEF StillHeard
  <1>16. \A k \in Calls : Replied(k)
    BY <1>3 DEF Replied
  <1>17. \A y \in Streams : sub'[y].phase = sub[y].phase /\ sub'[y].at = sub[y].at
    BY <1>5, <1>6
  <1>18. /\ server' = server /\ executed' = executed /\ slot' = slot /\ w.state = "running"
    BY <1>1 DEF Running
  <1>. HIDE DEF w, v, f, s, t
  <1>19. Delivers(c)
    BY <1>1, <1>3, <1>7, <1>13, <1>16, <1>17, <1>18 DEF Delivers, w, v
  <1>20. ToSet(t.sink) \subseteq ToSet(s.sink) \cup {f} /\ Len(t.sink) <= Window
    <2>1. Len(s.sink) <= Window /\ Len(s.sink) \in Nat
      BY <1>1, <1>3, <1>12 DEF Limits, s
    <2>2. ToSet(Append(s.sink, f)) = ToSet(s.sink) \cup {f} /\ Len(Append(s.sink, f)) = Len(s.sink) + 1
      BY <1>12, SetAppend, AppendShape
    <2>3. CASE SinkTakes(x) /\ t.sink = Append(s.sink, f)
      BY <1>14, <2>1, <2>2, <2>3, Limit
    <2>4. CASE t.sink = s.sink
      BY <2>1, <2>4
    <2>. QED
      BY <1>8, <2>3, <2>4
  <1>21. /\ Limits' /\ Placed' /\ Settles(c) /\ Tended(c)' /\ Narrow(c) /\ Fades
         /\ \A d \in Conns : \A id \in Owed(d) : Wanted(id) => Wanted(id)'
         /\ \A y \in Streams : Quiet(c, y)
    <2>1. \A y \in Streams : Len(sub'[y].sink) <= Window
      BY <1>1, <1>5, <1>20 DEF Limits, t
    <2>2. \A y \in Streams : sub[y].phase = "idle" => sub'[y] = sub[y]
      BY <1>5, <1>10 DEF s
    <2>. QED
      BY <1>3, <1>19, <2>1, <2>2, DeliversKeeps
  <1>22. ASSUME NEW y \in Streams, y # x PROVE Steady(y)
    <2>1. y \in w.waiters => y \in v.waiters
      BY <1>13, <1>22
    <2>2. Head(conn[c].inbound).id # y
      BY <1>3, <1>22 DEF f, w
    <2>. QED
      BY <1>3, <1>5, <1>19, <1>21, <1>22, <2>1, <2>2, DeliverySteady DEF w, v
  <1>23. Flows(x)'
    <2>1. Served(x)'
      <3>1. \A g \in ToSet(t.sink) : g.id = x /\ (g.kind \in Final => Through(x)')
        <4>1. Through(x)' = Through(x)
          BY <1>6, <1>18 DEF Through, s, t
        <4>2. \A g \in ToSet(s.sink) : g.id = x /\ (g.kind \in Final => Through(x))
          BY <1>10 DEF Served, s
        <4>3. f.id = x
          BY <1>3
        <4>. QED
          BY <1>11, <1>20, <4>1, <4>2, <4>3
      <3>. QED
        BY <1>10, <1>11, <1>18, <3>1 DEF Served, t
    <2>2. ASSUME NEW d \in Conns PROVE Quiet(d, x)
      <3>1. CASE d = c
        BY <1>3, <1>21, <3>1
      <3>2. CASE d # c
        BY <1>3, <3>2, StillAt DEF Elsewhere, Quiet
      <3>. QED
        BY <3>1, <3>2
    <2>. QED
      BY <1>3, <1>6, <1>18, <2>1, <2>2, QuietFlows DEF s, t
  <1>24. Up(x)' => /\ Up(x) /\ x \in w.waiters /\ SinkTakes(x) /\ v.waiters = w.waiters
    <2>. SUFFICES ASSUME Up(x)' PROVE Up(x) /\ x \in w.waiters /\ SinkTakes(x) /\ v.waiters = w.waiters
      OBVIOUS
    <2>1. s.phase = "open" /\ ~t.overrun /\ v.alive /\ server[x].phase # "ended"
      BY <1>6, <1>10, <1>18 DEF Up, s, t, v
    <2>2. ~s.overrun /\ w.alive
      BY <1>7, <1>8, <2>1
    <2>3. Up(x)
      BY <1>10, <2>1, <2>2 DEF Up, s, w
    <2>4. x \in Owed(c)
      BY <1>10, <2>3 DEF Heard, s
    <2>5. x \in w.waiters
      <3>1. SUFFICES ASSUME x \in Asks(w.cmds) PROVE FALSE
        BY <2>4 DEF Owed, w
      <3>2. x \in Asked(c)
        BY <3>1, AskedOf DEF w
      <3>. QED
        BY <1>10, <1>11, <2>1, <2>2, <3>2 DEF Asking, w, s
    <2>6. SinkTakes(x)
      BY <1>8, <2>1, <2>5
    <2>7. f.kind \notin Final
      BY <1>11, <2>1 DEF Through, s
    <2>. QED
      BY <1>15, <2>3, <2>5, <2>6, <2>7
  <1>25. Heard(x)'
    <2>1. SUFFICES ASSUME Up(x)' PROVE x \in Owed(c)'
      BY <1>6, <1>10 DEF Heard, s, t
    <2>. QED
      BY <1>24, <2>1 DEF Owed, v
  <1>26. Balanced(x)'
    <2>. DEFINE a == Granting(w.cmds, x)
                b == Granting(w.pending, x)
                d == Granting(w.sent, x)
                e == Carrying(w.inbound, x)
                e1 == Carrying(v.inbound, x)
                g == Cargo(f, x)
                h == Carrying(s.sink, x)
                h1 == Carrying(t.sink, x)
                o == server[x].credit
                p == s.drained + s.pending
    <2>1. /\ a \in Nat /\ b \in Nat /\ d \in Nat /\ e \in Nat /\ h \in Nat
      BY <1>2, <1>12, WireWorth, CarryingAppend
    <2>2. e1 \in Nat /\ g \in Nat /\ e = e1 + g
      BY <1>1, <1>2, <1>7, InboundTail DEF f
    <2>3. h1 = h \/ h1 = h + g
      BY <1>2, <1>8, <1>12, CarryingAppend
    <2>4. Up(x)' => h1 = h + g
      BY <1>2, <1>8, <1>12, <1>24, CarryingAppend
    <2>5. o \in Nat /\ s.drained \in Nat /\ s.pending \in Nat /\ Window \in Nat
      <3>1. s.drained \in 0 .. Window /\ s.pending \in 0 .. Window
        BY <1>4 DEF Consumer
      <3>2. server[x].credit \in 0 .. Window
        BY <1>1, <1>3 DEF Typed, Account
      <3>. QED
        BY <3>1, <3>2, Limit
    <2>6. Total(x) = o + (a + b + d + e) + (h + s.drained + s.pending)
      BY <1>10 DEF Total, OnWire, InHand, s, w
    <2>7. Total(x)' = o + (a + b + d + e1) + (h1 + s.drained + s.pending)
      BY <1>6, <1>7, <1>10, <1>18 DEF Total, OnWire, InHand, s, t, w, v
    <2>8. Total(x) <= Window /\ (Up(x) => Total(x) = Window)
      BY <1>3, <1>10 DEF IInv, Conserved, Balanced, s
    <2>. HIDE DEF a, b, d, e, e1, g, h, h1, o, p
    <2>9. o + (a + b + d + e1) + (h1 + s.drained + s.pending) <= o + (a + b + d + e) + (h + s.drained + s.pending)
      BY ONLY <2>1, <2>2, <2>3, <2>5
    <2>10. Up(x)' => o + (a + b + d + e1) + (h1 + s.drained + s.pending) = o + (a + b + d + e) + (h + s.drained + s.pending)
      BY ONLY <2>1, <2>2, <2>4, <2>5
    <2>11. Total(x)' \in Nat /\ Total(x) \in Nat /\ Total(x)' <= Total(x)
      BY ONLY <2>1, <2>2, <2>3, <2>5, <2>6, <2>7, <2>9
    <2>12. Total(x)' <= Window
      BY ONLY <2>5, <2>8, <2>11
    <2>13. Up(x)' => Total(x)' = Window
      BY <1>24, <2>6, <2>7, <2>8, <2>10
    <2>. QED
      BY <2>12, <2>13 DEF Balanced
  <1>27. Answering'
    BY <1>1, <1>3, <1>18, <1>21, AnsweringKeeps
  <1>. QED
    BY <1>3, <1>21, <1>22, <1>23, <1>25, <1>26, <1>27, StepKeeps

\* The end of a connection's task.
LEMMA RidingOwed ==
    ASSUME Typed, NEW c \in Conns
    PROVE  Riding(c) \subseteq Owed(c)
  <1>1. conn[c].cmds \in Seq(Message)
    BY WireType
  <1>2. DOMAIN conn[c].cmds = 1 .. Len(conn[c].cmds)
    BY <1>1
  <1>3. \A i \in DOMAIN conn[c].cmds : conn[c].cmds[i].kind = "Call" => conn[c].cmds[i].id \in Owed(c)
    BY <1>2, OwedType DEF Opening
  <1>. QED
    BY <1>3, OwedType DEF Riding

Ends(c) ==
    /\ Elsewhere(c) /\ Running(c) /\ conn'[c] = Connection("gone", FALSE, conn[c].sent)
    /\ Informed(Riding(c)) /\ UNCHANGED <<slot, sub, executed>>
    /\ server' = server \/ server' = Severed(c)

LEMMA EndsKeeps ==
    ASSUME IInv, Typed', NEW c \in Conns, Ends(c)
    PROVE  IInv'
  <1>. DEFINE w == conn[c]
              v == conn'[c]
              told(k) == call[k].phase = "waiting" /\ Id(k) \in Riding(c) /\ call[k].reply = "none"
  <1>1. Typed /\ Limits /\ Placed
    BY DEF IInv
  <1>2. /\ Elsewhere(c) /\ w.state = "running" /\ slot' = slot /\ sub' = sub /\ executed' = executed
    BY DEF Ends, Running
  <1>3. /\ v.state = "gone" /\ v.alive = FALSE /\ v.cmds = << >> /\ v.waiters = {}
        /\ v.inbound = << >> /\ v.lost = {} /\ v.pending = << >> /\ v.sent = w.sent
    BY DEF Ends, Connection
  <1>4. \A k \in Calls : /\ told(k) => call'[k] = [call[k] EXCEPT !.reply = "Disconnected"]
                         /\ ~told(k) => call'[k] = call[k]
    BY DEF Ends, Informed
  <1>5. \A k \in Calls : Replied(k) /\ (told(k) => call'[k].reply = "Disconnected")
    <2>1. call \in [Calls -> CallState]
      BY <1>1 DEF Typed
    <2>. QED
      BY <1>4, <2>1 DEF Replied, CallState
  <1>6. w \in Wire /\ Sound(w) /\ Filled(w) /\ Single(w)
    BY <1>1, WireType, SoundIs, FilledIs, SingleIs
  <1>7. server' = server \/ server' = Severed(c)
    BY DEF Ends
  <1>. HIDE DEF w, v, told
  <1>8. Narrow(c)
    BY <1>3, NothingIn DEF Narrow, OnItsWay, Arriving, Owed, w, v
  <1>9. Single(v) /\ Sound(v) /\ Filled(v)
    <2>1. Len(<< >>) = 0
      OBVIOUS
    <2>. QED
      BY <1>3, <1>6, <2>1, NothingIn, Limit DEF Single, Sound, Filled
  <1>10. Settles(c) /\ Fades
    <2>1. Onward
      BY <1>1, <1>5, RepliedOnward
    <2>. QED
      BY <1>2, <1>8, <1>9, <2>1, NarrowSettles, NarrowRecedes, FadesAt DEF v
  <1>11. \A x \in Streams : Steady(x)
    <2>. SUFFICES ASSUME NEW x \in Streams PROVE Steady(x)
      OBVIOUS
    <2>1. Quiet(c, x)
      BY <1>3, <1>8, NarrowQuiet DEF v
    <2>2. OnWire(v, x) <= OnWire(w, x)
      <3>1. /\ Granting(w.cmds, x) \in Nat /\ Granting(w.pending, x) \in Nat
            /\ Granting(w.sent, x) \in Nat /\ Carrying(w.inbound, x) \in Nat
        BY <1>6, WireWorth
      <3>2. Granting(<< >>, x) = 0 /\ Carrying(<< >>, x) = 0
        BY SumEmpty DEF Granting, Carrying
      <3>3. 0 + 0 + Granting(w.sent, x) + 0
            <= Granting(w.cmds, x) + Granting(w.pending, x) + Granting(w.sent, x) + Carrying(w.inbound, x)
        BY ONLY <3>1
      <3>. QED
        BY <1>3, <3>2, <3>3 DEF OnWire
    <2>3. Carries(c, x)
      BY <1>3, <2>2, ShedsCarries DEF w, v
    <2>4. Accounts(x)
      BY <1>3, <1>7, SeveredAccounts DEF Accounts, v
    <2>. QED
      BY <1>2, <2>1, <2>3, <2>4, SteadyAt
  <1>12. Limits'
    <2>1. \A x \in Streams : Len(sub'[x].sink) <= Window
      BY <1>1, <1>2 DEF Limits
    <2>. QED
      BY <1>2, <1>5, <1>9, <2>1, RepliedLimits DEF v
  <1>13. Placed'
    <2>1. \A x \in Streams : sub'[x] = sub[x] /\ (sub[x].phase = "idle" => server'[x] = server[x])
      BY <1>2, <1>11 DEF Steady, Accounts
    <2>2. w.state # "unused" /\ v.state # "unused" /\ UNCHANGED slot
      BY <1>2, <1>3
    <2>. QED
      BY <1>2, <1>5, <1>9, <2>1, <2>2, RepliedPlaced DEF w, v
  <1>14. \A d \in Conns : \A id \in Owed(d) : Wanted(id) => Wanted(id)'
    BY <1>1, <1>2, <1>5, WantedSame, OwedType DEF Replied
  <1>15. Tended(c)'
    BY <1>3 DEF Tended, Running, v
  <1>16. ASSUME NEW k \in Calls PROVE Truthful(k)'
    <2>1. CASE ~told(k)
      BY <1>2, <1>4, <1>10, <2>1, TruthfulKeeps
    <2>2. CASE told(k)
      <3>1. /\ call[k].phase = "waiting" /\ Id(k) \in Riding(c)
            /\ call'[k].phase = "waiting" /\ call'[k].reply = "Disconnected" /\ Id(k)' = Id(k)
        BY <1>5, <2>2 DEF told, Replied, Id
      <3>2. Id(k) \in Held(c)
        BY <1>1, <3>1, RidingOwed, OwedType
      <3>3. ASSUME NEW d \in Conns PROVE Id(k) \notin Owed(d)'
        <4>1. CASE d = c
          BY <1>3, <4>1, NothingIn DEF Owed, v
        <4>2. CASE d # c
          <5>1. call[k].at = c
            BY <3>1, <3>2 DEF IInv, Homes, CallHomes
          <5>2. Id(k) \notin Held(d)
            BY <3>1, <4>2, <5>1 DEF IInv, Homes, CallHomes
          <5>3. Id(k) \notin Owed(d)
            BY <1>1, <5>2, OwedType
          <5>. QED
            BY <1>10, <5>3 DEF Fades, Recedes
        <4>. QED
          BY <4>1, <4>2
      <3>4. Told(k)' = "Disconnected"
        BY <3>1 DEF Told
      <3>. QED
        BY <3>1, <3>3, <3>4 DEF Truthful
    <2>. QED
      BY <2>1, <2>2
  <1>17. Answering'
    BY <1>16 DEF Answering
  <1>. QED
    BY <1>10, <1>11, <1>12, <1>13, <1>14, <1>15, <1>17, StepKeeps

LEMMA RunEndsKeeps ==
    ASSUME IInv, NEW c \in Conns, RunEnds(c)
    PROVE  IInv'
  <1>1. Typed /\ Running(c)
    BY DEF IInv, RunEnds
  <1>2. Typed' /\ Ends(c)
    BY <1>1, RunEndsEffect DEF Ends
  <1>. QED
    BY <1>2, EndsKeeps

LEMMA AbandonKeeps ==
    ASSUME IInv, NEW c \in Conns, Abandon(c)
    PROVE  IInv'
  <1>1. Typed /\ Running(c)
    BY DEF IInv, Abandon
  <1>2. Typed' /\ Ends(c)
    BY <1>1, AbandonEffect DEF Ends
  <1>. QED
    BY <1>2, EndsKeeps

-----------------------------------------------------------------------------
(* The server's own steps. *)

\* Steps at a connection that leave callers and consumers as they were.
LEMMA PlainLimits ==
    ASSUME IInv, NEW c \in Conns, Elsewhere(c), Filled(conn'[c]), UNCHANGED <<call, sub>>
    PROVE  Limits'
  <1>1. \A k \in Calls : Replied(k)
    BY DEF Replied
  <1>2. \A x \in Streams : Len(sub'[x].sink) <= Window
    BY DEF IInv, Limits
  <1>. QED
    BY <1>1, <1>2, RepliedLimits

LEMMA PlainPlaced ==
    ASSUME IInv, NEW c \in Conns, Elsewhere(c), conn[c].state # "unused",
           conn'[c].state # "unused", Sound(conn'[c]), UNCHANGED <<slot, call, sub>>,
           \A x \in Streams : sub[x].phase = "idle" => server'[x] = server[x]
    PROVE  Placed'
  <1>1. \A k \in Calls : Replied(k)
    BY DEF Replied
  <1>2. \A x \in Streams : sub'[x] = sub[x] /\ (sub[x].phase = "idle" => server'[x] = server[x])
    OBVIOUS
  <1>3. UNCHANGED slot
    OBVIOUS
  <1>. QED
    BY <1>1, <1>2, <1>3, RepliedPlaced

LEMMA PlainWaiting ==
    ASSUME IInv, NEW c \in Conns, Elsewhere(c), UNCHANGED <<call, sub>>,
           conn'[c].state = conn[c].state, conn'[c].waiters = conn[c].waiters,
           conn'[c].cmds = conn[c].cmds, conn'[c].lost = conn[c].lost
    PROVE  Waiting'
  <1>1. Typed /\ Waiting
    BY DEF IInv
  <1>2. \A d \in Conns : \A id \in Owed(d) : Wanted(id) => Wanted(id)'
    BY <1>1, WantedSame, OwedType
  <1>3. Tended(c)'
    BY TendedStill
  <1>. QED
    BY <1>1, <1>2, <1>3, WaitingAt

\* The next request, as the connection has it.
LEMMA NextSentKnown ==
    ASSUME IInv, NEW c \in Conns, conn[c].sent # << >>
    PROVE  /\ NextSent(c) \in Message /\ NextSent(c) \in OnItsWay(c)
           /\ NextSent(c).id \in Named(c) /\ NextSent(c).kind # "Forget"
           /\ NextSent(c).kind \in Opening => NextSent(c).id \in Asked(c)
           /\ NextSent(c) = Head(conn[c].sent)
  <1>1. NextSent(c) \in Message /\ NextSent(c) \in OnItsWay(c)
        /\ NextSent(c).kind \in {"Call", "Stream", "Credit", "Cancel"}
    BY NextSentType DEF IInv
  <1>2. NextSent(c).id \in Named(c)
    BY <1>1 DEF Named, Ids
  <1>3. NextSent(c).kind \in Opening => NextSent(c).id \in Asked(c)
    BY <1>1 DEF Asked, Opens
  <1>. QED
    BY <1>1, <1>2, <1>3 DEF NextSent

\* The server takes a request off the wire and may answer it there.
Takes(c, m) ==
    LET w == conn[c]
        v == conn'[c]
    IN  /\ Elsewhere(c) /\ w.sent # << >> /\ m = Head(w.sent) /\ v.sent = Tail(w.sent)
        /\ v.state = w.state /\ v.alive = w.alive /\ v.cmds = w.cmds /\ v.pending = w.pending
        /\ v.waiters = w.waiters /\ v.lost = w.lost
        /\ \/ v.inbound = w.inbound
           \/ /\ w.alive /\ Len(w.inbound) < Queue
              /\ \E f \in Answer : f.id = m.id /\ f.n = 0 /\ v.inbound = Append(w.inbound, f)
        /\ UNCHANGED <<slot, call, sub, closed>>

LEMMA TakesShape ==
    ASSUME IInv, Typed', NEW c \in Conns, NEW m, Takes(c, m)
    PROVE  /\ Limits' /\ Waiting' /\ Single(conn'[c]) /\ Sound(conn'[c])
           /\ conn[c].state # "unused" /\ m = NextSent(c)
           /\ OnItsWay(c)' \subseteq OnItsWay(c) /\ Owed(c)' = Owed(c)
           /\ Asked(c)' \subseteq Asked(c) /\ Held(c)' \subseteq Held(c) \cup {m.id}
           /\ Named(c)' \subseteq Named(c)
           /\ (m.kind \in Opening => m.id \notin Asked(c)' /\ m.id \in Asked(c))
           /\ \A f \in Arriving(c)' : f \in Arriving(c) \/ f.id = m.id
           /\ \A x : /\ Carrying(conn'[c].inbound, x) = Carrying(conn[c].inbound, x)
                     /\ Granting(conn'[c].sent, x) \in Nat /\ Grant(m, x) \in Nat
                     /\ Granting(conn[c].sent, x) = Granting(conn'[c].sent, x) + Grant(m, x)
  <1>. DEFINE w == conn[c]
              v == conn'[c]
  <1>1. /\ Elsewhere(c) /\ w.sent # << >> /\ m = Head(w.sent) /\ v.sent = Tail(w.sent)
        /\ v.state = w.state /\ v.alive = w.alive /\ v.cmds = w.cmds /\ v.pending = w.pending
        /\ v.waiters = w.waiters /\ v.lost = w.lost
        /\ \/ v.inbound = w.inbound
           \/ /\ w.alive /\ Len(w.inbound) < Queue
              /\ \E f \in Answer : f.id = m.id /\ f.n = 0 /\ v.inbound = Append(w.inbound, f)
    BY DEF Takes
  <1>2. UNCHANGED <<slot, call, sub, closed>>
    BY DEF Takes
  <1>3. Typed /\ Limits /\ Placed
    BY DEF IInv
  <1>4. w \in Wire /\ v \in Wire /\ Sound(w) /\ Filled(w) /\ Single(w)
    BY <1>3, WireType, SoundIs, FilledIs, SingleIs DEF Typed
  <1>5. /\ m \in Message /\ m.id \in Named(c) /\ (m.kind \in Opening => m.id \in Asked(c))
        /\ m = NextSent(c)
    BY <1>1, NextSentKnown DEF NextSent
  <1>6. w.inbound \in Seq(Answer) /\ w.sent \in Seq(Message)
    BY <1>3, WireType
  <1>. HIDE DEF w, v
  <1>7. /\ Single(v) /\ ToSet(w.sent) = ToSet(v.sent) \cup {m}
        /\ Len(v.sent) = Len(w.sent) - 1 /\ Len(w.sent) \in Nat
        /\ Opens({m}) \cap (Asks(v.cmds) \cup Asks(v.pending) \cup Asks(v.sent)) = {}
        /\ Asks(w.sent) = Asks(v.sent) \cup Opens({m})
    <2>1. Passes(w, v)
      BY <1>1, <1>4 DEF Passes
    <2>. QED
      BY <1>1, <1>4, <2>1, SentTail
  <1>8. /\ ToSet(v.inbound) \subseteq ToSet(w.inbound) \cup {f \in Answer : f.id = m.id}
        /\ Len(v.inbound) <= Queue
        /\ v.alive \/ v.inbound = w.inbound
        /\ \A x : Carrying(v.inbound, x) = Carrying(w.inbound, x)
    <2>1. CASE v.inbound = w.inbound
      BY <1>4, <2>1 DEF Filled
    <2>2. CASE /\ w.alive /\ Len(w.inbound) < Queue
               /\ \E f \in Answer : f.id = m.id /\ f.n = 0 /\ v.inbound = Append(w.inbound, f)
      <3>1. PICK f \in Answer : f.id = m.id /\ f.n = 0 /\ v.inbound = Append(w.inbound, f)
        BY <2>2
      <3>2. ToSet(v.inbound) = ToSet(w.inbound) \cup {f}
        BY <1>6, <3>1, SetAppend
      <3>3. Len(v.inbound) <= Queue
        <4>1. Len(w.inbound) \in Nat /\ Len(v.inbound) = Len(w.inbound) + 1
          BY <1>6, <3>1, AppendShape
        <4>. QED
          BY <2>2, <4>1, Limit
      <3>4. ASSUME NEW x PROVE Carrying(v.inbound, x) = Carrying(w.inbound, x)
        <4>1. Cargo(f, x) = 0
          BY <3>1 DEF Cargo, Worth
        <4>2. Carrying(w.inbound, x) \in Nat
              /\ Carrying(v.inbound, x) = Carrying(w.inbound, x) + Cargo(f, x)
          BY <1>6, <3>1, CarryingAppend
        <4>. QED
          BY <4>1, <4>2
      <3>. QED
        BY <1>1, <2>2, <3>1, <3>2, <3>3, <3>4
    <2>. QED
      BY <1>1, <2>1, <2>2
  <1>9. Sound(v) /\ w.state # "unused"
    BY <1>1, <1>4, <1>8 DEF Sound
  <1>10. Filled(v)
    BY <1>1, <1>4, <1>7, <1>8, Limit DEF Filled
  <1>11. Limits'
    BY <1>1, <1>2, <1>10, PlainLimits DEF v
  <1>12. Waiting'
    BY <1>1, <1>2, PlainWaiting DEF w, v
  <1>13. OnItsWay(c)' \subseteq OnItsWay(c) /\ Owed(c)' = Owed(c)
    BY <1>1, <1>7 DEF OnItsWay, Owed, w, v
  <1>14. Asked(c)' \subseteq Asked(c) /\ Ids(OnItsWay(c))' \subseteq Ids(OnItsWay(c))
    BY <1>13 DEF Asked, Opens, Ids
  <1>15. \A f \in Arriving(c)' : f \in Arriving(c) \/ f.id = m.id
    BY <1>8 DEF Arriving, w, v
  <1>16. Ids(Arriving(c))' \subseteq Ids(Arriving(c)) \cup {m.id}
    BY <1>15 DEF Ids
  <1>17. Held(c)' \subseteq Held(c) \cup {m.id} /\ Named(c)' \subseteq Named(c) \cup {m.id}
    <2>1. Held(c)' = Asked(c)' \cup Ids(Arriving(c))' \cup v.waiters
      BY DEF Held, v
    <2>2. Named(c)' = Ids(OnItsWay(c))' \cup Ids(Arriving(c))' \cup v.waiters
      BY DEF Named, v
    <2>. QED
      BY <1>1, <1>14, <1>16, <2>1, <2>2 DEF Held, Named, w
  <1>18. m.kind \in Opening => m.id \notin Asked(c)'
    <2>1. Asked(c)' = Asks(v.cmds) \cup Asks(v.pending) \cup Asks(v.sent)
      <3>1. \A L, M, N : Opens(L \cup M \cup N) = Opens(L) \cup Opens(M) \cup Opens(N)
        BY OpensThree
      <3>2. Asked(c)' = Opens(ToSet(v.cmds) \cup ToSet(v.pending) \cup ToSet(v.sent))
        BY DEF Asked, OnItsWay, v
      <3>. QED
        BY <3>1, <3>2 DEF Asks
    <2>2. m.kind \in Opening => m.id \in Opens({m})
      BY OpensOne
    <2>. QED
      BY <1>7, <2>1, <2>2
  <1>19. \A x : /\ Granting(v.sent, x) \in Nat /\ Grant(m, x) \in Nat
                /\ Granting(w.sent, x) = Granting(v.sent, x) + Grant(m, x)
    BY <1>1, <1>6, GrantingTail
  <1>. QED
    BY <1>5, <1>7, <1>8, <1>9, <1>11, <1>12, <1>13, <1>14, <1>15, <1>17, <1>18, <1>19 DEF w, v

LEMMA ServeCallTakes ==
    ASSUME Typed, NEW c \in Conns, NEW o \in Outcomes, ServeCall(c, o)
    PROVE  /\ Takes(c, NextSent(c)) /\ NextSent(c).kind = "Call" /\ NextSent(c).id \in Attempts
           /\ \A f \in Arriving(c)' :
                 f \in Arriving(c) \/ (f.id = NextSent(c).id /\ f.kind = o)
  <1>. DEFINE w == conn[c]
              v == conn'[c]
              m == NextSent(c)
              f == Frame(o, m.id, 0)
  <1>1. /\ Elsewhere(c) /\ w.sent # << >> /\ m.kind = "Call" /\ m.id \in Attempts
        /\ v = [w EXCEPT !.sent = Tail(@), !.inbound = IF w.alive THEN Append(@, f) ELSE @]
        /\ UNCHANGED <<slot, call, sub, server, closed>>
        /\ w.alive => Len(w.inbound) < Queue
    BY ServeCallEffect
  <1>2. w \in Wire /\ w.inbound \in Seq(Answer)
    BY WireType
  <1>3. /\ v.state = w.state /\ v.alive = w.alive /\ v.cmds = w.cmds /\ v.pending = w.pending
        /\ v.waiters = w.waiters /\ v.lost = w.lost /\ v.sent = Tail(w.sent)
        /\ v.inbound = IF w.alive THEN Append(w.inbound, f) ELSE w.inbound
    BY <1>1, <1>2 DEF Wire
  <1>4. f \in Answer /\ f.id = m.id /\ f.n = 0 /\ f.kind = o
    BY <1>1, FrameType DEF Frame
  <1>5. m = Head(w.sent)
    BY DEF NextSent
  <1>. HIDE DEF w, v, m, f
  <1>6. w.alive \in BOOLEAN
    BY WireType DEF w
  <1>7. \/ v.inbound = w.inbound
        \/ /\ w.alive /\ Len(w.inbound) < Queue
           /\ \E g \in Answer : g.id = m.id /\ g.n = 0 /\ v.inbound = Append(w.inbound, g)
    BY <1>1, <1>3, <1>4, <1>6
  <1>8. ToSet(v.inbound) \subseteq ToSet(w.inbound) \cup {f}
    BY <1>2, <1>3, <1>6, SetAppend
  <1>9. \A g \in Arriving(c)' : g \in Arriving(c) \/ (g.id = m.id /\ g.kind = o)
    BY <1>4, <1>8 DEF Arriving, w, v
  <1>10. Takes(c, m)
    BY <1>1, <1>3, <1>5, <1>7 DEF Takes, w, v
  <1>. QED
    BY <1>1, <1>9, <1>10 DEF m

LEMMA ServeCallKeeps ==
    ASSUME IInv, NEW c \in Conns, NEW o \in Outcomes, ServeCall(c, o)
    PROVE  IInv'
  <1>1. Typed /\ Limits /\ Placed /\ Exchanged /\ Apart
    BY DEF IInv
  <1>2. PICK m : m = NextSent(c)
    OBVIOUS
  <1>3. /\ Takes(c, m) /\ m.kind = "Call" /\ m.id \in Attempts
        /\ \A f \in Arriving(c)' : f \in Arriving(c) \/ (f.id = m.id /\ f.kind = o)
    BY <1>1, <1>2, ServeCallTakes
  <1>4. /\ Typed' /\ Elsewhere(c) /\ UNCHANGED <<slot, call, sub, server, closed>>
        /\ executed' = IF o = "Ack" THEN executed \cup {m.id} ELSE executed
    BY <1>1, <1>2, ServeCallEffect
  <1>5. /\ Limits' /\ Waiting' /\ Single(conn'[c]) /\ Sound(conn'[c])
        /\ conn[c].state # "unused" /\ m = NextSent(c)
        /\ OnItsWay(c)' \subseteq OnItsWay(c) /\ Owed(c)' = Owed(c)
        /\ Asked(c)' \subseteq Asked(c) /\ Held(c)' \subseteq Held(c) \cup {m.id}
        /\ Named(c)' \subseteq Named(c)
        /\ (m.kind \in Opening => m.id \notin Asked(c)' /\ m.id \in Asked(c))
        /\ \A x : /\ Carrying(conn'[c].inbound, x) = Carrying(conn[c].inbound, x)
                  /\ Granting(conn'[c].sent, x) \in Nat /\ Grant(m, x) \in Nat
                  /\ Granting(conn[c].sent, x) = Granting(conn'[c].sent, x) + Grant(m, x)
    BY <1>3, <1>4, TakesShape
  <1>6. /\ conn'[c].state = conn[c].state /\ conn'[c].alive = conn[c].alive
        /\ conn'[c].cmds = conn[c].cmds /\ conn'[c].pending = conn[c].pending
    BY <1>3 DEF Takes
  <1>7. m.id \in Asked(c) /\ m.id \notin Asked(c)' /\ m.id \notin Streams
    BY <1>3, <1>5, Limit DEF Opening
  <1>8. \A d \in Conns : d # c => /\ Asked(d)' = Asked(d) /\ Held(d)' = Held(d) /\ Named(d)' = Named(d)
                                  /\ Arriving(d)' = Arriving(d) /\ Owed(d)' = Owed(d)
                                  /\ OnItsWay(d)' = OnItsWay(d)
    BY <1>4, StillAt DEF Elsewhere
  <1>9. \A d \in Conns : /\ Asked(d)' \subseteq Asked(d) /\ Held(d)' \subseteq Held(d)
                         /\ Named(d)' \subseteq Named(d) /\ Owed(d)' = Owed(d)
    BY <1>5, <1>7, <1>8 DEF Held
  <1>10. \A d \in Conns : m.id \notin Asked(d)'
    BY <1>1, <1>7, <1>8 DEF Apart
  <1>11. Apart'
    <2>1. \A d \in Conns : Single(conn'[d])
      BY <1>1, <1>4, <1>5 DEF Apart, Elsewhere
    <2>2. \A d, e \in Conns : d # e => Asked(d)' \cap Asked(e)' = {}
      BY <1>1, <1>9 DEF Apart
    <2>. QED
      BY <2>1, <2>2 DEF Apart
  <1>12. Homes'
    <2>1. \A d \in Conns : \A x \in Streams : x \in Named(d) => sub[x].at = d
      BY DEF IInv, Homes, StreamHomes
    <2>2. \A d \in Conns : \A k \in Calls :
             call[k].phase = "waiting" /\ Id(k) \in Held(d) => call[k].at = d
      BY DEF IInv, Homes, CallHomes
    <2>3. \A k \in Calls : Id(k)' = Id(k)
      BY <1>4 DEF Id
    <2>4. StreamHomes'
      BY <1>4, <1>9, <2>1 DEF StreamHomes
    <2>5. CallHomes'
      BY <1>4, <1>9, <2>2, <2>3 DEF CallHomes
    <2>. QED
      BY <2>4, <2>5 DEF Homes
  <1>13. Spent'
    <2>1. \A k \in Calls : \A t \in 1 .. Retries + 1 :
             Known(<<k, t>>) => /\ t <= call[k].tries
                                /\ call[k].phase = "sending" => t < call[k].tries
      BY DEF IInv, Spent
    <2>2. \A id : Known(id)' => Known(id)
      <3>1. SUFFICES ASSUME NEW id, id \in executed' \/ \E d \in Conns : id \in Held(d)'
                     PROVE  Known(id)
        BY DEF Known
      <3>2. m.id \in Held(c)
        BY <1>7 DEF Held
      <3>. QED
        BY <1>4, <1>9, <3>1, <3>2 DEF Known
    <2>. QED
      BY <1>4, <2>1, <2>2 DEF Spent
  <1>14. Exchanged'
    <2>1. \A d, e \in Conns : Ids(Arriving(d)) \cap Asked(e) \subseteq Streams
      BY <1>1 DEF Exchanged
    <2>2. \A d \in Conns : executed \cap Asked(d) = {}
      BY <1>1 DEF Exchanged
    <2>3. \A d \in Conns : \A f \in Arriving(d) :
             /\ f.kind = "Ack" => f.id \in executed
             /\ f.kind \in {"Refused", "Fatal"} => f.id \notin executed
      BY <1>1 DEF Exchanged
    <2>4. \A d \in Conns : \A f \in Arriving(d)' : f \in Arriving(d) \/ (f.id = m.id /\ f.kind = o)
      BY <1>3, <1>8
    <2>5. ASSUME NEW d \in Conns, NEW e \in Conns, NEW id \in Ids(Arriving(d))', id \in Asked(e)'
          PROVE  id \in Streams
      <3>1. PICK f \in Arriving(d)' : f.id = id
        BY DEF Ids
      <3>2. f \in Arriving(d)
        BY <1>10, <2>4, <2>5, <3>1
      <3>3. id \in Ids(Arriving(d))
        BY <3>1, <3>2 DEF Ids
      <3>. QED
        BY <1>9, <2>1, <2>5, <3>3
    <2>6. \A d \in Conns : executed' \cap Asked(d)' = {}
      BY <1>4, <1>9, <1>10, <2>2
    <2>7. ASSUME NEW d \in Conns, NEW f \in Arriving(d)'
          PROVE  /\ f.kind = "Ack" => f.id \in executed'
                 /\ f.kind \in {"Refused", "Fatal"} => f.id \notin executed'
      <3>1. CASE f \in Arriving(d)
        <4>1. f.id # m.id
          <5>1. f.id \in Ids(Arriving(d))
            BY <3>1 DEF Ids
          <5>. QED
            BY <1>7, <2>1, <5>1
        <4>. QED
          BY <1>4, <2>3, <3>1, <4>1
      <3>2. CASE f.id = m.id /\ f.kind = o
        <4>1. m.id \notin executed
          BY <1>7, <2>2
        <4>. QED
          BY <1>4, <3>2, <4>1
      <3>. QED
        BY <2>4, <3>1, <3>2
    <2>8. \A d, e \in Conns : Ids(Arriving(d))' \cap Asked(e)' \subseteq Streams
      BY <2>5
    <2>. QED
      BY <2>6, <2>7, <2>8 DEF Exchanged
  <1>15. Answering'
    <2>. SUFFICES ASSUME NEW k \in Calls PROVE Truthful(k)'
      BY DEF Answering
    <2>1. Truthful(k)
      BY DEF IInv, Answering
    <2>2. Told(k)' = Told(k) /\ Id(k)' = Id(k) /\ call'[k] = call[k]
      BY <1>4 DEF Told, Id
    <2>3. Told(k) = "Ack" => Id(k) \in executed'
      BY <1>4, <2>1 DEF Truthful
    <2>4. Told(k) \in {"Refused", "Fatal"} =>
             Id(k) \notin executed' /\ \A d \in Conns : Id(k) \notin Asked(d)'
      BY <1>4, <1>7, <1>9, <2>1 DEF Truthful
    <2>5. call[k].phase = "waiting" /\ call[k].reply # "none" =>
             \A d \in Conns : Id(k) \notin Owed(d)'
      BY <1>9, <2>1 DEF Truthful
    <2>. QED
      BY <2>1, <2>2, <2>3, <2>4, <2>5 DEF Truthful
  <1>16. Placed'
    <2>1. conn[c].state # "unused" /\ conn'[c].state # "unused" /\ Sound(conn'[c])
      BY <1>5, <1>6
    <2>. QED
      BY <1>4, <2>1, PlainPlaced
  <1>17. \A x \in Streams : Steady(x)
    <2>. SUFFICES ASSUME NEW x \in Streams PROVE Steady(x)
      OBVIOUS
    <2>1. Quiet(c, x)
      BY <1>3, <1>5, <1>6, <1>7 DEF Quiet
    <2>2. conn[c] \in Wire
      BY <1>1, WireType
    <2>3. Grant(m, x) = 0
      BY <1>3 DEF Grant, Worth
    <2>4. Granting(conn'[c].sent, x) = Granting(conn[c].sent, x)
      BY <1>5, <2>3
    <2>5. OnWire(conn'[c], x) = OnWire(conn[c], x) /\ OnWire(conn[c], x) \in Nat
      BY <1>5, <1>6, <2>2, <2>4, WireWorth DEF OnWire
    <2>6. Carries(c, x)
      BY <1>5, <1>6, <2>5 DEF Carries
    <2>. QED
      BY <1>4, <2>1, <2>6, SteadyAt DEF Accounts
  <1>18. \A x \in Streams : Flows(x)' /\ Heard(x)' /\ Balanced(x)'
    BY <1>4, <1>12, <1>17, SteadyKeeps DEF Homes
  <1>. QED
    BY <1>4, <1>5, <1>11, <1>12, <1>13, <1>14, <1>15, <1>16, <1>18
    DEF IInv, Streaming, Listening, Conserved

LEMMA ServeStreamTakes ==
    ASSUME IInv, NEW c \in Conns, ServeStream(c)
    PROVE  /\ Takes(c, NextSent(c)) /\ NextSent(c).kind \in {"Stream", "Credit", "Cancel"}
           /\ NextSent(c).id \in Streams /\ conn[c].alive
           /\ \A f \in Arriving(c)' :
                 \/ f \in Arriving(c)
                 \/ /\ f.id = NextSent(c).id
                    /\ f.kind \in Final => \/ NextSent(c).kind = "Cancel"
                                           \/ /\ NextSent(c).kind # "Stream"
                                              /\ server[NextSent(c).id].phase # "live"
  <1>. DEFINE w == conn[c]
              v == conn'[c]
              m == NextSent(c)
              live == server[m.id].phase = "live"
  <1>1. /\ Elsewhere(c) /\ w.sent # << >> /\ m \in Message
        /\ m.kind \in {"Stream", "Credit", "Cancel"} /\ w.alive /\ m.id \in Streams
        /\ Len(w.inbound) < Queue
        /\ \E kind \in {"Ok", "End", "Error"} :
              /\ v = [w EXCEPT !.sent = Tail(@), !.inbound = Append(@, Frame(kind, m.id, 0))]
              /\ kind \in Final => m.kind = "Cancel" \/ ~live
              /\ m.kind = "Stream" => kind = "Ok"
        /\ UNCHANGED <<slot, call, sub, executed, closed>>
    BY ServeStreamEffect
  <1>2. PICK kind \in {"Ok", "End", "Error"} :
              /\ v = [w EXCEPT !.sent = Tail(@), !.inbound = Append(@, Frame(kind, m.id, 0))]
              /\ kind \in Final => m.kind = "Cancel" \/ ~live
              /\ m.kind = "Stream" => kind = "Ok"
    BY <1>1
  <1>3. w \in Wire /\ w.inbound \in Seq(Answer)
    BY WireType DEF IInv
  <1>. DEFINE f == Frame(kind, m.id, 0)
  <1>4. /\ v.state = w.state /\ v.alive = w.alive /\ v.cmds = w.cmds /\ v.pending = w.pending
        /\ v.waiters = w.waiters /\ v.lost = w.lost /\ v.sent = Tail(w.sent)
        /\ v.inbound = Append(w.inbound, f)
    BY <1>2, <1>3 DEF Wire
  <1>5. f \in Answer /\ f.id = m.id /\ f.n = 0 /\ f.kind = kind
    BY <1>1, FrameType DEF Frame
  <1>6. m = Head(w.sent)
    BY DEF NextSent
  <1>7. kind \in Final => m.kind = "Cancel" \/ (m.kind # "Stream" /\ ~live)
    BY <1>2 DEF Final
  <1>. HIDE DEF w, v, m, f, live
  <1>8. ToSet(v.inbound) \subseteq ToSet(w.inbound) \cup {f}
    BY <1>3, <1>4, SetAppend
  <1>9. \A g \in Arriving(c)' : g \in Arriving(c) \/ g = f
    BY <1>8 DEF Arriving, w, v
  <1>10. /\ w.alive /\ Len(w.inbound) < Queue
         /\ \E g \in Answer : g.id = m.id /\ g.n = 0 /\ v.inbound = Append(w.inbound, g)
    BY <1>1, <1>4, <1>5
  <1>11. Takes(c, m)
    BY <1>1, <1>4, <1>6, <1>10 DEF Takes, w, v
  <1>. QED
    BY <1>1, <1>5, <1>7, <1>9, <1>11 DEF w, m, live

\* What the server makes of a request of a stream.
Made(x, m) ==
    IF m.kind = "Stream" THEN [server[x] EXCEPT !.phase = "live", !.credit = m.n]
    ELSE IF m.kind = "Cancel" THEN Over
    ELSE IF server[x].phase = "live" THEN [server[x] EXCEPT !.credit = server[x].credit + m.n]
    ELSE server[x]

LEMMA MadeShape ==
    ASSUME NEW x, NEW m, server[x] \in Account, m.kind \in {"Stream", "Credit", "Cancel"}
    PROVE  /\ m.kind = "Stream" => Made(x, m).phase = "live" /\ Made(x, m).credit = m.n
           /\ m.kind = "Cancel" => Made(x, m).phase = "ended" /\ Made(x, m).credit = 0
           /\ m.kind = "Credit" /\ server[x].phase = "live" =>
                 Made(x, m).phase = "live" /\ Made(x, m).credit = server[x].credit + m.n
           /\ m.kind = "Credit" /\ server[x].phase # "live" => Made(x, m) = server[x]
  BY OverIs DEF Made, Account

LEMMA ServedStream ==
    ASSUME IInv, Typed', NEW c \in Conns, NEW x \in Streams, NEW m, Takes(c, m), m.id = x,
           m.kind \in {"Stream", "Credit", "Cancel"}, conn[c].alive, sub' = sub,
           server'[x] = Made(x, m), StreamHomes',
           \A f \in Arriving(c)' :
              \/ f \in Arriving(c)
              \/ /\ f.id = x
                 /\ f.kind \in Final =>
                       m.kind = "Cancel" \/ (m.kind # "Stream" /\ server[x].phase # "live")
    PROVE  Flows(x)' /\ Heard(x)' /\ Balanced(x)'
  <1>. DEFINE s == server[x]
              t == server'[x]
  <1>1. Typed /\ Placed /\ Homes /\ Flows(x) /\ Heard(x) /\ Balanced(x)
    BY DEF IInv, Streaming, Listening, Conserved
  <1>2. s \in Account
    BY <1>1 DEF Typed
  <1>3. /\ Single(conn'[c]) /\ m = NextSent(c)
        /\ OnItsWay(c)' \subseteq OnItsWay(c) /\ Owed(c)' = Owed(c)
        /\ Asked(c)' \subseteq Asked(c) /\ Named(c)' \subseteq Named(c)
        /\ (m.kind \in Opening => m.id \notin Asked(c)' /\ m.id \in Asked(c))
        /\ \A y : /\ Carrying(conn'[c].inbound, y) = Carrying(conn[c].inbound, y)
                  /\ Granting(conn'[c].sent, y) \in Nat /\ Grant(m, y) \in Nat
                  /\ Granting(conn[c].sent, y) = Granting(conn'[c].sent, y) + Grant(m, y)
    BY TakesShape
  <1>4. /\ conn'[c].alive = conn[c].alive /\ Elsewhere(c)
        /\ conn'[c].cmds = conn[c].cmds /\ conn'[c].pending = conn[c].pending
        /\ conn[c].sent # << >>
    BY DEF Takes
  <1>5. m \in Message /\ m \in OnItsWay(c) /\ x \in Named(c)
    BY <1>3, <1>4, NextSentKnown
  <1>6. sub[x].at = c /\ sub[x].phase # "idle"
    BY <1>1, <1>5, HomeOf
  <1>7. /\ m.kind = "Stream" => t.phase = "live" /\ t.credit = m.n
        /\ m.kind = "Cancel" => t.phase = "ended" /\ t.credit = 0
        /\ m.kind = "Credit" /\ s.phase = "live" => t.phase = "live" /\ t.credit = s.credit + m.n
        /\ m.kind = "Credit" /\ s.phase # "live" => t = s
    BY <1>2, MadeShape
  <1>8. Asking(c, x) /\ Coming(c, x) /\ Going(c, x) /\ Served(x)
    BY <1>1 DEF Flows
  <1>9. /\ m.kind = "Credit" => s.phase # "none"
        /\ m.kind = "Cancel" => sub[x].phase = "dropped"
    BY <1>5, <1>8 DEF Going
  <1>10. m.kind = "Stream" => /\ x \in Asked(c) /\ x \notin Asked(c)'
                              /\ s.phase # "live" /\ s.credit = 0
                              /\ (sub[x].phase # "dropped" => s.phase = "none")
    BY <1>3, <1>8 DEF Asking, Served, Opening
  <1>11. s.phase \in {"none", "live", "ended"}
    BY <1>2 DEF Account
  <1>. HIDE DEF s, t
  <1>12. t.phase # "none" /\ (Through(x) => Through(x)')
    BY <1>7, <1>9, <1>10, <1>11 DEF Through, s, t
  <1>13. Flows(x)'
    <2>1. Served(x)'
      <3>1. t.phase # "live" => t.credit = 0
        BY <1>7, <1>8 DEF Served, s
      <3>2. \A f \in ToSet(sub[x].sink) : f.id = x /\ (f.kind \in Final => Through(x)')
        BY <1>8, <1>12 DEF Served
      <3>. QED
        BY <1>12, <3>1, <3>2 DEF Served, t
    <2>2. ASSUME NEW d \in Conns PROVE Asking(d, x)' /\ Coming(d, x)' /\ Going(d, x)'
      <3>1. CASE d # c
        <4>1. Asked(d)' = Asked(d) /\ Arriving(d)' = Arriving(d) /\ OnItsWay(d)' = OnItsWay(d)
              /\ Named(d)' = Named(d)
          BY <1>4, <3>1, StillAt DEF Elsewhere
        <4>2. x \notin Named(d)
          BY <1>1, <1>6, <3>1 DEF Homes, StreamHomes
        <4>3. x \notin Ids(OnItsWay(d)) /\ x \notin Ids(Arriving(d)) /\ x \notin Asked(d)
          BY <4>2, AskedOf DEF Named
        <4>4. \A f \in OnItsWay(d) : f.id # x
          BY <4>3 DEF Ids
        <4>5. \A f \in Arriving(d) : f.id # x
          BY <4>3 DEF Ids
        <4>. QED
          BY <4>1, <4>3, <4>4, <4>5 DEF Asking, Coming, Going
      <3>2. CASE d = c
        <4>1. Asking(c, x)'
          <5>1. SUFFICES ASSUME x \in Asked(c)'
                         PROVE  t.phase # "live" /\ (sub[x].phase # "dropped" => t.phase = "none")
            BY DEF Asking, t
          <5>2. /\ x \in Asked(c) /\ s.phase # "live"
                /\ (sub[x].phase # "dropped" => s.phase = "none")
            BY <1>3, <1>8, <5>1 DEF Asking, s
          <5>. QED
            BY <1>7, <1>9, <1>10, <5>1, <5>2
        <4>2. Coming(c, x)'
          <5>1. SUFFICES ASSUME NEW f \in Arriving(c)', f.id = x, f.kind \in Final
                         PROVE  Through(x)'
            BY <1>12 DEF Coming, t
          <5>2. CASE f \in Arriving(c)
            BY <1>8, <1>12, <5>1, <5>2 DEF Coming
          <5>3. CASE m.kind = "Cancel" \/ (m.kind # "Stream" /\ s.phase # "live")
            BY <1>7, <1>9, <1>11, <5>3 DEF Through, t, s
          <5>. QED
            BY <5>1, <5>2, <5>3 DEF s
        <4>3. Going(c, x)'
          BY <1>3, <1>8, <1>12 DEF Going, t
        <4>. QED
          BY <3>2, <4>1, <4>2, <4>3
      <3>. QED
        BY <3>1, <3>2
    <2>. QED
      BY <2>1, <2>2 DEF Flows
  <1>14. Up(x)' => Up(x) /\ ~(m.kind = "Cancel") /\ ~(m.kind = "Credit" /\ s.phase # "live")
    <2>1. Up(x)' => sub[x].phase = "open" /\ ~sub[x].overrun /\ t.phase # "ended"
      BY DEF Up, t
    <2>2. Up(x)' => s.phase # "ended" /\ ~(m.kind = "Cancel") /\ ~(m.kind = "Credit" /\ s.phase # "live")
      BY <1>7, <1>9, <1>10, <1>11, <2>1
    <2>. QED
      BY <1>6, <2>1, <2>2 DEF Up, s
  <1>15. Heard(x)'
    <2>1. Up(x)' => x \in Owed(c)
      BY <1>1, <1>6, <1>14 DEF Heard
    <2>. QED
      BY <1>3, <1>6, <2>1 DEF Heard
  <1>16. Balanced(x)'
    <2>. DEFINE a == Granting(conn[c].cmds, x)
                b == Granting(conn[c].pending, x)
                d == Granting(conn[c].sent, x)
                d1 == Granting(conn'[c].sent, x)
                e == Carrying(conn[c].inbound, x)
                g == Grant(m, x)
                h == InHand(sub[x], x)
                o == s.credit
                o1 == t.credit
    <2>1. /\ a \in Nat /\ b \in Nat /\ d \in Nat /\ e \in Nat /\ h \in Nat /\ o \in Nat
          /\ Window \in Nat
      BY <1>1, Shares, Limit DEF s
    <2>2. d1 \in Nat /\ g \in Nat /\ d = d1 + g
      BY <1>3
    <2>3. m.kind # "Cancel" => g = m.n
      BY DEF Grant, Worth
    <2>4. /\ m.kind = "Stream" => o1 = g /\ o = 0
          /\ m.kind = "Cancel" => o1 = 0
          /\ m.kind = "Credit" /\ s.phase = "live" => o1 = o + g
          /\ m.kind = "Credit" /\ s.phase # "live" => o1 = o
      BY <1>7, <1>10, <2>3
    <2>5. Total(x) = o + (a + b + d + e) + h
      BY <1>6 DEF Total, OnWire, s
    <2>6. Total(x)' = o1 + (a + b + d1 + e) + h
      BY <1>3, <1>4, <1>6 DEF Total, OnWire, t
    <2>7. Total(x) <= Window /\ (Up(x) => Total(x) = Window)
      BY <1>1, <1>6 DEF Balanced
    <2>. HIDE DEF a, b, d, d1, e, g, h, o, o1
    <2>8. m.kind = "Stream" \/ (m.kind = "Credit" /\ s.phase = "live") =>
             o1 + (a + b + d1 + e) + h = o + (a + b + d + e) + h
      BY ONLY <2>1, <2>2, <2>4
    <2>9. m.kind = "Cancel" \/ (m.kind = "Credit" /\ s.phase # "live") =>
             o1 + (a + b + d1 + e) + h <= o + (a + b + d + e) + h /\ o1 \in Nat
      BY ONLY <2>1, <2>2, <2>4
    <2>10. CASE m.kind = "Stream" \/ (m.kind = "Credit" /\ s.phase = "live")
      <3>1. Total(x)' = Total(x)
        BY <2>5, <2>6, <2>8, <2>10
      <3>. QED
        BY <1>14, <2>7, <3>1 DEF Balanced
    <2>11. CASE m.kind = "Cancel" \/ (m.kind = "Credit" /\ s.phase # "live")
      <3>1. Total(x)' <= Total(x) /\ Total(x) \in Nat /\ Total(x)' \in Nat
        BY ONLY <2>1, <2>2, <2>5, <2>6, <2>9, <2>11
      <3>2. Total(x)' <= Window
        BY ONLY <2>1, <2>7, <3>1
      <3>. QED
        BY <1>14, <2>11, <3>2 DEF Balanced
    <2>. QED
      BY <2>10, <2>11
  <1>. QED
    BY <1>13, <1>15, <1>16

LEMMA ServeStreamKeeps ==
    ASSUME IInv, NEW c \in Conns, ServeStream(c)
    PROVE  IInv'
  <1>1. Typed /\ Placed /\ Homes
    BY DEF IInv
  <1>2. PICK m : m = NextSent(c)
    OBVIOUS
  <1>3. /\ Takes(c, m) /\ m.kind \in {"Stream", "Credit", "Cancel"}
        /\ m.id \in Streams /\ conn[c].alive
        /\ \A f \in Arriving(c)' :
              \/ f \in Arriving(c)
              \/ /\ f.id = m.id
                 /\ f.kind \in Final =>
                       m.kind = "Cancel" \/ (m.kind # "Stream" /\ server[m.id].phase # "live")
    BY <1>2, ServeStreamTakes
  <1>4. PICK x \in Streams : x = m.id
    BY <1>3
  <1>5. /\ Typed' /\ Elsewhere(c) /\ UNCHANGED <<slot, call, sub, executed, closed>>
        /\ server' = [server EXCEPT ![x] =
               IF m.kind = "Stream" THEN [@ EXCEPT !.phase = "live", !.credit = m.n]
               ELSE IF m.kind = "Cancel" THEN Over
               ELSE IF server[x].phase = "live" THEN [@ EXCEPT !.credit = server[x].credit + m.n] ELSE @]
    BY <1>2, <1>4, ServeStreamEffect
  <1>6. server'[x] = Made(x, m) /\ \A y \in Streams : y # x => server'[y] = server[y]
    <2>1. server \in [Streams -> Account]
      BY <1>1 DEF Typed
    <2>. QED
      BY <1>5, <2>1 DEF Made
  <1>7. /\ Limits' /\ Waiting' /\ Single(conn'[c]) /\ Sound(conn'[c])
        /\ conn[c].state # "unused" /\ m = NextSent(c)
        /\ OnItsWay(c)' \subseteq OnItsWay(c) /\ Owed(c)' = Owed(c)
        /\ Asked(c)' \subseteq Asked(c) /\ Held(c)' \subseteq Held(c) \cup {m.id}
        /\ Named(c)' \subseteq Named(c)
        /\ \A f \in Arriving(c)' : f \in Arriving(c) \/ f.id = m.id
        /\ \A y : /\ Carrying(conn'[c].inbound, y) = Carrying(conn[c].inbound, y)
                  /\ Granting(conn'[c].sent, y) \in Nat /\ Grant(m, y) \in Nat
                  /\ Granting(conn[c].sent, y) = Granting(conn'[c].sent, y) + Grant(m, y)
    BY <1>3, <1>5, TakesShape
  <1>8. /\ conn'[c].state = conn[c].state /\ conn'[c].alive = conn[c].alive
        /\ conn'[c].cmds = conn[c].cmds /\ conn'[c].pending = conn[c].pending
        /\ conn[c].sent # << >>
    BY <1>3 DEF Takes
  <1>9. x \notin Attempts
    BY Limit
  <1>10. Settles(c)
    <2>1. Recedes(c)
      BY <1>4, <1>7, <1>9 DEF Recedes
    <2>2. Onward
      BY <1>1, <1>5, OnwardSame
    <2>. QED
      BY <1>5, <1>7, <2>1, <2>2 DEF Settles
  <1>11. sub[x].phase # "idle" /\ sub[x].at = c
    <2>1. x \in Named(c)
      BY <1>4, <1>7, <1>8, NextSentKnown
    <2>. QED
      BY <1>1, <2>1, HomeOf
  <1>12. Placed'
    <2>1. \A y \in Streams : sub[y].phase = "idle" => server'[y] = server[y]
      BY <1>6, <1>11
    <2>2. conn[c].state # "unused" /\ conn'[c].state # "unused" /\ UNCHANGED <<slot, call, sub>>
      BY <1>5, <1>7, <1>8
    <2>. QED
      BY <1>5, <1>7, <2>1, <2>2, PlainPlaced
  <1>13. Apart' /\ Homes' /\ Spent' /\ Exchanged' /\ Fades
    BY <1>5, <1>10, <1>12, SettledKeeps
  <1>14. Answering'
    BY <1>5, <1>13, AnsweringKeeps
  <1>15. ASSUME NEW y \in Streams, y # x PROVE Flows(y)' /\ Heard(y)' /\ Balanced(y)'
    <2>1. Quiet(c, y)
      BY <1>4, <1>7, <1>8, <1>15 DEF Quiet
    <2>2. conn[c] \in Wire
      BY <1>1, WireType
    <2>3. Grant(m, y) = 0
      BY <1>4, <1>15 DEF Grant, Worth
    <2>4. Granting(conn'[c].sent, y) = Granting(conn[c].sent, y)
      BY <1>7, <2>3
    <2>5. OnWire(conn'[c], y) = OnWire(conn[c], y) /\ OnWire(conn[c], y) \in Nat
      BY <1>7, <1>8, <2>2, <2>4, WireWorth DEF OnWire
    <2>6. Carries(c, y)
      BY <1>7, <1>8, <2>5 DEF Carries
    <2>7. Steady(y)
      BY <1>5, <1>6, <1>15, <2>1, <2>6, SteadyAt DEF Accounts
    <2>. QED
      BY <1>5, <1>13, <2>7, SteadyKeeps DEF Homes
  <1>16. Flows(x)' /\ Heard(x)' /\ Balanced(x)'
    BY <1>3, <1>4, <1>5, <1>6, <1>13, ServedStream DEF Homes
  <1>17. \A y \in Streams : Flows(y)' /\ Heard(y)' /\ Balanced(y)'
    BY <1>15, <1>16
  <1>. QED
    BY <1>5, <1>7, <1>12, <1>13, <1>14, <1>17 DEF IInv, Streaming, Listening, Conserved

LEMMA PushKeeps ==
    ASSUME IInv, NEW x \in Streams, NEW n \in 1 .. Window, Push(x, n)
    PROVE  IInv'
  <1>. DEFINE f == Frame("Records", x, n)
  <1>1. Typed /\ Placed /\ Homes /\ Limits
    BY DEF IInv
  <1>2. PICK c : c = sub[x].at
    OBVIOUS
  <1>. DEFINE w == conn[c]
              v == conn'[c]
              s == server[x]
              t == server'[x]
  <1>3. /\ Typed' /\ c \in Conns /\ Elsewhere(c) /\ s.phase = "live"
        /\ v = [w EXCEPT !.inbound = Append(@, f)] /\ f \in Answer
        /\ Len(w.inbound) < Queue /\ n \in 0 .. Window /\ n <= s.credit
        /\ server' = [server EXCEPT ![x].credit = @ - n, ![x].left = @ - n]
        /\ UNCHANGED <<slot, call, sub, executed, closed>>
    BY <1>1, <1>2, PushEffect
  <1>4. w \in Wire /\ w.inbound \in Seq(Answer) /\ Sound(w) /\ Filled(w) /\ Single(w)
    BY <1>1, <1>3, WireType, SoundIs, FilledIs, SingleIs
  <1>5. /\ v.state = w.state /\ v.alive = w.alive /\ v.cmds = w.cmds /\ v.pending = w.pending
        /\ v.waiters = w.waiters /\ v.lost = w.lost /\ v.sent = w.sent
        /\ v.inbound = Append(w.inbound, f)
    BY <1>3, <1>4 DEF Wire
  <1>6. w.alive
    BY <1>2 DEF Push, Room
  <1>7. f.id = x /\ f.kind = "Records" /\ f.n = n
    BY DEF Frame
  <1>8. t.phase = "live" /\ t.credit = s.credit - n /\ \A y \in Streams : y # x => server'[y] = server[y]
    <2>1. server \in [Streams -> Account]
      BY <1>1 DEF Typed
    <2>. QED
      BY <1>3, <2>1 DEF Account
  <1>9. sub[x].phase # "idle"
    BY <1>1, <1>3 DEF Placed
  <1>. HIDE DEF w, v, s, t, f
  <1>10. ToSet(v.inbound) = ToSet(w.inbound) \cup {f} /\ Len(v.inbound) <= Queue
    <2>1. Len(w.inbound) \in Nat /\ Len(v.inbound) = Len(w.inbound) + 1
      BY <1>3, <1>4, <1>5, AppendShape
    <2>2. Len(v.inbound) <= Queue
      BY <1>3, <2>1, Limit DEF w
    <2>. QED
      BY <1>3, <1>4, <1>5, <2>2, SetAppend
  <1>11. OnItsWay(c)' = OnItsWay(c) /\ Owed(c)' = Owed(c)
         /\ \A g \in Arriving(c)' : g \in Arriving(c) \/ g = f
    BY <1>5, <1>10 DEF OnItsWay, Owed, Arriving, w, v
  <1>12. Asked(c)' = Asked(c) /\ Held(c)' \subseteq Held(c) \cup {x} /\ Named(c)' \subseteq Named(c) \cup {x}
    <2>1. Asked(c)' = Asked(c) /\ Ids(OnItsWay(c))' = Ids(OnItsWay(c))
      BY <1>11 DEF Asked, Ids
    <2>2. Ids(Arriving(c))' \subseteq Ids(Arriving(c)) \cup {x}
      BY <1>7, <1>11 DEF Ids
    <2>3. Held(c)' = Asked(c)' \cup Ids(Arriving(c))' \cup v.waiters
      BY DEF Held, v
    <2>4. Named(c)' = Ids(OnItsWay(c))' \cup Ids(Arriving(c))' \cup v.waiters
      BY DEF Named, v
    <2>. QED
      BY <1>5, <2>1, <2>2, <2>3, <2>4 DEF Held, Named, w
  <1>13. x \notin Attempts
    BY Limit
  <1>14. Sound(v) /\ Filled(v) /\ Single(v) /\ v.state = "running" /\ w.state = "running"
    BY <1>4, <1>5, <1>6, <1>10 DEF Sound, Filled, Single
  <1>15. Settles(c)
    <2>1. Recedes(c)
      BY <1>7, <1>11, <1>12, <1>13 DEF Recedes
    <2>2. Onward
      BY <1>1, <1>3, OnwardSame
    <2>3. \A y \in Streams : y \in Named(c)' => y \in Named(c) \/ sub[y].at = c
      BY <1>2, <1>12
    <2>. QED
      BY <1>3, <1>14, <2>1, <2>2, <2>3 DEF Settles, v
  <1>16. Limits' /\ Waiting'
    BY <1>3, <1>5, <1>14, PlainLimits, PlainWaiting DEF w, v
  <1>17. Placed'
    <2>1. \A y \in Streams : sub[y].phase = "idle" => server'[y] = server[y]
      BY <1>8, <1>9
    <2>. QED
      BY <1>3, <1>14, <2>1, PlainPlaced DEF w, v
  <1>18. Apart' /\ Homes' /\ Spent' /\ Exchanged' /\ Fades
    BY <1>3, <1>15, <1>17, SettledKeeps
  <1>19. Answering'
    BY <1>3, <1>18, AnsweringKeeps
  <1>20. ASSUME NEW y \in Streams, y # x PROVE Flows(y)' /\ Heard(y)' /\ Balanced(y)'
    <2>1. Quiet(c, y)
      BY <1>5, <1>7, <1>11, <1>12, <1>20 DEF Quiet, w, v
    <2>2. Cargo(f, y) = 0
      BY <1>7, <1>20 DEF Cargo, Worth
    <2>3. Carrying(v.inbound, y) = Carrying(w.inbound, y)
      <3>1. Carrying(w.inbound, y) \in Nat /\ Carrying(v.inbound, y) = Carrying(w.inbound, y) + Cargo(f, y)
        BY <1>3, <1>4, <1>5, CarryingAppend
      <3>. QED
        BY <2>2, <3>1
    <2>4. OnWire(v, y) = OnWire(w, y) /\ OnWire(w, y) \in Nat
      BY <1>4, <1>5, <2>3, WireWorth DEF OnWire
    <2>5. Carries(c, y)
      BY <1>5, <1>11, <2>4 DEF Carries, w, v
    <2>6. Steady(y)
      BY <1>3, <1>8, <1>20, <2>1, <2>5, SteadyAt DEF Accounts
    <2>. QED
      BY <1>3, <1>18, <2>6, SteadyKeeps DEF Homes
  <1>21. Flows(x) /\ Heard(x) /\ Balanced(x)
    BY DEF IInv, Streaming, Listening, Conserved
  <1>22. Through(x)' = Through(x) /\ sub' = sub
    BY <1>3, <1>8 DEF Through, s, t
  <1>23. Flows(x)'
    <2>1. Served(x)'
      BY <1>8, <1>21, <1>22 DEF Flows, Served, t
    <2>2. ASSUME NEW d \in Conns PROVE Asking(d, x)' /\ Coming(d, x)' /\ Going(d, x)'
      <3>1. Asked(d)' = Asked(d) /\ OnItsWay(d)' = OnItsWay(d) /\ conn'[d].alive = conn[d].alive
            /\ \A g \in Arriving(d)' : g \in Arriving(d) \/ g = f
        <4>1. CASE d = c
          BY <1>5, <1>11, <1>12, <4>1 DEF w, v
        <4>2. CASE d # c
          BY <1>3, <4>2, StillAt DEF Elsewhere
        <4>. QED
          BY <4>1, <4>2
      <3>2. Asking(d, x) /\ Coming(d, x) /\ Going(d, x)
        BY <1>21 DEF Flows
      <3>3. Asking(d, x)' /\ Going(d, x)'
        BY <1>3, <1>8, <1>22, <3>1, <3>2 DEF Asking, Going, s, t
      <3>4. Coming(d, x)'
        BY <1>7, <1>8, <1>22, <3>1, <3>2 DEF Coming, Final, t
      <3>. QED
        BY <3>3, <3>4
    <2>. QED
      BY <2>1, <2>2 DEF Flows
  <1>24. Up(x)' = Up(x)
    BY <1>2, <1>3, <1>5, <1>8 DEF Up, s, t, w, v
  <1>25. Heard(x)'
    BY <1>2, <1>3, <1>11, <1>21, <1>22, <1>24 DEF Heard
  <1>26. Balanced(x)'
    <2>. DEFINE a == Granting(w.cmds, x)
                b == Granting(w.pending, x)
                d == Granting(w.sent, x)
                e == Carrying(w.inbound, x)
                e1 == Carrying(v.inbound, x)
                h == InHand(sub[x], x)
                o == s.credit
                o1 == t.credit
    <2>1. /\ a \in Nat /\ b \in Nat /\ d \in Nat /\ e \in Nat /\ h \in Nat /\ o \in Nat
          /\ n \in Nat
      <3>1. /\ Granting(conn[c].cmds, x) \in Nat /\ Granting(conn[c].pending, x) \in Nat
            /\ Granting(conn[c].sent, x) \in Nat /\ Carrying(conn[c].inbound, x) \in Nat
            /\ server[x].credit \in 0 .. Window /\ InHand(sub[x], x) \in Nat
        BY <1>1, <1>3, Shares
      <3>2. \A i \in 0 .. Window : i \in Nat
        BY Limit
      <3>. QED
        BY <1>3, <3>1, <3>2 DEF s, w
    <2>2. e1 = e + n
      <3>1. Cargo(f, x) = n
        BY <1>7 DEF Cargo, Worth
      <3>. QED
        BY <1>3, <1>4, <1>5, <3>1, CarryingAppend
    <2>3. o1 = o - n
      BY <1>8
    <2>4. Total(x) = o + (a + b + d + e) + h
      BY <1>2 DEF Total, OnWire, s, w
    <2>5. Total(x)' = o1 + (a + b + d + e1) + h
      BY <1>2, <1>5, <1>22 DEF Total, OnWire, t, w, v
    <2>. HIDE DEF a, b, d, e, e1, h, o, o1
    <2>6. o1 + (a + b + d + e1) + h = o + (a + b + d + e) + h
      BY ONLY <2>1, <2>2, <2>3
    <2>. QED
      BY <1>21, <1>22, <1>24, <2>4, <2>5, <2>6 DEF Balanced
  <1>27. \A y \in Streams : Flows(y)' /\ Heard(y)' /\ Balanced(y)'
    BY <1>20, <1>23, <1>25, <1>26
  <1>. QED
    BY <1>3, <1>16, <1>17, <1>18, <1>19, <1>27 DEF IInv, Streaming, Listening, Conserved

-----------------------------------------------------------------------------
(* The callers' steps, by what they leave of the invariant. *)

LEMMA AnyConn == 1 \in Conns
  BY Limit DEF Conns

\* Steps that leave the connections and the streams alone.
LEMMA StillKeeps ==
    ASSUME IInv, Typed', Limits', Placed', UNCHANGED <<conn, sub, server, executed>>, Onward,
           Answering', \A d \in Conns : \A id \in Owed(d) : Wanted(id) => Wanted(id)'
    PROVE  IInv'
  <1>1. Typed /\ Waiting /\ 1 \in Conns
    BY AnyConn DEF IInv
  <1>2. Elsewhere(1) /\ conn'[1] = conn[1] /\ conn' = conn
    BY DEF Elsewhere
  <1>3. Settles(1)
    <2>1. Recedes(1) /\ Named(1)' = Named(1)
      BY <1>2, StillAt
    <2>2. Single(conn'[1])
      BY <1>1, <1>2, SingleIs
    <2>. QED
      BY <1>2, <2>1, <2>2 DEF Settles
  <1>4. Tended(1)'
    BY <1>1, <1>2, TendedSame DEF Waiting, Running
  <1>5. \A x \in Streams : Steady(x)
    <2>. SUFFICES ASSUME NEW x \in Streams PROVE Steady(x)
      OBVIOUS
    <2>1. Quiet(1, x)
      BY <1>2, StillAt DEF Quiet
    <2>2. Carries(1, x)
      <3>1. OnWire(conn[1], x) \in Nat
        BY <1>1, Shares
      <3>. QED
        BY <1>2, <3>1, StillAt DEF Carries
    <2>. QED
      BY <1>1, <1>2, <2>1, <2>2, SteadyAt DEF Accounts
  <1>. QED
    BY <1>1, <1>3, <1>4, <1>5, StepKeeps

\* Steps of a caller alone.
LEMMA CallerStepKeeps ==
    ASSUME IInv, Typed', UNCHANGED <<slot, conn, sub, server, executed>>, Onward, Answering',
           \A k \in Calls : call'[k].tries + call'[k].left <=
                              IF call'[k].phase = "acquiring" THEN Retries ELSE Retries + 1,
           \A k \in Calls : call'[k].phase \in {"sending", "waiting"} =>
                              call'[k].at # None /\ call'[k].tries # 0,
           \A d \in Conns : \A id \in Owed(d) : Wanted(id) => Wanted(id)'
    PROVE  IInv'
  <1>1. Limits /\ Placed
    BY DEF IInv
  <1>2. Limits'
    BY <1>1 DEF Limits
  <1>3. Placed'
    BY <1>1 DEF Placed, Dialled, Running
  <1>. QED
    BY <1>2, <1>3, StillKeeps

LEMMA AcquireKeeps ==
    ASSUME IInv, NEW k \in Calls, Acquire(k)
    PROVE  IInv'
  <1>1. Typed /\ Limits /\ Placed
    BY DEF IInv
  <1>2. /\ Typed' /\ call[k].phase = "acquiring"
        /\ \A j \in Calls : j # k => call'[j] = call[j]
        /\ call'[k].phase = "sending" /\ call'[k].tries = call[k].tries + 1
        /\ call'[k].at \in Conns
        /\ call'[k].left = call[k].left /\ call'[k].reply = call[k].reply
        /\ UNCHANGED <<slot, conn, sub, server, executed, closed>>
    BY <1>1, AcquireEffect
  <1>3. \A j \in Calls : call[j].left \in 0 .. Retries /\ call[j].tries \in 0 .. Retries + 1
    BY <1>1 DEF Typed, CallState
  <1>4. \A j \in Calls : call[j].left \in Nat /\ call[j].tries \in Nat
    BY <1>3, Limit
  <1>5. Onward
    BY <1>2, <1>4 DEF Onward
  <1>6. \A j \in Calls : call'[j].tries + call'[j].left <=
                              IF call'[j].phase = "acquiring" THEN Retries ELSE Retries + 1
    <2>1. \A j \in Calls : call[j].tries + call[j].left <=
                              IF call[j].phase = "acquiring" THEN Retries ELSE Retries + 1
      BY <1>1 DEF Limits
    <2>2. call[k].tries + call[k].left <= Retries
      BY <1>2, <2>1
    <2>3. call'[k].tries + call'[k].left <= Retries + 1
      BY <1>2, <1>4, <2>2, Limit
    <2>. QED
      BY <1>2, <2>1, <2>3
  <1>7. \A j \in Calls : call'[j].phase \in {"sending", "waiting"} =>
                              call'[j].at # None /\ call'[j].tries # 0
    <2>1. call'[k].at # None
      BY <1>2 DEF Conns, None
    <2>2. call'[k].tries # 0
      BY <1>2, <1>4
    <2>. QED
      BY <1>1, <1>2, <2>1, <2>2 DEF Placed
  <1>8. ASSUME NEW d \in Conns, NEW id \in Owed(d), Wanted(id) PROVE Wanted(id)'
    <2>1. id \in Exchanges
      BY <1>1, OwedType
    <2>2. CASE id \in Streams
      BY <1>2, <1>8, <2>2 DEF Wanted, IsCall
    <2>3. CASE id \notin Streams
      <3>1. CallerOf(id) \in Calls
        BY <2>1, <2>3 DEF CallerOf, Attempts, Exchanges
      <3>2. CallerOf(id) # k
        BY <1>2, <1>8, <2>3 DEF Wanted, IsCall, Awaits
      <3>. QED
        BY <1>2, <1>8, <2>3, <3>1, <3>2 DEF Wanted, IsCall, Awaits, Id
    <2>. QED
      BY <2>2, <2>3
  <1>9. Answering'
    <2>1. Fades
      <3>1. \A c \in Conns : Recedes(c)
        BY <1>2, StillAt
      <3>. QED
        BY <3>1 DEF Fades
    <2>2. \A j \in Calls : j # k => Truthful(j)'
      BY <1>2, <2>1, TruthfulKeeps
    <2>3. Truthful(k)'
      <3>1. call'[k].reply = "none"
        BY <1>2 DEF IInv, Answering, Truthful
      <3>2. Told(k)' = "none"
        BY <1>2, <3>1 DEF Told
      <3>. QED
        BY <1>2, <3>1, <3>2 DEF Truthful
    <2>. QED
      BY <2>2, <2>3 DEF Answering
  <1>. QED
    BY <1>2, <1>5, <1>6, <1>7, <1>8, <1>9, CallerStepKeeps

\* What a caller leaves behind, where its answer was its own.
Own(k, outcome) == outcome \in {"Ack", "Refused", "Fatal"} => Told(k) = outcome

LEMMA LeavesShape ==
    ASSUME IInv, NEW k \in Calls, NEW outcome, Leaves(k, outcome), Own(k, outcome),
           Typed', Fades, executed' = executed, \A x \in Streams : sub'[x].phase = sub[x].phase
    PROVE  /\ Onward /\ Answering'
           /\ \A j \in Calls : call'[j].tries + call'[j].left <=
                              IF call'[j].phase = "acquiring" THEN Retries ELSE Retries + 1
           /\ \A j \in Calls : call'[j].phase \in {"sending", "waiting"} =>
                              call'[j].at # None /\ call'[j].tries # 0
           /\ \A id \in Exchanges : Wanted(id) =>
                 Wanted(id)' \/ (id = Id(k) /\ call[k].phase = "waiting")
  <1>1. Typed /\ Limits /\ Placed /\ Answering
    BY DEF IInv
  <1>2. /\ \A j \in Calls : j # k => call'[j] = call[j]
        /\ call'[k].phase \in {"acquiring", "done"} /\ call'[k].tries = call[k].tries
        /\ call'[k].reply = "none"
        /\ call'[k].phase = "acquiring" => call'[k].left + 1 = call[k].left
        /\ call'[k].phase = "done" => call'[k].left = call[k].left /\ call'[k].result = outcome
    BY DEF Leaves
  <1>3. \A j \in Calls : /\ call[j].left \in 0 .. Retries /\ call[j].tries \in 0 .. Retries + 1
                         /\ call'[j].left \in 0 .. Retries
    BY <1>1 DEF Typed, CallState
  <1>4. \A j \in Calls : call[j].left \in Nat /\ call[j].tries \in Nat /\ call'[j].left \in Nat
    BY <1>3, Limit
  <1>5. Onward
    BY <1>2, <1>4 DEF Onward
  <1>6. \A j \in Calls : call'[j].tries + call'[j].left <=
                              IF call'[j].phase = "acquiring" THEN Retries ELSE Retries + 1
    <2>1. \A j \in Calls : call[j].tries + call[j].left <=
                              IF call[j].phase = "acquiring" THEN Retries ELSE Retries + 1
      BY <1>1 DEF Limits
    <2>2. call[k].tries + call[k].left <= Retries + 1
      <3>1. call[k].tries + call[k].left <= Retries \/ call[k].tries + call[k].left <= Retries + 1
        BY <2>1
      <3>. QED
        BY <1>4, <3>1, Limit
    <2>3. CASE call'[k].phase = "acquiring"
      <3>1. call'[k].tries + call'[k].left <= Retries
        BY <1>2, <1>4, <2>2, <2>3, Limit
      <3>. QED
        BY <1>2, <2>1, <2>3, <3>1
    <2>4. CASE call'[k].phase = "done"
      <3>1. call'[k].tries + call'[k].left <= Retries + 1
        BY <1>2, <2>2, <2>4
      <3>. QED
        BY <1>2, <2>1, <2>4, <3>1
    <2>. QED
      BY <1>2, <2>3, <2>4
  <1>7. \A j \in Calls : call'[j].phase \in {"sending", "waiting"} =>
                              call'[j].at # None /\ call'[j].tries # 0
    BY <1>1, <1>2 DEF Placed
  <1>8. ASSUME NEW id \in Exchanges, Wanted(id)
        PROVE  Wanted(id)' \/ (id = Id(k) /\ call[k].phase = "waiting")
    <2>1. CASE id \in Streams
      BY <1>8, <2>1 DEF Wanted, IsCall
    <2>2. CASE id \notin Streams
      <3>1. CallerOf(id) \in Calls /\ call[CallerOf(id)].phase = "waiting" /\ Id(CallerOf(id)) = id
        BY <1>8, <2>2 DEF CallerOf, Attempts, Exchanges, Wanted, IsCall, Awaits
      <3>2. CASE CallerOf(id) = k
        BY <3>1, <3>2
      <3>3. CASE CallerOf(id) # k
        BY <1>2, <1>8, <2>2, <3>1, <3>3 DEF Wanted, IsCall, Awaits, Id
      <3>. QED
        BY <3>2, <3>3
    <2>. QED
      BY <2>1, <2>2
  <1>9. Answering'
    <2>1. \A j \in Calls : j # k => Truthful(j)'
      BY <1>2, TruthfulKeeps
    <2>2. Truthful(k)'
      <3>1. Truthful(k) /\ Id(k)' = Id(k)
        BY <1>1, <1>2 DEF Answering, Id
      <3>2. Told(k)' = "none" \/ Told(k)' = outcome
        BY <1>2 DEF Told
      <3>3. Told(k)' \in {"Ack", "Refused", "Fatal"} => Told(k)' = Told(k)
        BY <3>2 DEF Own
      <3>4. \A c \in Conns : Asked(c)' \subseteq Asked(c)
        BY DEF Fades, Recedes
      <3>. QED
        BY <1>2, <3>1, <3>3, <3>4 DEF Truthful
    <2>. QED
      BY <2>1, <2>2 DEF Answering
  <1>. QED
    BY <1>5, <1>6, <1>7, <1>8, <1>9

LEMMA LeavesKeeps ==
    ASSUME IInv, Typed', NEW k \in Calls, NEW outcome, Leaves(k, outcome), Own(k, outcome),
           call[k].phase = "waiting" => call[k].reply # "none",
           UNCHANGED <<slot, conn, sub, server, executed, closed>>
    PROVE  IInv'
  <1>1. Fades
    <2>1. \A c \in Conns : Recedes(c)
      BY StillAt
    <2>. QED
      BY <2>1 DEF Fades
  <1>2. \A x \in Streams : sub'[x].phase = sub[x].phase
    OBVIOUS
  <1>3. /\ Onward /\ Answering'
        /\ \A j \in Calls : call'[j].tries + call'[j].left <=
                              IF call'[j].phase = "acquiring" THEN Retries ELSE Retries + 1
        /\ \A j \in Calls : call'[j].phase \in {"sending", "waiting"} =>
                              call'[j].at # None /\ call'[j].tries # 0
        /\ \A id \in Exchanges : Wanted(id) =>
                 Wanted(id)' \/ (id = Id(k) /\ call[k].phase = "waiting")
    BY <1>1, <1>2, LeavesShape
  <1>4. ASSUME NEW d \in Conns, NEW id \in Owed(d), Wanted(id) PROVE Wanted(id)'
    <2>1. id \in Exchanges
      BY OwedType DEF IInv
    <2>2. call[k].phase = "waiting" => id # Id(k)
      BY DEF IInv, Answering, Truthful
    <2>. QED
      BY <1>3, <1>4, <2>1, <2>2
  <1>. QED
    BY <1>3, <1>4, CallerStepKeeps

LEMMA ReturnsKeeps ==
    ASSUME IInv, NEW k \in Calls,
           AcquireFails(k) \/ SendTimeout(k) \/ Reply(k)
    PROVE  IInv'
  <1>1. Typed /\ Answering
    BY DEF IInv
  <1>2. CASE AcquireFails(k) \/ SendTimeout(k)
    <2>1. PICK o \in {"Closed", "Connect", "Timeout"} : Returns(k, o) /\ call[k].phase # "waiting"
      BY <1>2 DEF AcquireFails, SendTimeout
    <2>2. o \in Results /\ Own(k, o)
      BY DEF Results, Transient, Own
    <2>. QED
      BY <1>1, <2>1, <2>2, ReturnsEffect, LeavesKeeps
  <1>3. CASE Reply(k)
    <2>1. PICK o : o = call[k].reply
      OBVIOUS
    <2>2. Returns(k, o) /\ call[k].phase = "waiting" /\ o # "none"
      BY <1>3, <2>1 DEF Reply
    <2>3. o \in Results
      <3>1. call[k].reply \in Outcomes \cup {"none", "Disconnected"}
        BY <1>1 DEF Typed, CallState
      <3>. QED
        BY <2>1, <2>2, <3>1 DEF Results, Transient
    <2>4. Own(k, o)
      BY <2>1, <2>2 DEF Own, Told
    <2>5. /\ Typed' /\ Leaves(k, o)
          /\ UNCHANGED <<slot, conn, sub, server, executed, closed>>
      BY <1>1, <2>2, <2>3, ReturnsEffect
    <2>. QED
      BY <2>1, <2>2, <2>4, <2>5, LeavesKeeps
  <1>. QED
    BY <1>2, <1>3

-----------------------------------------------------------------------------
(* Commands that open nothing, by what they leave of the invariant. *)

\* A task that is over takes no commands.
Heeds(c) == ~Running(c) => conn'[c].cmds = conn[c].cmds

LEMMA QueueShape ==
    ASSUME IInv, NEW c \in Conns, NEW id, NEW kinds, Queues(c, id, kinds), Heeds(c),
           kinds \cap Opening = {}
    PROVE  /\ Single(conn'[c]) /\ Filled(conn'[c]) /\ Sound(conn'[c])
           /\ Asked(c)' = Asked(c) /\ Arriving(c)' = Arriving(c) /\ Owed(c)' = Owed(c)
           /\ Held(c)' = Held(c) /\ Named(c)' \subseteq Named(c) \cup {id} /\ Recedes(c)
           /\ \A m \in OnItsWay(c)' : m \in OnItsWay(c) \/ (m.id = id /\ m.kind \in kinds)
  <1>. DEFINE w == conn[c]
              v == conn'[c]
  <1>1. w \in Wire /\ w.cmds \in Seq(Message) /\ Sound(w) /\ Filled(w) /\ Single(w)
    BY WireType, SoundIs, FilledIs, SingleIs DEF IInv
  <1>2. /\ Longer(w.cmds, v.cmds, id, kinds)
        /\ v.state = w.state /\ v.alive = w.alive /\ v.waiters = w.waiters
        /\ v.pending = w.pending /\ v.sent = w.sent /\ v.inbound = w.inbound
    BY DEF Queues
  <1>3. w.state # "running" => v.cmds = w.cmds
    BY DEF Heeds, Running
  <1>. HIDE DEF w, v
  <1>4. /\ ToSet(w.cmds) \subseteq ToSet(v.cmds) /\ Asks(v.cmds) = Asks(w.cmds)
        /\ \A m \in ToSet(v.cmds) : m \in ToSet(w.cmds) \/ (m.id = id /\ m.kind \in kinds)
        /\ Once(w.cmds) => Once(v.cmds)
    BY <1>1, <1>2, LongerShape
  <1>5. Len(v.cmds) <= Queue
    BY <1>1, <1>2 DEF Longer, Filled
  <1>6. Single(v) /\ Filled(v) /\ Sound(v)
    BY <1>1, <1>2, <1>3, <1>4, <1>5 DEF Single, Filled, Sound
  <1>7. /\ OnItsWay(c) = ToSet(w.cmds) \cup ToSet(w.pending) \cup ToSet(w.sent)
        /\ OnItsWay(c)' = ToSet(v.cmds) \cup ToSet(v.pending) \cup ToSet(v.sent)
        /\ Owed(c) = w.waiters \cup Asks(w.cmds) /\ Owed(c)' = v.waiters \cup Asks(v.cmds)
        /\ Arriving(c) = ToSet(w.inbound) /\ Arriving(c)' = ToSet(v.inbound)
    BY DEF OnItsWay, Owed, Arriving, w, v
  <1>8. /\ \A m \in OnItsWay(c)' : m \in OnItsWay(c) \/ (m.id = id /\ m.kind \in kinds)
        /\ OnItsWay(c) \subseteq OnItsWay(c)'
        /\ Arriving(c)' = Arriving(c) /\ Owed(c)' = Owed(c)
    BY <1>2, <1>4, <1>7
  <1>9. Asked(c)' = Asked(c)
    BY <1>8 DEF Asked, Opens
  <1>10. Held(c)' = Held(c)
    <2>1. Held(c)' = Asked(c)' \cup Ids(Arriving(c))' \cup v.waiters
      BY DEF Held, v
    <2>2. Held(c) = Asked(c) \cup Ids(Arriving(c)) \cup w.waiters
      BY DEF Held, w
    <2>3. Ids(Arriving(c))' = Ids(Arriving(c))
      BY <1>8
    <2>. QED
      BY <1>2, <1>9, <2>1, <2>2, <2>3
  <1>11. Named(c)' \subseteq Named(c) \cup {id}
    <2>1. Named(c)' = Ids(OnItsWay(c))' \cup Ids(Arriving(c))' \cup v.waiters
      BY DEF Named, v
    <2>2. Named(c) = Ids(OnItsWay(c)) \cup Ids(Arriving(c)) \cup w.waiters
      BY DEF Named, w
    <2>3. Ids(Arriving(c))' = Ids(Arriving(c))
      BY <1>8
    <2>4. Ids(OnItsWay(c))' \subseteq Ids(OnItsWay(c)) \cup {id}
      BY <1>8 DEF Ids
    <2>. QED
      BY <1>2, <2>1, <2>2, <2>3, <2>4
  <1>12. Recedes(c)
    BY <1>8, <1>9, <1>10 DEF Recedes
  <1>. QED
    BY <1>6, <1>8, <1>9, <1>10, <1>11, <1>12 DEF v

\* Commands of one exchange grant nothing to another, and those that are no grants nothing.
LEMMA LongerOther ==
    ASSUME NEW q \in Seq(Message), NEW r, NEW id, NEW kinds, Longer(q, r, id, kinds),
           NEW y, y # id \/ kinds \cap {"Stream", "Credit"} = {}
    PROVE  Granting(r, y) = Granting(q, y)
  <1>. DEFINE S == {"Stream", "Credit"}
  <1>1. /\ r \in Seq(Message) /\ Len(q) \in Nat /\ Len(r) \in Nat /\ Len(q) <= Len(r)
        /\ \A i \in 1 .. Len(q) : r[i] = q[i] /\ i \in 1 .. Len(r)
        /\ \A i \in 1 .. Len(r) : i \in 1 .. Len(q) \/ i > Len(q)
        /\ \A i \in 1 .. Len(r) : i > Len(q) => r[i].id = id /\ r[i].kind \in kinds
    BY DEF Longer
  <1>2. DOMAIN q = 1 .. Len(q) /\ DOMAIN r = 1 .. Len(r)
    BY <1>1
  <1>3. \A i : (i \in DOMAIN r /\ r[i].kind \in S /\ r[i].id = y)
                 <=> (i \in DOMAIN q /\ q[i].kind \in S /\ q[i].id = y)
    BY <1>1, <1>2
  <1>4. \A i \in DOMAIN q : r[i] = q[i]
    BY <1>1, <1>2
  <1>. HIDE DEF S
  <1>5. ASSUME NEW p PROVE p \in Units(S, r, y) <=> p \in Units(S, q, y)
    <2>1. p \in Units(S, r, y) <=> \E i \in DOMAIN r : /\ r[i].kind \in S /\ r[i].id = y
                                                       /\ p \in {i} \X (1 .. r[i].n)
      BY UnitsOf
    <2>2. p \in Units(S, q, y) <=> \E i \in DOMAIN q : /\ q[i].kind \in S /\ q[i].id = y
                                                       /\ p \in {i} \X (1 .. q[i].n)
      BY UnitsOf
    <2>. QED
      BY <1>3, <1>4, <2>1, <2>2
  <1>6. Units(S, r, y) = Units(S, q, y)
    BY <1>5
  <1>7. SumOf(S, r, y) = SumOf(S, q, y)
    BY <1>6 DEF SumOf
  <1>. QED
    BY <1>7 DEF Granting, S

\* What they leave alone of a stream that is not theirs.
LEMMA QueuesSteady ==
    ASSUME IInv, NEW c \in Conns, NEW id, NEW kinds, Queues(c, id, kinds), Heeds(c),
           kinds \cap Opening = {}, NEW y \in Streams, y # id,
           sub'[y] = sub[y], server'[y] = server[y]
    PROVE  Steady(y)
  <1>. DEFINE w == conn[c]
              v == conn'[c]
  <1>1. /\ Longer(w.cmds, v.cmds, id, kinds) /\ Elsewhere(c)
        /\ v.state = w.state /\ v.alive = w.alive /\ v.waiters = w.waiters
        /\ v.pending = w.pending /\ v.sent = w.sent /\ v.inbound = w.inbound
    BY DEF Queues
  <1>2. w \in Wire /\ w.cmds \in Seq(Message)
    BY WireType DEF IInv
  <1>3. Granting(v.cmds, y) = Granting(w.cmds, y)
    <2>. HIDE DEF w, v
    <2>. QED
      BY <1>1, <1>2, LongerOther
  <1>4. /\ Asked(c)' = Asked(c) /\ Arriving(c)' = Arriving(c) /\ Owed(c)' = Owed(c)
        /\ \A m \in OnItsWay(c)' : m \in OnItsWay(c) \/ m.id = id
    BY QueueShape
  <1>5. Quiet(c, y)
    BY <1>1, <1>4 DEF Quiet
  <1>6. OnWire(v, y) = OnWire(w, y) /\ OnWire(w, y) \in Nat
    <2>. HIDE DEF w, v
    <2>. QED
      BY <1>1, <1>2, <1>3, WireWorth DEF OnWire
  <1>7. Carries(c, y)
    BY <1>1, <1>4, <1>6 DEF Carries
  <1>. QED
    BY <1>1, <1>5, <1>7, SteadyAt DEF Accounts

LEMMA LimitsFrom ==
    ASSUME Limits, NEW c \in Conns, Elsewhere(c), Filled(conn'[c]),
           \A x \in Streams : Len(sub'[x].sink) <= Window,
           \A k \in Calls : call'[k].tries + call'[k].left <=
                              IF call'[k].phase = "acquiring" THEN Retries ELSE Retries + 1
    PROVE  Limits'
  <1>1. ASSUME NEW d \in Conns PROVE Filled(conn'[d])
    BY FilledIs DEF Elsewhere
  <1>. QED
    BY <1>1 DEF Limits, Filled

\* A deadline expires: the caller leaves, and a Forget goes to its connection.
LEMMA ReplyTimeoutKeeps ==
    ASSUME IInv, NEW k \in Calls, ReplyTimeout(k)
    PROVE  IInv'
  <1>1. Typed /\ Limits /\ Placed /\ Homes /\ Waiting
    BY DEF IInv
  <1>2. PICK c : c = call[k].at
    OBVIOUS
  <1>3. PICK id : id = Id(k)
    OBVIOUS
  <1>. DEFINE kinds == {"Forget"}
  <1>4. /\ Typed' /\ Leaves(k, "Timeout") /\ c \in Conns /\ id \in Attempts
        /\ call[k].phase = "waiting" /\ Queues(c, id, kinds) /\ Forgets(c, id)
        /\ UNCHANGED <<slot, sub, server, executed, closed>>
    BY <1>1, <1>2, <1>3, ReplyTimeoutEffect
  <1>5. Running(c) /\ Heeds(c)
    BY <1>2 DEF ReplyTimeout, Heeds
  <1>6. kinds \cap Opening = {}
    BY DEF Opening
  <1>. HIDE DEF kinds
  <1>7. /\ Single(conn'[c]) /\ Filled(conn'[c]) /\ Sound(conn'[c]) /\ Recedes(c)
        /\ Named(c)' \subseteq Named(c) \cup {id}
    BY <1>4, <1>5, <1>6, QueueShape
  <1>8. Elsewhere(c) /\ conn'[c].state = conn[c].state /\ conn[c].state # "unused"
    BY <1>4, <1>5 DEF Queues, Running
  <1>9. Fades
    BY <1>4, <1>7, <1>8, FadesAt
  <1>10. /\ Onward /\ Answering'
         /\ \A j \in Calls : call'[j].tries + call'[j].left <=
                              IF call'[j].phase = "acquiring" THEN Retries ELSE Retries + 1
         /\ \A j \in Calls : call'[j].phase \in {"sending", "waiting"} =>
                              call'[j].at # None /\ call'[j].tries # 0
         /\ \A e \in Exchanges : Wanted(e) => Wanted(e)' \/ e = id
    <2>1. Own(k, "Timeout") /\ \A x \in Streams : sub'[x].phase = sub[x].phase
      BY <1>4 DEF Own
    <2>. QED
      BY <1>3, <1>4, <1>9, <2>1, LeavesShape
  <1>11. Settles(c)
    <2>1. \A x \in Streams : x \in Named(c)' => x \in Named(c)
      BY <1>4, <1>7, Limit
    <2>. QED
      BY <1>4, <1>7, <1>8, <1>10, <2>1 DEF Settles
  <1>12. Limits'
    <2>1. \A x \in Streams : Len(sub'[x].sink) <= Window
      BY <1>1, <1>4 DEF Limits
    <2>. QED
      BY <1>1, <1>4, <1>7, <1>8, <1>10, <2>1, LimitsFrom
  <1>13. Placed'
    BY <1>1, <1>4, <1>7, <1>8, <1>10, PlacedAt
  <1>14. Tended(c)'
    <2>1. \A e \in Owed(c) : Wanted(e) => Wanted(e)' \/ (e = id /\ Forgets(c, id))
      BY <1>1, <1>4, <1>10, OwedType
    <2>. QED
      BY <1>1, <1>4, <1>6, <2>1, TendedQueues DEF Waiting
  <1>15. ASSUME NEW d \in Conns, d # c, NEW e \in Owed(d), Wanted(e) PROVE Wanted(e)'
    <2>1. e \in Exchanges /\ e \in Held(d)
      BY <1>1, OwedType
    <2>2. e # id
      BY <1>1, <1>2, <1>3, <1>4, <1>15, <2>1 DEF Homes, CallHomes
    <2>. QED
      BY <1>10, <1>15, <2>1, <2>2
  <1>16. \A x \in Streams : Steady(x)
    <2>1. \A x \in Streams : x # id
      BY <1>4, Limit
    <2>. QED
      BY <1>4, <1>5, <1>6, <2>1, QueuesSteady
  <1>. QED
    BY <1>4, <1>10, <1>11, <1>12, <1>13, <1>14, <1>15, <1>16, StepKeeps

\* The step of a consumer, as its own stream sees it.
LEMMA ConsumesOwn ==
    ASSUME IInv, Typed', NEW x \in Streams, NEW kinds, Consumes(x, kinds), Heeds(sub[x].at),
           kinds \cap Opening = {}
    PROVE  Flows(x)' /\ Heard(x)' /\ Balanced(x)'
  <1>1. PICK c : c = sub[x].at
    OBVIOUS
  <1>2. /\ c \in Conns /\ sub[x].phase \in {"open", "ended"} /\ Queues(c, x, kinds)
        /\ sub'[x].at = c /\ sub'[x].overrun = sub[x].overrun
        /\ ToSet(sub'[x].sink) \subseteq ToSet(sub[x].sink)
        /\ sub'[x].phase \in {"open", "ended", "dropped"}
        /\ sub'[x].phase = "open" => sub[x].phase = "open"
        /\ server[x].phase = "none" =>
              /\ "Credit" \notin kinds
              /\ sub'[x].drained = 0 /\ sub'[x].pending = 0 /\ sub'[x].sink = << >>
        /\ "Cancel" \in kinds \/ "Forget" \in kinds => sub'[x].phase = "dropped"
        /\ UNCHANGED <<slot, call, server, executed, closed>>
    BY <1>1 DEF Consumes
  <1>3. Flows(x) /\ Heard(x) /\ Balanced(x)
    BY DEF IInv, Streaming, Listening, Conserved
  <1>4. Elsewhere(c) /\ conn'[c].alive = conn[c].alive
    BY <1>2 DEF Queues
  <1>5. /\ Asked(c)' = Asked(c) /\ Arriving(c)' = Arriving(c) /\ Owed(c)' = Owed(c)
        /\ \A m \in OnItsWay(c)' : m \in OnItsWay(c) \/ (m.id = x /\ m.kind \in kinds)
    BY <1>1, <1>2, QueueShape
  <1>6. Through(x) => Through(x)'
    BY <1>2 DEF Through
  <1>7. Flows(x)'
    <2>1. Served(x)'
      BY <1>2, <1>3, <1>6 DEF Flows, Served
    <2>2. ASSUME NEW d \in Conns PROVE Asking(d, x)' /\ Coming(d, x)' /\ Going(d, x)'
      <3>1. /\ Asked(d)' = Asked(d) /\ Arriving(d)' = Arriving(d) /\ conn'[d].alive = conn[d].alive
            /\ \A m \in OnItsWay(d)' : m \in OnItsWay(d) \/ (m.id = x /\ m.kind \in kinds)
        <4>1. CASE d = c
          BY <1>4, <1>5, <4>1
        <4>2. CASE d # c
          BY <1>4, <4>2, StillAt DEF Elsewhere
        <4>. QED
          BY <4>1, <4>2
      <3>2. Asking(d, x) /\ Coming(d, x) /\ Going(d, x)
        BY <1>3 DEF Flows
      <3>3. Asking(d, x)'
        BY <1>2, <3>1, <3>2 DEF Asking
      <3>4. Coming(d, x)'
        BY <1>2, <1>6, <3>1, <3>2 DEF Coming
      <3>5. Going(d, x)'
        BY <1>2, <3>1, <3>2 DEF Going
      <3>. QED
        BY <3>3, <3>4, <3>5
    <2>. QED
      BY <2>1, <2>2 DEF Flows
  <1>8. Up(x)' => Up(x)
    BY <1>1, <1>2, <1>4 DEF Up
  <1>9. Heard(x)'
    BY <1>1, <1>2, <1>3, <1>5, <1>8 DEF Heard
  <1>10. Balanced(x)'
    <2>. DEFINE w == conn[c]
                v == conn'[c]
                a == Granting(w.cmds, x)
                a1 == Granting(v.cmds, x)
                b == Granting(w.pending, x)
                d == Granting(w.sent, x)
                e == Carrying(w.inbound, x)
                h == InHand(sub[x], x)
                h1 == InHand(sub'[x], x)
                o == server[x].credit
    <2>1. /\ a \in Nat /\ b \in Nat /\ d \in Nat /\ e \in Nat /\ h \in Nat /\ o \in Nat
      <3>1. /\ a \in Nat /\ b \in Nat /\ d \in Nat /\ e \in Nat /\ o \in 0 .. Window /\ h \in Nat
        BY <1>2, Shares DEF IInv
      <3>2. \A i \in 0 .. Window : i \in Nat
        BY Limit
      <3>. QED
        BY <3>1, <3>2
    <2>2. a1 \in Nat /\ h1 \in Nat
      <3>1. v \in Wire /\ sub'[x] \in Consumer
        BY <1>2 DEF Typed
      <3>. QED
        BY <3>1, WireWorth, InHandType
    <2>3. a1 + h1 <= a + h /\ (sub'[x].phase = "open" => a1 + h1 = a + h)
      BY <1>1 DEF Consumes
    <2>4. Total(x) = o + (a + b + d + e) + h
      BY <1>1 DEF Total, OnWire
    <2>5. Total(x)' = o + (a1 + b + d + e) + h1
      BY <1>2 DEF Total, OnWire, Queues
    <2>6. sub[x].phase # "idle" /\ Window \in Nat
      BY <1>2, Limit
    <2>7. Total(x) <= Window /\ (Up(x) => Total(x) = Window)
      BY <1>3, <2>6 DEF Balanced
    <2>8. Up(x)' => Up(x) /\ sub'[x].phase = "open"
      BY <1>8 DEF Up
    <2>. HIDE DEF a, a1, b, d, e, h, h1, o
    <2>9. o + (a1 + b + d + e) + h1 <= o + (a + b + d + e) + h
      BY ONLY <2>1, <2>2, <2>3
    <2>10. a1 + h1 = a + h => o + (a1 + b + d + e) + h1 = o + (a + b + d + e) + h
      BY ONLY <2>1, <2>2
    <2>11. o + (a1 + b + d + e) + h1 \in Nat /\ o + (a + b + d + e) + h \in Nat
      BY ONLY <2>1, <2>2
    <2>12. Total(x)' <= Window
      BY <2>4, <2>5, <2>6, <2>7, <2>9, <2>11
    <2>13. Up(x)' => Total(x)' = Window
      BY <2>3, <2>4, <2>5, <2>7, <2>8, <2>10
    <2>. QED
      BY <2>12, <2>13 DEF Balanced
  <1>. QED
    BY <1>7, <1>9, <1>10

LEMMA ConsumesKeeps ==
    ASSUME IInv, Typed', NEW x \in Streams, NEW kinds, Consumes(x, kinds), Heeds(sub[x].at)
    PROVE  IInv'
  <1>1. Typed /\ Limits /\ Placed /\ Homes /\ Waiting
    BY DEF IInv
  <1>2. PICK c : c = sub[x].at
    OBVIOUS
  <1>3. /\ c \in Conns /\ sub[x].phase \in {"open", "ended"} /\ Queues(c, x, kinds) /\ Heeds(c)
        /\ \A y \in Streams : y # x => sub'[y] = sub[y]
        /\ sub'[x].at = c /\ Len(sub'[x].sink) <= Len(sub[x].sink)
        /\ sub'[x].phase \in {"open", "ended", "dropped"}
        /\ kinds \subseteq {"Credit", "Cancel", "Forget"}
        /\ sub'[x].phase = "dropped" /\ Running(c) => Forgets(c, x)
        /\ UNCHANGED <<slot, call, server, executed, closed>>
    BY <1>2 DEF Consumes
  <1>4. kinds \cap Opening = {}
    BY <1>3 DEF Opening
  <1>5. /\ Single(conn'[c]) /\ Filled(conn'[c]) /\ Sound(conn'[c]) /\ Recedes(c)
        /\ Named(c)' \subseteq Named(c) \cup {x}
    BY <1>3, <1>4, QueueShape
  <1>6. Elsewhere(c) /\ conn'[c].state = conn[c].state /\ conn[c].state # "unused"
    BY <1>1, <1>2, <1>3 DEF Queues, Placed
  <1>7. Settles(c)
    <2>1. Onward
      BY <1>1, <1>3, OnwardSame
    <2>2. \A y \in Streams : y \in Named(c)' => y \in Named(c) \/ sub[y].at = c
      BY <1>2, <1>5
    <2>3. \A y \in Streams : sub'[y].at = sub[y].at
      BY <1>2, <1>3
    <2>. QED
      BY <1>3, <1>5, <1>6, <2>1, <2>2, <2>3 DEF Settles
  <1>8. Limits'
    <2>1. Len(sub'[x].sink) <= Window
      <3>1. sub[x].sink \in Seq(Answer) /\ sub'[x].sink \in Seq(Answer)
        BY <1>1 DEF Typed, Consumer
      <3>2. Len(sub[x].sink) \in Nat /\ Len(sub'[x].sink) \in Nat /\ Len(sub[x].sink) <= Window
        BY <1>1, <3>1 DEF Limits
      <3>. QED
        BY <1>3, <3>2, Limit
    <2>2. \A y \in Streams : Len(sub'[y].sink) <= Window
      BY <1>1, <1>3, <2>1 DEF Limits
    <2>3. \A k \in Calls : call'[k].tries + call'[k].left <=
                              IF call'[k].phase = "acquiring" THEN Retries ELSE Retries + 1
      BY <1>1, <1>3 DEF Limits
    <2>. QED
      BY <1>1, <1>3, <1>5, <1>6, <2>2, <2>3, LimitsFrom
  <1>9. Placed'
    <2>1. \A k \in Calls : call'[k].phase \in {"sending", "waiting"} =>
                              call'[k].at # None /\ call'[k].tries # 0
      BY <1>1, <1>3 DEF Placed
    <2>2. \A y \in Streams :
              \/ sub'[y] = sub[y] /\ (sub[y].phase = "idle" => server'[y] = server[y])
              \/ /\ sub'[y].phase # "idle" /\ sub'[y].at = sub[y].at /\ sub[y].phase # "idle"
              \/ /\ sub'[y].phase # "idle" /\ sub'[y].at = c
      BY <1>3
    <2>. QED
      BY <1>1, <1>3, <1>5, <1>6, <2>1, <2>2, PlacedAt
  <1>10. ASSUME NEW e \in Exchanges, Wanted(e)
         PROVE  Wanted(e)' \/ (e = x /\ sub'[x].phase = "dropped")
    <2>1. CASE e \in Streams
      BY <1>3, <1>10, <2>1 DEF Wanted, IsCall
    <2>2. CASE e \notin Streams
      BY <1>3, <1>10, <2>2 DEF Wanted, IsCall, Awaits, Id
    <2>. QED
      BY <2>1, <2>2
  <1>11. Tended(c)'
    <2>1. CASE Running(c)
      <3>1. \A e \in Owed(c) : Wanted(e) => Wanted(e)' \/ (e = x /\ Forgets(c, x))
        BY <1>1, <1>3, <1>10, <2>1, OwedType
      <3>. QED
        BY <1>1, <1>3, <1>4, <3>1, TendedQueues DEF Waiting
    <2>2. CASE ~Running(c)
      BY <1>6, <2>2 DEF Tended, Running
    <2>. QED
      BY <2>1, <2>2
  <1>12. ASSUME NEW d \in Conns, d # c, NEW e \in Owed(d), Wanted(e) PROVE Wanted(e)'
    <2>1. e \in Exchanges /\ e \in Named(d)
      BY <1>1, OwedType
    <2>2. e # x
      BY <1>1, <1>2, <1>12, <2>1 DEF Homes, StreamHomes
    <2>. QED
      BY <1>10, <1>12, <2>1, <2>2
  <1>13. Fades
    BY <1>3, <1>5, <1>6, FadesAt
  <1>14. Answering'
    BY <1>3, <1>13, AnsweringKeeps
  <1>15. \A y \in Streams : Steady(y) \/ (Flows(y)' /\ Heard(y)' /\ Balanced(y)')
    <2>1. Flows(x)' /\ Heard(x)' /\ Balanced(x)'
      BY <1>4, ConsumesOwn
    <2>2. \A y \in Streams : y # x => Steady(y)
      BY <1>3, <1>4, QueuesSteady
    <2>. QED
      BY <2>1, <2>2
  <1>. QED
    BY <1>3, <1>7, <1>8, <1>9, <1>11, <1>12, <1>14, <1>15, StepKeeps

\* A grant is sent to a task that runs.
LEMMA GrantsHeeded ==
    ASSUME NEW s, NEW x, NEW q, ~Running(s.at)
    PROVE  GrantSent(x, s, q) = q
  BY DEF GrantSent, CanGrant

LEMMA ConsumeKeeps ==
    ASSUME IInv, NEW x \in Streams, Consume(x)
    PROVE  IInv'
  <1>1. CASE Poll(x)
    <2>1. Typed' /\ Consumes(x, {"Credit"})
      BY <1>1, PollEffect
    <2>2. Heeds(sub[x].at)
      <3>. DEFINE c  == sub[x].at
                  f  == Head(sub[x].sink)
                  s0 == Earned(sub[x])
                  q  == conn[c].cmds
                  q0 == GrantSent(x, s0, q)
                  s1 == [Granted(s0, q) EXCEPT !.sink = Tail(@)]
                  s2 == Earned([s1 EXCEPT !.drained = @ + f.n])
      <3>1. conn' = [conn EXCEPT ![c].cmds = IF f.kind = "Records" THEN GrantSent(x, s2, q0) ELSE q0]
        BY <1>1 DEF Poll
      <3>2. sub[x] \in Consumer /\ c \in Conns
        BY <1>1, InHandIs DEF Poll
      <3>3. s0.at = c /\ s2.at = c
        BY <3>2 DEF Consumer, Earned, Granted
      <3>. HIDE DEF s0, s2, c, f
      <3>4. ~Running(c) => q0 = q /\ GrantSent(x, s2, q0) = q0
        BY <3>3, GrantsHeeded
      <3>. HIDE DEF q0
      <3>5. ~Running(c) => conn'[c].cmds = conn[c].cmds
        BY <3>1, <3>2, <3>4 DEF IInv, Typed, Wire
      <3>. QED
        BY <3>5 DEF Heeds, c
    <2>. QED
      BY <2>1, <2>2, ConsumesKeeps
  <1>2. CASE Regrant(x)
    <2>1. Typed' /\ Consumes(x, {"Credit"})
      BY <1>2, RegrantEffect
    <2>2. Heeds(sub[x].at)
      BY <1>2 DEF Regrant, CanGrant, Heeds
    <2>. QED
      BY <2>1, <2>2, ConsumesKeeps
  <1>3. CASE PollEnds(x)
    <2>1. Typed' /\ Consumes(x, {})
      BY <1>3, PollEndsEffect
    <2>2. Heeds(sub[x].at)
      BY <1>3 DEF PollEnds, Heeds
    <2>. QED
      BY <2>1, <2>2, ConsumesKeeps
  <1>. QED
    BY <1>1, <1>2, <1>3 DEF Consume

LEMMA DropStreamKeeps ==
    ASSUME IInv, NEW x \in Streams, DropStream(x)
    PROVE  IInv'
  <1>1. Typed' /\ Consumes(x, {"Cancel", "Forget"})
    BY DropStreamEffect
  <1>2. Heeds(sub[x].at)
    BY DEF DropStream, Heeds
  <1>. QED
    BY <1>1, <1>2, ConsumesKeeps

-----------------------------------------------------------------------------
(* Commands that open an exchange. *)

\* The command m joins the queue of a task that runs.
Joins(c, m) ==
    /\ Running(c) /\ Len(conn[c].cmds) < Queue /\ Elsewhere(c)
    /\ m \in Message /\ m.kind \in Opening
    /\ conn'[c] = [conn[c] EXCEPT !.cmds = Append(@, m)]

LEMMA JoinsShape ==
    ASSUME IInv, NEW c \in Conns, NEW m, Joins(c, m), m.id \notin Asked(c)
    PROVE  /\ Single(conn'[c]) /\ Filled(conn'[c]) /\ Sound(conn'[c])
           /\ conn'[c].cmds = Append(conn[c].cmds, m) /\ conn'[c].state = conn[c].state
           /\ conn'[c].waiters = conn[c].waiters /\ conn'[c].lost = conn[c].lost
           /\ conn'[c].alive = conn[c].alive /\ conn[c].state # "unused"
           /\ OnItsWay(c)' = OnItsWay(c) \cup {m} /\ Arriving(c)' = Arriving(c)
           /\ Asked(c)' = Asked(c) \cup {m.id} /\ Owed(c)' = Owed(c) \cup {m.id}
           /\ Held(c)' = Held(c) \cup {m.id} /\ Named(c)' = Named(c) \cup {m.id}
           /\ \A x : OnWire(conn'[c], x) = OnWire(conn[c], x) + Grant(m, x)
                     /\ OnWire(conn[c], x) \in Nat /\ Grant(m, x) \in Nat
  <1>. DEFINE w == conn[c]
              v == conn'[c]
  <1>1. w \in Wire /\ w.cmds \in Seq(Message) /\ Sound(w) /\ Filled(w) /\ Single(w)
    BY WireType, SoundIs, FilledIs, SingleIs DEF IInv
  <1>2. m \in Message /\ m.kind \in Opening /\ w.state = "running" /\ Len(w.cmds) < Queue
    BY DEF Joins, Running
  <1>3. /\ v.cmds = Append(w.cmds, m)
        /\ v.state = w.state /\ v.alive = w.alive /\ v.waiters = w.waiters
        /\ v.pending = w.pending /\ v.sent = w.sent /\ v.inbound = w.inbound /\ v.lost = w.lost
    BY <1>1 DEF Joins, Wire
  <1>4. /\ Asked(c) = Asks(w.cmds) \cup Asks(w.pending) \cup Asks(w.sent)
    BY AskedOf
  <1>5. /\ OnItsWay(c) = ToSet(w.cmds) \cup ToSet(w.pending) \cup ToSet(w.sent)
        /\ OnItsWay(c)' = ToSet(v.cmds) \cup ToSet(v.pending) \cup ToSet(v.sent)
        /\ Owed(c) = w.waiters \cup Asks(w.cmds) /\ Owed(c)' = v.waiters \cup Asks(v.cmds)
        /\ Arriving(c) = ToSet(w.inbound) /\ Arriving(c)' = ToSet(v.inbound)
        /\ Held(c) = Asked(c) \cup Ids(Arriving(c)) \cup w.waiters
        /\ Held(c)' = Asked(c)' \cup Ids(Arriving(c))' \cup v.waiters
        /\ Named(c) = Ids(OnItsWay(c)) \cup Ids(Arriving(c)) \cup w.waiters
        /\ Named(c)' = Ids(OnItsWay(c))' \cup Ids(Arriving(c))' \cup v.waiters
    BY DEF OnItsWay, Owed, Arriving, Held, Named, w, v
  <1>. HIDE DEF w, v
  <1>6. Opens({m}) = {m.id}
    BY <1>2, OpensOne
  <1>7. /\ ToSet(v.cmds) = ToSet(w.cmds) \cup {m} /\ Asks(v.cmds) = Asks(w.cmds) \cup {m.id}
        /\ Once(v.cmds)
    BY <1>1, <1>3, <1>4, <1>6, SetAppend, AsksAppend DEF Single
  <1>8. Len(v.cmds) <= Queue
    <2>1. Len(w.cmds) \in Nat /\ Len(v.cmds) = Len(w.cmds) + 1
      BY <1>1, <1>3, AppendShape
    <2>. QED
      BY <1>2, <2>1, Limit
  <1>9. Single(v)
    BY <1>1, <1>3, <1>4, <1>7 DEF Single
  <1>10. Filled(v) /\ Sound(v)
    BY <1>1, <1>2, <1>3, <1>8 DEF Filled, Sound
  <1>11. OnItsWay(c)' = OnItsWay(c) \cup {m} /\ Arriving(c)' = Arriving(c)
         /\ Owed(c)' = Owed(c) \cup {m.id}
    BY <1>3, <1>5, <1>7
  <1>12. Asked(c)' = Asked(c) \cup {m.id}
    BY <1>2, <1>11 DEF Asked, Opens
  <1>13. Ids(Arriving(c))' = Ids(Arriving(c)) /\ Ids(OnItsWay(c))' = Ids(OnItsWay(c)) \cup {m.id}
    BY <1>11 DEF Ids
  <1>14. Held(c)' = Held(c) \cup {m.id} /\ Named(c)' = Named(c) \cup {m.id}
    BY <1>3, <1>5, <1>12, <1>13
  <1>15. ASSUME NEW x
         PROVE  OnWire(v, x) = OnWire(w, x) + Grant(m, x) /\ OnWire(w, x) \in Nat /\ Grant(m, x) \in Nat
    <2>. DEFINE a == Granting(w.cmds, x)
                b == Granting(w.pending, x)
                d == Granting(w.sent, x)
                e == Carrying(w.inbound, x)
                g == Grant(m, x)
    <2>1. a \in Nat /\ b \in Nat /\ d \in Nat /\ e \in Nat
      BY <1>1, WireWorth
    <2>2. g \in Nat /\ Granting(v.cmds, x) = a + g
      BY <1>1, <1>2, <1>3, GrantingAppend
    <2>3. OnWire(w, x) = a + b + d + e
      BY DEF OnWire
    <2>4. OnWire(v, x) = (a + g) + b + d + e
      BY <1>3, <2>2 DEF OnWire
    <2>. HIDE DEF a, b, d, e, g
    <2>5. (a + g) + b + d + e = (a + b + d + e) + g /\ a + b + d + e \in Nat
      BY ONLY <2>1, <2>2
    <2>. QED
      BY <2>2, <2>3, <2>4, <2>5 DEF g
  <1>. QED
    BY <1>2, <1>3, <1>9, <1>10, <1>11, <1>12, <1>14, <1>15 DEF w, v

\* What it leaves alone of a stream that is not its own.
LEMMA JoinsSteady ==
    ASSUME IInv, NEW c \in Conns, NEW m, Joins(c, m), m.id \notin Asked(c),
           NEW y \in Streams, y # m.id, sub'[y] = sub[y], server'[y] = server[y]
    PROVE  Steady(y)
  <1>1. /\ OnItsWay(c)' = OnItsWay(c) \cup {m} /\ Arriving(c)' = Arriving(c)
        /\ Asked(c)' = Asked(c) \cup {m.id} /\ Owed(c)' = Owed(c) \cup {m.id}
        /\ conn'[c].alive = conn[c].alive
        /\ OnWire(conn'[c], y) = OnWire(conn[c], y) + Grant(m, y) /\ OnWire(conn[c], y) \in Nat
    BY JoinsShape
  <1>2. Quiet(c, y)
    BY <1>1 DEF Quiet
  <1>3. Grant(m, y) = 0
    BY DEF Grant, Worth
  <1>4. Carries(c, y)
    BY <1>1, <1>3 DEF Carries
  <1>. QED
    BY <1>2, <1>4, SteadyAt DEF Joins, Accounts

\* An exchange nobody knows of yet may be opened.
LEMMA JoinsApart ==
    ASSUME IInv, NEW c \in Conns, NEW m, Joins(c, m),
           \A d \in Conns : m.id \notin Held(d), m.id \notin executed, executed' = executed
    PROVE  Apart' /\ Exchanged'
  <1>1. \A d \in Conns : m.id \notin Asked(d) /\ m.id \notin Ids(Arriving(d))
    BY DEF Held
  <1>2. /\ Asked(c)' = Asked(c) \cup {m.id} /\ Single(conn'[c]) /\ Arriving(c)' = Arriving(c)
        /\ Elsewhere(c)
    BY <1>1, JoinsShape DEF Joins
  <1>3. \A d \in Conns : d # c => Asked(d)' = Asked(d) /\ Arriving(d)' = Arriving(d)
                                  /\ conn'[d] = conn[d]
    BY <1>2, StillAt DEF Elsewhere
  <1>4. Apart'
    BY <1>1, <1>2, <1>3 DEF IInv, Apart
  <1>5. \A d \in Conns : /\ Asked(d)' \subseteq Asked(d) \cup {m.id}
                         /\ Arriving(d)' = Arriving(d) /\ Ids(Arriving(d))' = Ids(Arriving(d))
    BY <1>2, <1>3 DEF Ids
  <1>6. Exchanged'
    <2>1. \A d, e \in Conns : Ids(Arriving(d))' \cap Asked(e)' \subseteq Streams
      BY <1>1, <1>5 DEF IInv, Exchanged
    <2>2. \A d \in Conns : executed \cap Asked(d)' = {}
      BY <1>5 DEF IInv, Exchanged
    <2>. QED
      BY <1>5, <2>1, <2>2 DEF IInv, Exchanged
  <1>. QED
    BY <1>4, <1>6

LEMMA SendsKeeps ==
    ASSUME IInv, Typed', NEW k \in Calls, Sends(k)
    PROVE  IInv'
  <1>1. Typed /\ Limits /\ Placed /\ Homes /\ Waiting /\ Spent /\ Answering
    BY DEF IInv
  <1>2. PICK c : c = call[k].at
    OBVIOUS
  <1>3. PICK id : id = Id(k)
    OBVIOUS
  <1>4. PICK m : m = Command("Call", id, 0)
    OBVIOUS
  <1>5. /\ call[k].phase = "sending" /\ Running(c) /\ Len(conn[c].cmds) < Queue /\ Elsewhere(c)
        /\ conn'[c] = [conn[c] EXCEPT !.cmds = Append(@, m)]
        /\ \A j \in Calls : j # k => call'[j] = call[j]
        /\ UNCHANGED <<slot, sub, server, executed, closed>>
    BY <1>2, <1>3, <1>4 DEF Sends
  <1>6. /\ id \in Attempts /\ c \in Conns /\ IsCall(id) /\ CallerOf(id) = k
        /\ call[k].tries \in 1 .. Retries + 1
    BY <1>1, <1>2, <1>3, <1>5, IdType
  <1>7. m \in Message /\ m.id = id /\ m.kind \in Opening
    BY <1>4, <1>6, CommandType DEF Command, Opening
  <1>8. Joins(c, m)
    BY <1>5, <1>7 DEF Joins
  <1>9. /\ call'[k].phase = "waiting" /\ call'[k].at = c /\ call'[k].tries = call[k].tries
        /\ call'[k].left = call[k].left /\ call'[k].reply = call[k].reply /\ Id(k)' = id
    BY <1>1, <1>2, <1>3 DEF Sends, Typed, CallState, Id
  <1>10. id \notin executed /\ \A d \in Conns : id \notin Held(d)
    <2>1. Known(<<k, call[k].tries>>) => call[k].tries < call[k].tries
      BY <1>1, <1>5, <1>6 DEF Spent
    <2>2. ~Known(id)
      BY <1>3, <1>6, <2>1 DEF Id
    <2>. QED
      BY <2>2 DEF Known
  <1>11. id \notin Asked(c)
    BY <1>6, <1>10 DEF Held
  <1>12. /\ Single(conn'[c]) /\ Filled(conn'[c]) /\ Sound(conn'[c])
         /\ conn'[c].cmds = Append(conn[c].cmds, m) /\ conn'[c].state = conn[c].state
         /\ conn'[c].waiters = conn[c].waiters /\ conn'[c].lost = conn[c].lost
         /\ conn[c].state # "unused"
         /\ Asked(c)' = Asked(c) \cup {id} /\ Owed(c)' = Owed(c) \cup {id}
         /\ Held(c)' = Held(c) \cup {id} /\ Named(c)' = Named(c) \cup {id}
    BY <1>6, <1>7, <1>8, <1>11, JoinsShape
  <1>13. \A d \in Conns : d # c => /\ Asked(d)' = Asked(d) /\ Owed(d)' = Owed(d)
                                   /\ Held(d)' = Held(d) /\ Named(d)' = Named(d)
    BY <1>5, StillAt DEF Elsewhere
  <1>14. Apart' /\ Exchanged'
    BY <1>5, <1>6, <1>7, <1>8, <1>10, JoinsApart
  <1>15. StreamHomes'
    <2>1. id \notin Streams
      BY <1>6, Limit
    <2>. QED
      BY <1>1, <1>5, <1>12, <1>13, <2>1 DEF Homes, StreamHomes
  <1>16. \A j \in Calls : j # k => Id(j)' = Id(j) /\ Id(j) # id
    BY <1>3, <1>5 DEF Id
  <1>17. CallHomes'
    <2>. SUFFICES ASSUME NEW d \in Conns, NEW j \in Calls, call'[j].phase = "waiting",
                         Id(j)' \in Held(d)'
                  PROVE  call'[j].at = d
      BY DEF CallHomes
    <2>1. CASE j = k
      BY <1>9, <1>10, <1>12, <1>13, <2>1
    <2>2. CASE j # k
      BY <1>1, <1>5, <1>12, <1>13, <1>16, <2>2 DEF Homes, CallHomes
    <2>. QED
      BY <2>1, <2>2
  <1>18. Spent'
    <2>. SUFFICES ASSUME NEW j \in Calls, NEW t \in 1 .. Retries + 1, Known(<<j, t>>)'
                  PROVE  /\ t <= call'[j].tries
                         /\ call'[j].phase = "sending" => t < call'[j].tries
      BY DEF Spent
    <2>1. CASE Known(<<j, t>>)
      BY <1>1, <1>5, <1>9, <2>1 DEF Spent
    <2>2. CASE ~Known(<<j, t>>)
      <3>1. <<j, t>> = id
        BY <1>5, <1>12, <1>13, <2>2 DEF Known
      <3>2. j = k /\ t = call[k].tries
        BY <1>3, <3>1 DEF Id
      <3>3. t <= call'[j].tries
        BY <1>6, <1>9, <3>2, Limit
      <3>. QED
        BY <1>9, <3>2, <3>3
    <2>. QED
      BY <2>1, <2>2
  <1>19. Answering'
    <2>1. ASSUME NEW j \in Calls, j # k PROVE Truthful(j)'
      <3>1. Truthful(j) /\ call'[j] = call[j] /\ Told(j)' = Told(j)
        BY <1>1, <1>5, <2>1 DEF Answering, Told
      <3>2. \A d \in Conns : /\ Id(j) \in Asked(d)' => Id(j) \in Asked(d)
                             /\ Id(j) \in Owed(d)' => Id(j) \in Owed(d)
        BY <1>12, <1>13, <1>16, <2>1
      <3>. QED
        BY <1>5, <1>16, <2>1, <3>1, <3>2 DEF Truthful
    <2>2. Truthful(k)'
      <3>1. call'[k].reply = "none"
        BY <1>1, <1>5, <1>9 DEF Answering, Truthful
      <3>2. Told(k)' = "none"
        BY <1>9, <3>1 DEF Told
      <3>. QED
        BY <1>9, <3>1, <3>2 DEF Truthful
    <2>. QED
      BY <2>1, <2>2 DEF Answering
  <1>20. ASSUME NEW e \in Exchanges, Wanted(e) PROVE Wanted(e)'
    <2>1. CASE e \in Streams
      BY <1>5, <1>20, <2>1 DEF Wanted, IsCall
    <2>2. CASE e \notin Streams
      <3>1. CallerOf(e) \in Calls /\ call[CallerOf(e)].phase = "waiting" /\ Id(CallerOf(e)) = e
        BY <1>20, <2>2 DEF CallerOf, Attempts, Exchanges, Wanted, IsCall, Awaits
      <3>2. CallerOf(e) # k
        BY <1>5, <3>1
      <3>. QED
        BY <1>5, <2>2, <3>1, <3>2 DEF Wanted, IsCall, Awaits, Id
    <2>. QED
      BY <2>1, <2>2
  <1>21. Wanted(id)'
    BY <1>6, <1>9 DEF Wanted, IsCall, Awaits
  <1>22. Waiting'
    <2>1. \A d \in Conns : \A e \in Owed(d) : Wanted(e) => Wanted(e)'
      BY <1>1, <1>20, OwedType
    <2>2. Tended(c)'
      BY <1>1, <1>6, <1>7, <1>12, <1>21, <2>1, TendedOpens DEF Waiting
    <2>. QED
      BY <1>1, <1>5, <1>6, <2>1, <2>2, WaitingAt
  <1>23. Limits' /\ Placed'
    <2>1. \A j \in Calls : call'[j].tries + call'[j].left <=
                              IF call'[j].phase = "acquiring" THEN Retries ELSE Retries + 1
      <3>1. call[k].tries + call[k].left <= Retries + 1
        BY <1>1, <1>5 DEF Limits
      <3>. QED
        BY <1>1, <1>5, <1>9, <3>1 DEF Limits
    <2>2. \A j \in Calls : call'[j].phase \in {"sending", "waiting"} =>
                              call'[j].at # None /\ call'[j].tries # 0
      <3>1. call'[k].at # None /\ call'[k].tries # 0
        BY <1>1, <1>2, <1>5, <1>9 DEF Placed
      <3>. QED
        BY <1>1, <1>5, <3>1 DEF Placed
    <2>3. \A x \in Streams : Len(sub'[x].sink) <= Window
      BY <1>1, <1>5 DEF Limits
    <2>4. Limits'
      BY <1>1, <1>5, <1>6, <1>12, <2>1, <2>3, LimitsFrom
    <2>5. Placed'
      BY <1>1, <1>5, <1>6, <1>12, <2>2, PlacedAt
    <2>. QED
      BY <2>4, <2>5
  <1>24. \A x \in Streams : Flows(x)' /\ Heard(x)' /\ Balanced(x)'
    <2>1. \A x \in Streams : x # id
      BY <1>6, Limit
    <2>2. \A x \in Streams : Steady(x)
      BY <1>5, <1>6, <1>7, <1>8, <1>11, <2>1, JoinsSteady
    <2>. QED
      BY <1>15, <2>2, SteadyKeeps
  <1>. QED
    BY <1>14, <1>15, <1>17, <1>18, <1>19, <1>22, <1>23, <1>24
       DEF IInv, Homes, Streaming, Listening, Conserved

LEMMA SendKeeps ==
    ASSUME IInv, NEW k \in Calls, Send(k)
    PROVE  IInv'
  <1>1. /\ call[k].phase = "sending" /\ Typed'
        /\ \/ Sends(k)
           \/ /\ Leaves(k, "Disconnected")
              /\ UNCHANGED <<slot, conn, sub, server, executed, closed>>
    BY SendEffect DEF IInv
  <1>2. Own(k, "Disconnected")
    BY DEF Own
  <1>. QED
    BY <1>1, <1>2, SendsKeeps, LeavesKeeps

\* A queue that does not name a stream carries nothing of it.
LEMMA NamesNothing ==
    ASSUME NEW S, NEW M, NEW q \in Seq(M), NEW x, x \notin Ids(ToSet(q))
    PROVE  SumOf(S, q, x) = 0
  <1>1. \A i \in DOMAIN q : q[i] \in ToSet(q)
    BY ElementOf
  <1>2. \A i \in DOMAIN q : ~(q[i].kind \in S /\ q[i].id = x)
    BY <1>1 DEF Ids
  <1>. QED
    BY <1>2, SumNone

\* The stream that is asked for, at the end that asks.
LEMMA OpensOwn ==
    ASSUME IInv, NEW c \in Conns, NEW x \in Streams, Subscribes(x, c),
           Joins(c, Command("Stream", x, Window)), \A d \in Conns : x \notin Named(d)
    PROVE  Flows(x)' /\ Heard(x)' /\ Balanced(x)'
  <1>1. PICK m : m = Command("Stream", x, Window)
    OBVIOUS
  <1>2. m.id = x /\ m.kind = "Stream" /\ m.n = Window /\ Joins(c, m)
    BY <1>1 DEF Command
  <1>3. /\ Elsewhere(c) /\ sub[x].phase = "idle" /\ UNCHANGED server
        /\ sub'[x] = [sub[x] EXCEPT !.phase = "open", !.at = c]
    BY DEF Subscribes
  <1>4. sub[x] \in Consumer /\ conn[c] \in Wire
    BY DEF IInv, Typed
  <1>5. /\ server[x].phase = "none" /\ sub[x].sink = << >>
        /\ sub[x].drained = 0 /\ sub[x].pending = 0
    BY <1>3 DEF IInv, Placed
  <1>6. /\ sub'[x].phase = "open" /\ sub'[x].at = c /\ sub'[x].sink = << >>
        /\ sub'[x].drained = 0 /\ sub'[x].pending = 0
    BY <1>3, <1>4, <1>5 DEF Consumer
  <1>7. server[x].credit = 0
    BY <1>5 DEF IInv, Streaming, Flows, Served
  <1>8. x \notin Asked(c)
    BY AskedOf DEF Named
  <1>9. /\ OnItsWay(c)' = OnItsWay(c) \cup {m} /\ Arriving(c)' = Arriving(c)
        /\ Owed(c)' = Owed(c) \cup {x}
        /\ OnWire(conn'[c], x) = OnWire(conn[c], x) + Grant(m, x)
    BY <1>2, <1>8, JoinsShape
  <1>10. Flows(x)'
    <2>1. Served(x)'
      BY <1>3, <1>5, <1>6, <1>7, NothingIn DEF Served
    <2>2. ASSUME NEW d \in Conns PROVE Asking(d, x)' /\ Coming(d, x)' /\ Going(d, x)'
      <3>1. /\ Arriving(d)' = Arriving(d)
            /\ \A n \in OnItsWay(d)' : n \in OnItsWay(d) \/ n = m
        BY <1>3, <1>9, StillAt DEF Elsewhere
      <3>2. /\ \A f \in Arriving(d) : f.id # x
            /\ \A n \in OnItsWay(d) : n.id # x
        BY DEF Named, Ids
      <3>3. Asking(d, x)'
        BY <1>3, <1>5 DEF Asking
      <3>4. Coming(d, x)' /\ Going(d, x)'
        BY <1>2, <3>1, <3>2 DEF Coming, Going
      <3>. QED
        BY <3>3, <3>4
    <2>. QED
      BY <2>1, <2>2 DEF Flows
  <1>11. Heard(x)'
    BY <1>6, <1>9 DEF Heard
  <1>12. Balanced(x)'
    <2>1. OnWire(conn[c], x) = 0
      <3>1. /\ conn[c].cmds \in Seq(Message) /\ conn[c].pending \in Seq(Message)
            /\ conn[c].sent \in Seq(Message) /\ conn[c].inbound \in Seq(Answer)
        BY WireType DEF IInv
      <3>2. /\ x \notin Ids(ToSet(conn[c].cmds)) /\ x \notin Ids(ToSet(conn[c].pending))
            /\ x \notin Ids(ToSet(conn[c].sent)) /\ x \notin Ids(ToSet(conn[c].inbound))
        BY DEF Named, Ids, OnItsWay, Arriving
      <3>3. /\ Granting(conn[c].cmds, x) = 0 /\ Granting(conn[c].pending, x) = 0
            /\ Granting(conn[c].sent, x) = 0 /\ Carrying(conn[c].inbound, x) = 0
        BY <3>1, <3>2, NamesNothing DEF Granting, Carrying
      <3>. QED
        BY <3>3 DEF OnWire
    <2>2. Grant(m, x) = Window /\ Window \in Nat
      BY <1>2, Limit DEF Grant, Worth
    <2>3. InHand(sub'[x], x) = 0
      BY <1>6, SumEmpty DEF InHand, Carrying
    <2>4. Total(x)' = server[x].credit + OnWire(conn'[c], x) + InHand(sub'[x], x)
      BY <1>3, <1>6 DEF Total
    <2>5. Total(x)' = 0 + (0 + Window) + 0
      BY <1>7, <1>9, <2>1, <2>2, <2>3, <2>4
    <2>6. Total(x)' = Window
      BY <2>2, <2>5
    <2>. QED
      BY <2>2, <2>6 DEF Balanced
  <1>. QED
    BY <1>10, <1>11, <1>12

LEMMA OpenStreamKeeps ==
    ASSUME IInv, NEW x \in Streams, OpenStream(x)
    PROVE  IInv'
  <1>1. Typed /\ Limits /\ Placed /\ Homes /\ Waiting /\ Spent /\ Answering
    BY DEF IInv
  <1>2. Typed' /\ \E c \in Conns : Subscribes(x, c)
    BY <1>1, OpenStreamEffect
  <1>3. PICK c \in Conns : Subscribes(x, c)
    BY <1>2
  <1>4. PICK m : m = Command("Stream", x, Window)
    OBVIOUS
  <1>5. /\ Running(c) /\ sub[x].phase = "idle" /\ Len(conn[c].cmds) < Queue /\ Elsewhere(c)
        /\ conn'[c] = [conn[c] EXCEPT !.cmds = Append(@, m)]
        /\ \A y \in Streams : y # x => sub'[y] = sub[y]
        /\ sub'[x] = [sub[x] EXCEPT !.phase = "open", !.at = c]
        /\ UNCHANGED <<slot, call, server, executed, closed>>
    BY <1>3, <1>4 DEF Subscribes
  <1>6. m \in Message /\ m.id = x /\ m.kind \in Opening
    <2>1. Window \in 0 .. Window
      BY Limit
    <2>2. m \in Message
      BY <1>4, <2>1, CommandType
    <2>. QED
      BY <1>4, <2>2 DEF Command, Opening
  <1>7. Joins(c, m)
    BY <1>5, <1>6 DEF Joins
  <1>8. sub'[x].phase = "open" /\ sub'[x].at = c /\ sub'[x].sink = sub[x].sink
    BY <1>1, <1>5 DEF Typed, Consumer
  <1>9. \A d \in Conns : x \notin Named(d)
    BY <1>1, <1>5, HomeOf
  <1>10. x \notin executed /\ x \notin Attempts /\ \A d \in Conns : x \notin Held(d)
    BY <1>1, <1>9, AskedOf, Limit DEF Typed
  <1>11. x \notin Asked(c)
    BY <1>10 DEF Held
  <1>12. /\ Single(conn'[c]) /\ Filled(conn'[c]) /\ Sound(conn'[c])
         /\ conn'[c].cmds = Append(conn[c].cmds, m) /\ conn'[c].state = conn[c].state
         /\ conn'[c].waiters = conn[c].waiters /\ conn'[c].lost = conn[c].lost
         /\ conn[c].state # "unused"
         /\ Asked(c)' = Asked(c) \cup {x} /\ Owed(c)' = Owed(c) \cup {x}
         /\ Held(c)' = Held(c) \cup {x} /\ Named(c)' = Named(c) \cup {x}
    BY <1>6, <1>7, <1>11, JoinsShape
  <1>13. \A d \in Conns : d # c => /\ Asked(d)' = Asked(d) /\ Owed(d)' = Owed(d)
                                   /\ Held(d)' = Held(d) /\ Named(d)' = Named(d)
    BY <1>5, StillAt DEF Elsewhere
  <1>14. Apart' /\ Exchanged'
    BY <1>5, <1>6, <1>7, <1>10, JoinsApart
  <1>15. StreamHomes'
    <2>. SUFFICES ASSUME NEW d \in Conns, NEW y \in Streams, y \in Named(d)'
                  PROVE  sub'[y].at = d
      BY DEF StreamHomes
    <2>1. Named(d)' = IF d = c THEN Named(d) \cup {x} ELSE Named(d)
      BY <1>12, <1>13
    <2>2. CASE y = x
      BY <1>8, <1>9, <2>1, <2>2
    <2>3. CASE y # x
      BY <1>1, <1>5, <2>1, <2>3 DEF Homes, StreamHomes
    <2>. QED
      BY <2>2, <2>3
  <1>16. \A j \in Calls : call[j].phase = "waiting" => Id(j) # x
    BY <1>1, <1>10, IdType
  <1>17. CallHomes'
    <2>1. \A j \in Calls : Id(j)' = Id(j) /\ call'[j] = call[j]
      BY <1>5 DEF Id
    <2>. QED
      BY <1>1, <1>12, <1>13, <1>16, <2>1 DEF Homes, CallHomes
  <1>18. Spent'
    <2>1. \A j \in Calls : \A t \in 1 .. Retries + 1 : <<j, t>> # x
      BY <1>10 DEF Attempts
    <2>2. \A j \in Calls : \A t \in 1 .. Retries + 1 : Known(<<j, t>>)' => Known(<<j, t>>)
      BY <1>5, <1>12, <1>13, <2>1 DEF Known
    <2>. QED
      BY <1>1, <1>5, <2>2 DEF Spent
  <1>19. Answering'
    <2>. SUFFICES ASSUME NEW j \in Calls PROVE Truthful(j)'
      BY DEF Answering
    <2>1. Truthful(j) /\ Told(j)' = Told(j) /\ Id(j)' = Id(j)
      BY <1>1, <1>5 DEF Answering, Told, Id
    <2>2. Id(j) # x => \A d \in Conns : /\ Id(j) \in Asked(d)' => Id(j) \in Asked(d)
                                        /\ Id(j) \in Owed(d)' => Id(j) \in Owed(d)
      BY <1>12, <1>13
    <2>3. Told(j) \in {"Refused", "Fatal"} => Id(j) # x
      BY <1>10, <2>1 DEF Truthful
    <2>. QED
      BY <1>5, <1>16, <2>1, <2>2, <2>3 DEF Truthful
  <1>20. ASSUME NEW e \in Exchanges, Wanted(e) PROVE Wanted(e)'
    <2>1. CASE e \in Streams
      BY <1>5, <1>8, <1>20, <2>1 DEF Wanted, IsCall
    <2>2. CASE e \notin Streams
      BY <1>5, <1>20, <2>2 DEF Wanted, IsCall, Awaits, Id
    <2>. QED
      BY <2>1, <2>2
  <1>21. Wanted(x)'
    BY <1>8 DEF Wanted, IsCall
  <1>22. Waiting'
    <2>1. \A d \in Conns : \A e \in Owed(d) : Wanted(e) => Wanted(e)'
      BY <1>1, <1>20, OwedType
    <2>2. Tended(c)'
      BY <1>1, <1>6, <1>12, <1>21, <2>1, TendedOpens DEF Waiting
    <2>. QED
      BY <1>1, <1>5, <2>1, <2>2, WaitingAt
  <1>23. Limits' /\ Placed'
    <2>1. \A j \in Calls : call'[j].tries + call'[j].left <=
                              IF call'[j].phase = "acquiring" THEN Retries ELSE Retries + 1
      BY <1>1, <1>5 DEF Limits
    <2>2. \A j \in Calls : call'[j].phase \in {"sending", "waiting"} =>
                              call'[j].at # None /\ call'[j].tries # 0
      BY <1>1, <1>5 DEF Placed
    <2>3. \A y \in Streams : Len(sub'[y].sink) <= Window
      BY <1>1, <1>5, <1>8 DEF Limits
    <2>4. Limits'
      BY <1>1, <1>5, <1>12, <2>1, <2>3, LimitsFrom
    <2>5. \A y \in Streams :
              \/ sub'[y] = sub[y] /\ (sub[y].phase = "idle" => server'[y] = server[y])
              \/ /\ sub'[y].phase # "idle" /\ sub'[y].at = sub[y].at /\ sub[y].phase # "idle"
              \/ /\ sub'[y].phase # "idle" /\ sub'[y].at = c
      BY <1>5, <1>8
    <2>6. Placed'
      BY <1>1, <1>5, <1>12, <2>2, <2>5, PlacedAt
    <2>. QED
      BY <2>4, <2>6
  <1>24. \A y \in Streams : Flows(y)' /\ Heard(y)' /\ Balanced(y)'
    <2>1. Flows(x)' /\ Heard(x)' /\ Balanced(x)'
      BY <1>3, <1>4, <1>7, <1>9, OpensOwn
    <2>2. \A y \in Streams : y # x => Steady(y)
      BY <1>5, <1>6, <1>7, <1>11, JoinsSteady
    <2>. QED
      BY <1>2, <1>15, <2>1, <2>2, SteadyKeeps
  <1>. QED
    BY <1>2, <1>14, <1>15, <1>17, <1>18, <1>19, <1>22, <1>23, <1>24
       DEF IInv, Homes, Streaming, Listening, Conserved

-----------------------------------------------------------------------------
(* The remaining steps, and the invariant. *)

\* A supervisor finds its connection dead, the hub is closed, or nothing happens.
LEMMA IdleKeeps ==
    ASSUME IInv, UNCHANGED <<conn, call, sub, server, executed>>, closed' \in BOOLEAN,
           slot' \in [Slots -> [phase : {"down", "serving"}, published : {None} \cup Conns]],
           \A s \in Slots : slot'[s].phase = "serving" => slot'[s].published # None
    PROVE  IInv'
  <1>1. Typed /\ Limits /\ Placed
    BY DEF IInv
  <1>2. Typed' /\ Limits'
    BY <1>1 DEF Typed, Limits
  <1>3. Placed'
    BY <1>1 DEF Placed, Dialled, Running
  <1>4. Onward
    BY <1>1, OnwardSame
  <1>5. Fades
    <2>1. \A c \in Conns : Recedes(c)
      BY StillAt
    <2>. QED
      BY <2>1 DEF Fades
  <1>6. Answering'
    BY <1>5, AnsweringKeeps
  <1>7. \A d \in Conns : \A id \in Owed(d) : Wanted(id) => Wanted(id)'
    BY <1>1, WantedSame, OwedType
  <1>. QED
    BY <1>2, <1>3, <1>4, <1>6, <1>7, StillKeeps

LEMMA UnpublishKeeps ==
    ASSUME IInv, NEW s \in Slots, Unpublish(s)
    PROVE  IInv'
  <1>1. /\ slot' = [slot EXCEPT ![s] = [phase |-> "down", published |-> None]]
        /\ UNCHANGED <<conn, call, sub, server, executed, closed>>
    BY DEF Unpublish
  <1>2. Typed /\ Placed
    BY DEF IInv
  <1>3. /\ slot' \in [Slots -> [phase : {"down", "serving"}, published : {None} \cup Conns]]
        /\ closed' \in BOOLEAN
    BY <1>1, <1>2 DEF Typed
  <1>4. \A t \in Slots : slot'[t].phase = "serving" => slot'[t].published # None
    BY <1>1, <1>2 DEF Typed, Placed
  <1>. QED
    BY <1>1, <1>3, <1>4, IdleKeeps

LEMMA RestKeeps ==
    ASSUME IInv, Close \/ UNCHANGED vars
    PROVE  IInv'
  <1>1. UNCHANGED <<slot, conn, call, sub, server, executed>> /\ closed' \in BOOLEAN
    BY DEF Close, vars, IInv, Typed
  <1>2. /\ slot' \in [Slots -> [phase : {"down", "serving"}, published : {None} \cup Conns]]
        /\ \A t \in Slots : slot'[t].phase = "serving" => slot'[t].published # None
    BY <1>1 DEF IInv, Typed, Placed
  <1>. QED
    BY <1>1, <1>2, IdleKeeps

LEMMA DeliverKeeps ==
    ASSUME IInv, NEW c \in Conns, Deliver(c)
    PROVE  IInv'
  <1>1. CASE IsCall(Head(conn[c].inbound).id)
    BY <1>1, DeliverCallKeeps
  <1>2. CASE ~IsCall(Head(conn[c].inbound).id)
    <2>1. PICK x \in Streams : Head(conn[c].inbound).id = x
      BY <1>2 DEF IsCall
    <2>. QED
      BY <2>1, DeliverStreamKeeps
  <1>. QED
    BY <1>1, <1>2

LEMMA Holds == IInv /\ [Next]_vars => IInv'
  <1>. SUFFICES ASSUME IInv, [Next]_vars PROVE IInv'
    OBVIOUS
  <1>1. CASE \E s \in Slots : Dial(s) \/ Unpublish(s)
    BY <1>1, DialKeeps, UnpublishKeeps
  <1>2. CASE \E c \in Conns : Task(c)
    BY <1>2, WriteKeeps, AcceptKeeps, DeliverKeeps, RunEndsKeeps, AbandonKeeps DEF Task
  <1>3. CASE \E c \in Conns : Serve(c)
    BY <1>3, ServeCallKeeps, ServeStreamKeeps, ReadUnseenKeeps DEF Serve
  <1>4. CASE \E c \in Conns : \E n \in 0 .. Queue : LoseWire(c, n)
    BY <1>4, LoseWireKeeps
  <1>5. CASE \E k \in Calls : Caller(k) \/ SendTimeout(k) \/ ReplyTimeout(k)
    BY <1>5, AcquireKeeps, SendKeeps, ReturnsKeeps, ReplyTimeoutKeeps DEF Caller
  <1>6. CASE \E x \in Streams : Consume(x) \/ OpenStream(x) \/ DropStream(x)
    BY <1>6, ConsumeKeeps, OpenStreamKeeps, DropStreamKeeps
  <1>7. CASE \E x \in Streams : \E n \in 1 .. Window : Push(x, n)
    BY <1>7, PushKeeps
  <1>8. CASE Close \/ UNCHANGED vars
    BY <1>8, RestKeeps
  <1>. QED
    BY <1>1, <1>2, <1>3, <1>4, <1>5, <1>6, <1>7, <1>8 DEF Next

LEMMA Starts == Init => IInv
  <1>. SUFFICES ASSUME Init PROVE IInv
    OBVIOUS
  <1>1. /\ \A c \in Conns : conn[c] = Connection("unused", FALSE, << >>)
        /\ \A k \in Calls : /\ call[k].phase = "acquiring" /\ call[k].left = Retries
                            /\ call[k].tries = 0 /\ call[k].at = None /\ call[k].reply = "none"
                            /\ call[k].result = "none"
        /\ \A x \in Streams : /\ sub[x].phase = "idle" /\ sub[x].at = None /\ sub[x].sink = << >>
                              /\ sub[x].drained = 0 /\ sub[x].pending = 0
                              /\ server[x].phase = "none" /\ server[x].credit = 0
        /\ \A s \in Slots : slot[s].phase = "down"
        /\ executed = {}
    BY DEF Init, Unused
  <1>2. \A c \in Conns : /\ conn[c].state = "unused" /\ ~conn[c].alive /\ conn[c].cmds = << >>
                         /\ conn[c].pending = << >> /\ conn[c].sent = << >>
                         /\ conn[c].inbound = << >> /\ conn[c].waiters = {}
    BY <1>1 DEF Connection
  <1>3. Len(<< >>) = 0 /\ << >> \in Seq(Request) /\ << >> \in Seq(Answer)
    OBVIOUS
  <1>4. Typed
    <2>1. \A c \in Conns : conn[c] \in Wire
      BY <1>1, <1>3, FreshWire
    <2>2. conn \in [Conns -> Wire]
      BY <2>1 DEF Init
    <2>3. 0 \in 0 .. Window /\ 0 \in 0 .. Retries + 1 /\ Retries \in 0 .. Retries
          /\ Records \in 0 .. Records
      BY Limit
    <2>4. call \in [Calls -> CallState]
      BY <2>3 DEF Init, CallState
    <2>5. sub \in [Streams -> Consumer]
      BY <1>3, <2>3 DEF Init, Consumer
    <2>6. server \in [Streams -> Account]
      BY <2>3 DEF Init, Account
    <2>. QED
      BY <2>2, <2>4, <2>5, <2>6 DEF Init, Typed
  <1>5. Limits
    BY <1>1, <1>2, <1>3, Limit DEF Limits
  <1>6. Placed
    <2>1. Dialled = 1 .. 0 /\ 0 \in 0 .. MaxDials
      BY <1>2, Limit DEF Dialled
    <2>. QED
      BY <1>1, <1>2, <2>1 DEF Placed, Running
  <1>7. \A c \in Conns : /\ OnItsWay(c) = {} /\ Arriving(c) = {} /\ Asked(c) = {}
                         /\ Held(c) = {} /\ Named(c) = {} /\ Owed(c) = {}
    <2>. SUFFICES ASSUME NEW c \in Conns
                  PROVE  /\ OnItsWay(c) = {} /\ Arriving(c) = {} /\ Asked(c) = {}
                         /\ Held(c) = {} /\ Named(c) = {} /\ Owed(c) = {}
      OBVIOUS
    <2>1. OnItsWay(c) = {} /\ Arriving(c) = {} /\ Owed(c) = {}
      BY <1>2, NothingIn DEF OnItsWay, Arriving, Owed
    <2>2. Asked(c) = {} /\ Ids(OnItsWay(c)) = {} /\ Ids(Arriving(c)) = {}
      BY <2>1 DEF Asked, Opens, Ids
    <2>. QED
      BY <1>2, <2>1, <2>2 DEF Held, Named
  <1>8. Apart
    <2>1. \A c \in Conns : Single(conn[c])
      BY <1>2, NothingIn DEF Single
    <2>. QED
      BY <1>7, <2>1 DEF Apart
  <1>9. Homes /\ Spent /\ Exchanged
    <2>1. Ids({}) = {}
      BY DEF Ids
    <2>. QED
      BY <1>1, <1>7, <2>1 DEF Homes, StreamHomes, CallHomes, Spent, Known, Exchanged
  <1>10. Answering
    BY <1>1 DEF Answering, Truthful, Told
  <1>11. Waiting
    BY <1>2 DEF Waiting, Tended, Running
  <1>12. Streaming
    BY <1>1, <1>7, NothingIn DEF Streaming, Flows, Served, Asking, Coming, Going
  <1>13. Listening /\ Conserved
    BY <1>1 DEF Listening, Heard, Up, Conserved, Balanced
  <1>. QED
    BY <1>4, <1>5, <1>6, <1>8, <1>9, <1>10, <1>11, <1>12, <1>13 DEF IInv

LEMMA SoundTypes == IInv => TypeOK
  <1>. SUFFICES ASSUME IInv PROVE TypeOK
    OBVIOUS
  <1>1. Typed /\ Limits
    BY DEF IInv
  <1>2. ASSUME NEW c \in Conns
        PROVE  /\ conn[c].state \in {"unused", "running", "gone"}
               /\ conn[c].alive \in BOOLEAN
               /\ \A q \in {conn[c].cmds, conn[c].pending, conn[c].sent} :
                    Len(q) <= Queue /\ \A i \in DOMAIN q : q[i] \in Messages
               /\ Len(conn[c].inbound) <= Queue
               /\ \A i \in DOMAIN conn[c].inbound : conn[c].inbound[i] \in Frames
               /\ conn[c].waiters \cup conn[c].lost \subseteq Attempts \cup Streams
    <2>1. /\ conn[c].state \in {"unused", "running", "gone"} /\ conn[c].alive \in BOOLEAN
          /\ conn[c].cmds \in Seq(Message) /\ conn[c].pending \in Seq(Message)
          /\ conn[c].sent \in Seq(Message) /\ conn[c].inbound \in Seq(Answer)
          /\ conn[c].waiters \subseteq Exchanges /\ conn[c].lost \subseteq Exchanges
      BY <1>1, WireType
    <2>2. \A q \in Seq(Message) : \A i \in DOMAIN q : q[i] \in Messages
      BY DEF Message
    <2>3. \A q \in Seq(Answer) : \A i \in DOMAIN q : q[i] \in Frames
      BY DEF Answer
    <2>. QED
      BY <1>1, <2>1, <2>2, <2>3 DEF Limits, Exchanges
  <1>3. call \in [Calls -> CallState]
    BY <1>1 DEF Typed
  <1>4. ASSUME NEW x \in Streams
        PROVE  /\ sub[x].phase \in {"idle", "open", "ended", "dropped"}
               /\ sub[x].at \in {None} \cup Conns
               /\ Len(sub[x].sink) <= Window
               /\ sub[x].drained \in 0 .. Window /\ sub[x].pending \in 0 .. Window
               /\ server[x].phase \in {"none", "live", "ended"}
               /\ server[x].credit \in 0 .. Window /\ server[x].left \in 0 .. Records
    BY <1>1 DEF Typed, Limits, Consumer, Account
  <1>. QED
    BY <1>1, <1>2, <1>3, <1>4 DEF TypeOK, Typed, CallState

LEMMA SoundExchanges == IInv => IdsAreFresh /\ AnswersAreOwn /\ WaitersAreWanted
  <1>. SUFFICES ASSUME IInv PROVE IdsAreFresh /\ AnswersAreOwn /\ WaitersAreWanted
    OBVIOUS
  <1>1. IdsAreFresh
    <2>1. \A c \in Conns : \A m \in OnItsWay(c) : m.kind = "Call" => m.id \in Asked(c)
      BY DEF Asked, Opens, Opening
    <2>. QED
      BY <2>1 DEF IInv, Exchanged, IdsAreFresh
  <1>2. AnswersAreOwn
    <2>1. \A k \in Calls : Truthful(k)
      BY DEF IInv, Answering
    <2>. QED
      BY <2>1 DEF AnswersAreOwn, Truthful, Told
  <1>3. WaitersAreWanted
    <2>. SUFFICES ASSUME NEW c \in Conns, Running(c), NEW id \in conn[c].waiters
                  PROVE  \/ Wanted(id)
                         \/ id \in conn[c].lost
                         \/ \E m \in ToSet(conn[c].cmds) : m.kind = "Forget" /\ m.id = id
      BY DEF WaitersAreWanted
    <2>1. id \in Exchanges /\ conn[c].cmds \in Seq(Message)
      BY WireType DEF IInv
    <2>2. Excused(c, 0, id)
      BY <2>1 DEF IInv, Waiting, Tended
    <2>3. \A j \in 1 .. Len(conn[c].cmds) : conn[c].cmds[j] \in ToSet(conn[c].cmds)
      BY <2>1, ElementOf
    <2>. QED
      BY <2>2, <2>3 DEF Excused, ForgetsBehind
  <1>. QED
    BY <1>1, <1>2, <1>3

LEMMA SoundCredit == IInv => CreditIsConserved
  <1>. SUFFICES ASSUME IInv, NEW x \in Streams, NEW c, c = sub[x].at, Up(x)
                PROVE  server[x].credit + Granting(conn[c].cmds, x) + Granting(conn[c].pending, x)
                         + Granting(conn[c].sent, x) + Carrying(conn[c].inbound, x)
                         + Carrying(sub[x].sink, x) + sub[x].drained + sub[x].pending = Window
    BY DEF CreditIsConserved, Up, Granting, Carrying
  <1>. DEFINE o == server[x].credit
              a == Granting(conn[c].cmds, x)
              b == Granting(conn[c].pending, x)
              d == Granting(conn[c].sent, x)
              e == Carrying(conn[c].inbound, x)
              f == Carrying(sub[x].sink, x)
              g == sub[x].drained
              h == sub[x].pending
  <1>1. sub[x].phase # "idle" /\ Typed /\ Placed /\ Balanced(x)
    BY DEF Up, IInv, Conserved
  <1>2. c \in Conns
    BY <1>1, AtType
  <1>3. /\ a \in Nat /\ b \in Nat /\ d \in Nat /\ e \in Nat /\ f \in Nat
        /\ o \in Nat /\ g \in Nat /\ h \in Nat
    <2>1. \A i \in 0 .. Window : i \in Nat
      BY Limit
    <2>2. /\ a \in Nat /\ b \in Nat /\ d \in Nat /\ e \in Nat /\ f \in Nat
          /\ g \in 0 .. Window /\ h \in 0 .. Window /\ o \in 0 .. Window
      BY <1>1, <1>2, Shares
    <2>. QED
      BY <2>1, <2>2
  <1>4. o + (a + b + d + e) + (f + g + h) = Window
    BY <1>1 DEF Balanced, Total, OnWire, InHand
  <1>. HIDE DEF a, b, d, e, f, g, h, o
  <1>5. o + a + b + d + e + f + g + h = Window
    BY ONLY <1>3, <1>4
  <1>. QED
    BY <1>5 DEF a, b, d, e, f, g, h, o

LEMMA Always == Spec => []IInv
  BY Starts, Holds, PTL DEF Spec

\* hub.rs, attempt and call_with; conn.rs, run, accept and deliver: for any callers and any
\* connections, an answer is about the attempt the caller last made and says what the server
\* did, no request travels under an id already acted on, and a connection waits only for who
\* wants it to or has a Forget behind it.
THEOREM ExchangesHold == Spec => []ExchangesMatch
  <1>1. IInv => ExchangesMatch
    BY SoundTypes, SoundExchanges DEF ExchangesMatch
  <1>. QED
    BY <1>1, Always, PTL

\* sub.rs, maybe_grant, poll_next and Drop: for any window and any stream that is up at both
\* ends, the server's credit, the records under way or in hand and the grants that are owed
\* or under way make up the window, through lost grants, late frames and other streams.
THEOREM CreditHolds == Spec => []CreditIsConserved
  BY SoundCredit, Always, PTL
=============================================================================
