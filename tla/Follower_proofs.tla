-------------------------- MODULE Follower_proofs ---------------------------
(* Proofs about Follower: what a follower shows is the log, and its events   *)
(* tell a consumer of every version it shows.                                *)
EXTENDS Follower, SequenceTheorems, TLAPS

Documents == Seq(Nat)
Snapshots == [held : BOOLEAN, doc : Documents]
Ranges == [from : Nat, to : Nat]
FrameKinds == {"View", "Records", "Gap", "NotReducible", "Lost", "End", "Fatal"}
Events == [kind : {"Gap", "Record"}, from : Nat, to : Nat]
Frames == [kind : FrameKinds, docs : Seq(Documents), from : Nat, to : Nat]
Phases == {"opening", "listening", "folding", "reading", "emitting", "ticking", "retrying",
           "stopping", "stopped"}

Typed ==
    /\ reducible \in BOOLEAN /\ log \in Documents /\ floor \in Nat /\ cuts \in Nat
    /\ stream \in [phase : {"none", "viewing", "live"}, cursor : Nat, skipped : Nat]
    /\ sink \in Seq(Frames)
    /\ task \in [phase : Phases, batch : Seq(Documents), doc : Snapshots, era : Nat,
                 from : Nat, to : Nat]
    /\ held \in [cursor : Nat, store : Snapshots, mode : {"reducible", "records"},
                 dropped : Ranges, era : Nat]
    /\ state \in [snapshot : Snapshots, version : Nat,
                  status : {"reconnecting", "live", "ended", "failed"}]
    /\ versions \in Nat /\ heard \in Nat
    /\ events \in Seq(Events)

\* Every version is within the bound of the log, every queue within its capacity.
Bounded ==
    /\ Len(log) <= MaxLog /\ floor <= Len(log)
    /\ Len(sink) <= SinkCap + 1 /\ (stream.phase # "none" => Len(sink) <= SinkCap)
    /\ Len(events) <= EventCap
    /\ stream.cursor <= MaxLog /\ held.cursor <= MaxLog /\ held.dropped.to <= MaxLog
    /\ task.to <= MaxLog /\ state.version <= MaxLog /\ versions <= MaxLog /\ heard <= MaxLog
    /\ \A i \in 1 .. Len(events) : events[i].to <= MaxLog

\* A frame that moves the follower on.
Moves(f) == f.kind \in {"Records", "Gap"}

\* Between sessions nothing is under way; a view is the first frame of its session,
\* and nothing has been taken before it.
Asleep == {"opening", "retrying", "stopping", "stopped"}
Sessions ==
    /\ task.phase \in Asleep => sink = <<>> /\ stream.phase = "none"
    /\ stream.phase = "viewing" =>
          sink = <<>> /\ task.phase = "listening" /\ stream.cursor = held.cursor
    /\ \A i \in 1 .. Len(sink) :
          /\ sink[i].kind = "View" =>
                i = 1 /\ task.phase = "listening" /\ Len(sink[i].docs) = 1
          /\ ~Moves(sink[i]) /\ sink[i].kind # "View" =>
                i = Len(sink) /\ stream.phase = "none"
    /\ task.batch # <<>> => task.phase = "folding"

\* What the task is after once its log is known to have a view, and before.
Suited == (held.mode = "records") <=> ~reducible
Moving ==
    \/ task.phase \in {"folding", "reading", "emitting"}
    \/ stream.phase = "live" /\ sink = <<>>
    \/ sink # <<>> /\ Moves(sink[1])
Suiting ==
    /\ held.mode = "records" => ~reducible
    /\ held.store.held => reducible
    /\ stream.phase # "none" => Suited
    /\ \A i \in 1 .. Len(sink) :
          /\ Moves(sink[i]) \/ sink[i].kind = "View" => Suited
          /\ sink[i].kind = "View" => reducible
          /\ sink[i].kind = "NotReducible" => ~reducible
    /\ stream.phase = "viewing" => reducible
    /\ Moving => Suited /\ (reducible => held.store.held)
    /\ task.phase = "reading" => reducible
    /\ task.phase = "emitting" => (task.doc.held <=> reducible)
    /\ reducible /\ ~held.store.held =>
          held.cursor = 0 /\ held.dropped = None /\ events = <<>>

\* A document that is the log up to its length.
Prefix(d) == Len(d) <= Len(log) /\ \A v \in 1 .. Len(d) : d[v] = log[v]
Current(f) == \A j \in 1 .. Len(f.docs) : Prefix(f.docs[j])
AllCurrent == \A i \in 1 .. Len(sink) : Current(sink[i])

HeldCurrent ==
    /\ held.era = cuts =>
          /\ \A j \in 1 .. Len(task.batch) : Prefix(task.batch[j])
          /\ held.store.held => Prefix(held.store.doc)
          /\ state.snapshot.held => Prefix(state.snapshot.doc)
    /\ task.era = cuts /\ task.phase = "emitting" /\ task.doc.held => Prefix(task.doc.doc)

\* What was sent, and what is held, since the last power cut is of the log.
Eras ==
    /\ held.era <= cuts /\ task.era <= cuts
    /\ \A i \in 1 .. Len(sink) :
          sink[i].kind = "View" =>
             sink[i].from <= cuts /\ (stream.phase # "none" => sink[i].from = cuts)
                                  /\ (sink[i].from = cuts => AllCurrent)
    /\ stream.phase # "none" => AllCurrent
    /\ held.era = cuts => AllCurrent
    /\ task.era = cuts /\ task.phase = "emitting" /\ task.doc.held => AllCurrent
    /\ HeldCurrent

\* The documents are as long as the versions they stand for.
Lengths ==
    /\ held.store.held => Len(held.store.doc) = held.cursor
    /\ state.snapshot.held => Len(state.snapshot.doc) = state.version
    /\ task.phase = "emitting" /\ task.doc.held => Len(task.doc.doc) = task.to
    /\ task.phase = "emitting" /\ ~task.doc.held => held.cursor = task.to
    /\ \A i \in 1 .. Len(sink) : \A j \in 1 .. Len(sink[i].docs) :
          Len(sink[i].docs[j]) <= MaxLog
    /\ \A j \in 1 .. Len(task.batch) : Len(task.batch[j]) <= MaxLog

\* Records follow each other, and frames too: what comes after position i of the
\* sink starts behind version e.
Consecutive(ds) ==
    \A j \in 1 .. Len(ds) : Len(ds[j]) = Len(ds[1]) + j - 1 /\ Len(ds[j]) >= 1
EndOf(ds) == Len(ds[Len(ds)])
Follows(i, e) ==
    /\ i < Len(sink) /\ sink[i + 1].kind = "Gap" => sink[i + 1].from = e
    /\ i < Len(sink) /\ sink[i + 1].kind = "Records" => Len(sink[i + 1].docs[1]) = e + 1
    /\ i = Len(sink) /\ stream.phase # "none" => stream.cursor = e
Linked ==
    /\ \A i \in 1 .. Len(sink) :
          /\ sink[i].kind = "Records" =>
                /\ sink[i].docs # <<>> /\ Consecutive(sink[i].docs)
                /\ Follows(i, EndOf(sink[i].docs))
          /\ sink[i].kind = "Gap" =>
                sink[i].from < sink[i].to /\ sink[i].to <= floor /\ Follows(i, sink[i].to)
          /\ sink[i].kind = "View" => Follows(i, Higher(held.cursor, Len(sink[i].docs[1])))
    /\ task.batch # <<>> => Consecutive(task.batch) /\ Follows(0, EndOf(task.batch))

\* The stream is behind the end of the log, or has sent nothing but a view.
Caught ==
    stream.phase = "live" =>
        \/ stream.cursor <= Len(log)
        \/ /\ task.batch = <<>> /\ task.phase # "reading"
           /\ \A i \in 1 .. Len(sink) : ~Moves(sink[i])

\* Where the next frame or record starts is not below p.
NotBelow(p) ==
    /\ task.batch # <<>> => Len(task.batch[1]) > p
    /\ task.batch = <<>> /\ sink # <<>> /\ sink[1].kind = "Records" => Len(sink[1].docs[1]) > p
    /\ task.batch = <<>> /\ sink # <<>> /\ sink[1].kind = "Gap" => sink[1].from >= p
    /\ task.batch = <<>> /\ sink = <<>> /\ stream.phase # "none" => stream.cursor >= p

\* A plain log is followed version by version.
Exact ==
    held.mode = "records" =>
        /\ task.batch # <<>> => Len(task.batch[1]) = held.cursor + 1
        /\ task.batch = <<>> => Follows(0, held.cursor)

\* The version the consumer is told about, or noted as dropped.
End == EndBefore(Len(events) + 1)
Reach == IF held.dropped = None THEN End ELSE held.dropped.to
Reaching == IF task.phase = "emitting" THEN task.to ELSE Reach

Covered ==
    /\ NoSilentJump
    /\ held.dropped # None => held.dropped.from <= End /\ NotBelow(held.cursor)
    /\ task.phase = "emitting" => held.dropped = None /\ task.from <= End
                                  /\ (state.version <= End \/ state.version <= task.to)
    /\ task.phase \notin {"emitting", "stopped"} => held.cursor <= Reach
    /\ task.phase = "reading" =>
          /\ held.dropped = None => task.from <= End
          /\ state.version <= task.to \/ held.dropped = None
    /\ task.phase # "reading" /\ task.batch = <<>> =>
          /\ sink # <<>> /\ sink[1].kind = "Gap" => sink[1].from <= Reaching
          /\ sink = <<>> /\ stream.phase = "live" => stream.cursor <= Reaching

\* What is shown is no later than what is held; without power cuts neither goes
\* back.
Forward ==
    /\ state.version <= held.cursor
    /\ versions # state.version => task.phase \in {"ticking", "retrying", "stopping"}
    /\ cuts = 0 =>
          /\ versions <= state.version /\ held.cursor <= Len(log)
          /\ \A i \in 1 .. Len(sink) :
                sink[i].kind = "View" => Len(sink[i].docs[1]) >= held.cursor
          /\ task.phase = "emitting" => task.to >= held.cursor

IInv == /\ Typed /\ Bounded /\ Sessions /\ Suiting /\ Eras /\ Lengths /\ Linked /\ Caught
        /\ Exact /\ Covered /\ Forward

-----------------------------------------------------------------------------
(* Sequences. *)

LEMMA AppendShape ==
    ASSUME NEW S, NEW s \in Seq(S), NEW e
    PROVE  /\ Len(Append(s, e)) = Len(s) + 1
           /\ \A i \in 1 .. Len(s) : Append(s, e)[i] = s[i]
           /\ Append(s, e)[Len(s) + 1] = e
OBVIOUS

LEMMA TailShape ==
    ASSUME NEW S, NEW s \in Seq(S), s # <<>>
    PROVE  /\ Tail(s) \in Seq(S)
           /\ Len(s) \in Nat \ {0} /\ Len(Tail(s)) = Len(s) - 1
           /\ \A i \in 1 .. Len(Tail(s)) : Tail(s)[i] = s[i + 1] /\ i + 1 \in 1 .. Len(s)
           /\ Head(s) = s[1] /\ s[1] \in S
OBVIOUS

LEMMA CutShape ==
    ASSUME NEW S, NEW s \in Seq(S), NEW e \in S, NEW n \in 0 .. Len(s)
    PROVE  /\ Append(SubSeq(s, 1, n), e) \in Seq(S)
           /\ Len(Append(SubSeq(s, 1, n), e)) = n + 1
           /\ \A i \in 1 .. n : Append(SubSeq(s, 1, n), e)[i] = s[i] /\ i \in 1 .. Len(s)
           /\ Append(SubSeq(s, 1, n), e)[n + 1] = e
<1>1. /\ SubSeq(s, 1, n) \in Seq(S) /\ Len(SubSeq(s, 1, n)) = n
      /\ \A i \in 1 .. n : SubSeq(s, 1, n)[i] = s[i]
  BY SubSeqProperties
<1> QED BY <1>1, AppendShape

LEMMA OneMore == \A n \in Nat : \A i \in 1 .. n + 1 : i \in 1 .. n \/ i = n + 1
OBVIOUS

LEMMA EmptyShape ==
    ASSUME NEW S, NEW s \in Seq(S)
    PROVE  Len(s) \in Nat /\ (s = <<>> <=> Len(s) = 0) /\ (s # <<>> => Len(s) >= 1 /\ s[1] \in S)
OBVIOUS

\* The log up to a version is a prefix of it.
LEMMA PrefixOfLog ==
    ASSUME log \in Documents, NEW n \in 0 .. Len(log)
    PROVE  SubSeq(log, 1, n) \in Documents /\ Len(SubSeq(log, 1, n)) = n
           /\ Prefix(SubSeq(log, 1, n))
<1>1. /\ SubSeq(log, 1, n) \in Seq(Nat) /\ Len(SubSeq(log, 1, n)) = n
      /\ \A i \in 1 .. n : SubSeq(log, 1, n)[i] = log[i]
  BY SubSeqProperties DEF Documents
<1> QED BY <1>1 DEF Documents, Prefix

LEMMA NextOfLog ==
    ASSUME log \in Documents, NEW d \in Documents, NEW e \in Documents,
           Prefix(d), Prefix(e), Len(e) = Len(d) + 1
    PROVE  Prefix(Append(d, e[Len(e)]))
<1>1. /\ Len(Append(d, e[Len(e)])) = Len(d) + 1
      /\ \A i \in 1 .. Len(d) : Append(d, e[Len(e)])[i] = d[i]
      /\ Append(d, e[Len(e)])[Len(d) + 1] = e[Len(e)]
  BY AppendShape DEF Documents
<1>2. Len(d) \in Nat BY DEF Documents
<1> QED BY <1>1, <1>2 DEF Prefix

LEMMA PrefixIsPrefix ==
    ASSUME log \in Documents, NEW d \in Documents, Prefix(d)
    PROVE  IsPrefix(d, log)
<1>1. Len(d) \in 0 .. Len(log) /\ Len(d) \in Nat /\ Len(log) \in Nat BY DEF Prefix, Documents
<1>2. /\ SubSeq(log, 1, Len(d)) \in Seq(Nat) /\ Len(SubSeq(log, 1, Len(d))) = Len(d)
      /\ \A i \in 1 .. Len(d) : SubSeq(log, 1, Len(d))[i] = log[i]
  BY <1>1, SubSeqProperties DEF Documents
<1>3. /\ SubSeq(d, 1, Len(d)) \in Seq(Nat) /\ Len(SubSeq(d, 1, Len(d))) = Len(d)
      /\ \A i \in 1 .. Len(d) : SubSeq(d, 1, Len(d))[i] = d[i]
  BY <1>1, SubSeqProperties DEF Documents
<1>4. SubSeq(d, 1, Len(d)) = SubSeq(log, 1, Len(d))
  BY <1>1, <1>2, <1>3, SeqEqual DEF Prefix
<1> QED BY <1>1, <1>4 DEF IsPrefix

-----------------------------------------------------------------------------
(* The types, field by field. *)

LEMMA Fields ==
    ASSUME Typed
    PROVE  /\ reducible \in BOOLEAN /\ log \in Documents /\ Len(log) \in Nat
           /\ floor \in Nat /\ cuts \in Nat
           /\ stream.phase \in {"none", "viewing", "live"} /\ stream.cursor \in Nat
           /\ sink \in Seq(Frames) /\ Len(sink) \in Nat
           /\ task.phase \in Phases /\ task.batch \in Seq(Documents) /\ Len(task.batch) \in Nat
           /\ task.doc \in Snapshots /\ task.era \in Nat /\ task.from \in Nat /\ task.to \in Nat
           /\ held.cursor \in Nat /\ held.store \in Snapshots
           /\ held.mode \in {"reducible", "records"}
           /\ held.dropped \in Ranges /\ held.era \in Nat
           /\ state.snapshot \in Snapshots /\ state.version \in Nat
           /\ versions \in Nat /\ heard \in Nat
           /\ events \in Seq(Events) /\ Len(events) \in Nat
BY DEF Typed, Documents

LEMMA FrameFields ==
    ASSUME Typed, NEW i \in 1 .. Len(sink)
    PROVE  /\ sink[i] \in Frames /\ sink[i].kind \in FrameKinds
           /\ sink[i].docs \in Seq(Documents) /\ Len(sink[i].docs) \in Nat
           /\ sink[i].from \in Nat /\ sink[i].to \in Nat
           /\ \A j \in 1 .. Len(sink[i].docs) :
                 sink[i].docs[j] \in Documents /\ Len(sink[i].docs[j]) \in Nat
<1>1. sink[i] \in Frames BY Fields
<1> QED BY <1>1 DEF Frames, Documents

LEMMA EventFields ==
    ASSUME Typed, NEW i \in 1 .. Len(events)
    PROVE  events[i].from \in Nat /\ events[i].to \in Nat
<1>1. events[i] \in Events BY Fields
<1> QED BY <1>1 DEF Events

LEMMA BatchFields ==
    ASSUME Typed, NEW j \in 1 .. Len(task.batch)
    PROVE  task.batch[j] \in Documents /\ Len(task.batch[j]) \in Nat
<1>1. task.batch[j] \in Documents BY Fields
<1> QED BY <1>1 DEF Documents

LEMMA EndIsNat ==
    ASSUME Typed
    PROVE  End \in Nat /\ Reach \in Nat /\ Reaching \in Nat
           /\ \A i \in 1 .. Len(events) + 1 : EndBefore(i) \in Nat
<1>1. \A i \in 1 .. Len(events) + 1 : EndBefore(i) \in Nat
  <2> Len(events) \in Nat BY Fields
  <2>1. ASSUME NEW i \in 1 .. Len(events) + 1 PROVE EndBefore(i) \in Nat
    <3>1. CASE i = 1 BY <3>1, Fields DEF EndBefore
    <3>2. CASE i # 1
      <4>1. i - 1 \in 1 .. Len(events) BY <3>2
      <4> QED BY <4>1, <3>2, EventFields DEF EndBefore
    <3> QED BY <3>1, <3>2
  <2> QED BY <2>1
<1>2. End \in Nat BY <1>1, Fields DEF End
<1>3. held.dropped.to \in Nat BY Fields DEF Ranges
<1> QED BY <1>1, <1>2, <1>3, Fields DEF Reach, Reaching

\* What is held stays current while the log stays.
LEMMA HeldKept ==
    ASSUME HeldCurrent, UNCHANGED <<log, cuts, task, held, state>>
    PROVE  HeldCurrent'
BY DEF HeldCurrent, Prefix

-----------------------------------------------------------------------------
(* The server's steps. *)

LEMMA InitHolds == Init => IInv
<1> SUFFICES ASSUME Init PROVE IInv OBVIOUS
<1>1. Typed
  BY FollowerAssumption
  DEF Init, Typed, NoStream, Stream, At, Task, NoDoc, None, Documents, Snapshots, Ranges,
      Frames, Phases, Events
<1>2. Len(log) = 0 /\ Len(sink) = 0 /\ Len(events) = 0 /\ Len(task.batch) = 0
      /\ log = <<>> /\ sink = <<>> /\ events = <<>> /\ task.batch = <<>> /\ stream.phase = "none"
      /\ stream.cursor = 0
      /\ task.phase = "opening" /\ task.to = 0 /\ task.era = 0 /\ cuts = 0 /\ floor = 0
      /\ held.cursor = 0 /\ ~held.store.held /\ held.mode = "reducible" /\ held.dropped = None
      /\ held.dropped.to = 0 /\ held.era = 0
      /\ ~state.snapshot.held /\ state.version = 0 /\ versions = 0 /\ heard = 0
  BY DEF Init, NoStream, Stream, At, Task, NoDoc, None
<1> HIDE DEF None
<1>3. Bounded BY <1>2, FollowerAssumption DEF Bounded
<1>4. Sessions BY <1>2 DEF Sessions
<1>5. Suiting BY <1>2 DEF Suiting, Moving
<1>6. Eras BY <1>2 DEF Eras, AllCurrent, HeldCurrent
<1>7. Lengths BY <1>2 DEF Lengths
<1>8. Linked BY <1>2 DEF Linked
<1>9. Caught /\ Exact BY <1>2 DEF Caught, Exact
<1>10. End = 0 BY <1>2 DEF End, EndBefore
<1>11. Covered BY <1>2, <1>10 DEF Covered, NoSilentJump, Reach
<1>12. Forward BY <1>2 DEF Forward
<1> QED BY <1>1, <1>3, <1>4, <1>5, <1>6, <1>7, <1>8, <1>9, <1>11, <1>12 DEF IInv

LEMMA AppendPatchKeeps ==
    ASSUME IInv, AppendPatch PROVE IInv'
<1> USE DEF IInv
<1>1. /\ log' \in Documents /\ Len(log') = Len(log) + 1 /\ Len(log') <= MaxLog
      /\ Len(log) \in Nat
      /\ \A i \in 1 .. Len(log) : log'[i] = log[i]
  BY Fields, AppendShape, FollowerAssumption DEF AppendPatch, Documents
<1>2. UNCHANGED <<reducible, floor, cuts, stream, sink, task, held, state, versions, events,
                  heard>>
  BY DEF AppendPatch
<1>3. ASSUME NEW d \in Documents, Prefix(d) PROVE Prefix(d)'
  <2>1. Len(d) \in Nat BY DEF Documents
  <2> QED BY <2>1, <1>1, <1>3 DEF Prefix
<1>4. Typed' BY <1>1, <1>2 DEF Typed
<1>5. Bounded' BY <1>1, <1>2, Fields DEF Bounded
<1>6. Sessions' BY <1>2 DEF Sessions, Moves
<1>7. Suiting' BY <1>2 DEF Suiting, Suited, Moving, Moves
<1>8. Eras'
  <2>1. AllCurrent => AllCurrent'
    BY <1>2, <1>3, FrameFields DEF AllCurrent, Current
  <2>2. (\A j \in 1 .. Len(task.batch) : Prefix(task.batch[j]))
          => (\A j \in 1 .. Len(task.batch) : Prefix(task.batch[j]))'
    <3> SUFFICES ASSUME \A j \in 1 .. Len(task.batch) : Prefix(task.batch[j]),
                        NEW j \in 1 .. Len(task.batch)
                 PROVE  Prefix(task.batch[j])'
      BY <1>2
    <3>1. task.batch[j] \in Documents /\ Prefix(task.batch[j]) BY BatchFields
    <3>2. PICK d \in Documents : d = task.batch[j] /\ Prefix(d) BY <3>1
    <3>3. Prefix(d)' BY <3>2, <1>3
    <3> QED BY <3>2, <3>3, <1>2 DEF Prefix
  <2>3. Prefix(held.store.doc) => Prefix(held.store.doc)'
    BY <1>2, <1>3, Fields DEF Snapshots
  <2>4. Prefix(state.snapshot.doc) => Prefix(state.snapshot.doc)'
    BY <1>2, <1>3, Fields DEF Snapshots
  <2>5. Prefix(task.doc.doc) => Prefix(task.doc.doc)'
    BY <1>2, <1>3, Fields DEF Snapshots
  <2> QED BY <1>2, <2>1, <2>2, <2>3, <2>4, <2>5 DEF Eras, HeldCurrent
<1>9. Lengths' BY <1>2 DEF Lengths
<1>10. Linked' BY <1>2 DEF Linked, Follows, Consecutive, EndOf, Higher
<1>11. Caught'
  <2>1. stream.cursor <= Len(log) => stream.cursor <= Len(log') BY <1>1, Fields
  <2> QED BY <1>2, <2>1 DEF Caught, Moves
<1>12. Exact' BY <1>2 DEF Exact, Follows
<1>13. Covered'
  BY <1>2 DEF Covered, NoSilentJump, EndBefore, End, Reach, Reaching, NotBelow
<1>14. Forward'
  <2>1. held.cursor <= Len(log) => held.cursor <= Len(log') BY <1>1, Fields
  <2> QED BY <1>2, <2>1 DEF Forward
<1> QED BY <1>4, <1>5, <1>6, <1>7, <1>8, <1>9, <1>10, <1>11, <1>12, <1>13, <1>14

LEMMA ReclaimKeeps ==
    ASSUME IInv, Reclaim PROVE IInv'
<1> USE DEF IInv
<1>1. floor' = Len(log) /\ floor' \in Nat /\ floor < floor' /\ floor \in Nat
  BY Fields DEF Reclaim
<1>2. UNCHANGED <<reducible, log, cuts, stream, sink, task, held, state, versions, events,
                  heard>>
  BY DEF Reclaim
<1>3. Typed' BY <1>1, <1>2 DEF Typed
<1>4. Bounded' BY <1>1, <1>2, Fields DEF Bounded
<1>5. Sessions' BY <1>2 DEF Sessions, Moves
<1>6. Suiting' BY <1>2 DEF Suiting, Suited, Moving, Moves
<1>7. Eras' BY <1>2 DEF Eras, HeldCurrent, AllCurrent, Current, Prefix
<1>8. Lengths' BY <1>2 DEF Lengths
<1>9. Linked'
  <2>1. ASSUME NEW i \in 1 .. Len(sink), sink[i].to <= floor PROVE sink[i].to <= floor'
    <3>1. sink[i].to \in Nat BY FrameFields
    <3> QED BY <3>1, <2>1, <1>1
  <2> QED BY <1>2, <2>1 DEF Linked, Follows, Consecutive, EndOf, Higher
<1>10. Caught' /\ Exact' BY <1>2 DEF Caught, Exact, Follows, Moves
<1>11. Covered'
  BY <1>2 DEF Covered, NoSilentJump, EndBefore, End, Reach, Reaching, NotBelow
<1>12. Forward' BY <1>2 DEF Forward
<1> QED BY <1>3, <1>4, <1>5, <1>6, <1>7, <1>8, <1>9, <1>10, <1>11, <1>12

\* A step that changes nothing the invariant speaks of.
LEMMA NothingKeeps ==
    ASSUME IInv,
           UNCHANGED <<reducible, log, floor, cuts, stream, sink, task, held, state, versions,
                       events, heard>>
    PROVE  IInv'
BY DEF IInv, Typed, Bounded, Sessions, Suiting, Suited, Moving, Moves, Eras, AllCurrent, Current,
       HeldCurrent, Prefix, Lengths, Linked, Follows, Consecutive, EndOf, Higher, Caught, Exact, Covered,
       NoSilentJump, EndBefore, End, Reach, Reaching, NotBelow, Forward

\* The view is the first frame of its session, and the session goes on from there.
LEMMA PushViewKeeps ==
    ASSUME IInv, PushView PROVE IInv'
<1> USE DEF IInv
<1> DEFINE f == Frame("View", <<log>>, cuts, 0)
           c == Higher(held.cursor, Len(log))
<1>1. stream.phase = "viewing" /\ Len(sink) < SinkCap /\ sink' = Append(sink, f)
      /\ stream' = Stream("live", Higher(stream.cursor, Len(log)), Beyond(stream.cursor))
      /\ UNCHANGED <<reducible, log, floor, cuts, task, held, state, versions, events, heard>>
  BY DEF PushView, Push, serverVars
<1>2. sink = <<>> /\ Len(sink) = 0 /\ task.phase = "listening" /\ stream.cursor = held.cursor
      /\ task.batch = <<>> /\ reducible
  BY <1>1 DEF Sessions, Suiting
<1>3. Len(log) \in Nat /\ held.cursor \in Nat /\ log \in Documents /\ cuts \in Nat BY Fields
<1>4. c \in Nat /\ c <= MaxLog BY <1>3, FollowerAssumption DEF Bounded, Higher
<1>5. f \in Frames /\ f.kind = "View" /\ f.from = cuts /\ Len(f.docs) = 1 /\ f.docs[1] = log
      /\ f.docs # <<>>
  BY <1>3 DEF Frames, Frame, FrameKinds
<1> HIDE DEF f
<1>6. sink' # <<>> /\ Len(sink') = 1 /\ sink'[1] = f /\ sink' \in Seq(Frames)
  <2>1. sink' \in Seq(Frames) BY <1>1, <1>5, Fields
  <2> QED BY <1>1, <1>2, <1>5, <2>1
<1>7. stream'.phase = "live" /\ stream'.cursor = c /\ Beyond(stream.cursor) \in Nat
  BY <1>1, <1>2, <1>3 DEF Stream, Beyond
<1>8. Prefix(log) BY <1>3 DEF Prefix
<1>9. AllCurrent' BY <1>1, <1>5, <1>6, <1>8 DEF AllCurrent, Current, Prefix
<1>10. Typed' BY <1>1, <1>2, <1>3, <1>4, <1>6, <1>7 DEF Typed, Stream
<1>11. Bounded' BY <1>1, <1>2, <1>4, <1>6, <1>7, FollowerAssumption DEF Bounded
<1>12. Sessions' BY <1>1, <1>2, <1>5, <1>6, <1>7 DEF Sessions, Asleep
<1>13. Suiting' BY <1>1, <1>2, <1>5, <1>6, <1>7 DEF Suiting, Suited, Moving, Moves
<1>14. Eras'
  <2>1. HeldCurrent' BY <1>1, HeldKept DEF Eras
  <2> QED BY <1>1, <1>2, <1>3, <1>5, <1>6, <1>7, <1>9, <2>1 DEF Eras
<1>15. Lengths' BY <1>1, <1>2, <1>3, <1>5, <1>6 DEF Lengths, Bounded
<1>16. Linked' BY <1>1, <1>2, <1>5, <1>6, <1>7 DEF Linked, Follows
<1>17. Caught' BY <1>1, <1>2, <1>5, <1>6, <1>7 DEF Caught, Moves
<1>18. Exact' BY <1>1, <1>2 DEF Exact, Suiting
<1>19. Covered'
  BY <1>1, <1>2, <1>5, <1>6, <1>7
  DEF Covered, NoSilentJump, EndBefore, End, Reach, Reaching, NotBelow
<1>20. Forward' BY <1>1, <1>2, <1>5, <1>6 DEF Forward
<1> QED BY <1>10, <1>11, <1>12, <1>13, <1>14, <1>15, <1>16, <1>17, <1>18, <1>19, <1>20

\* A frame of records or a gap goes on where the one before it ended.
LEMMA PushMoves ==
    ASSUME IInv, NEW f \in Frames, NEW c \in Nat, c <= Len(log),
           stream.phase = "live", Push(f, c, stream.skipped), Moves(f), Current(f),
           \A j \in 1 .. Len(f.docs) : Len(f.docs[j]) <= MaxLog,
           f.kind = "Records" =>
              /\ f.docs # <<>> /\ Consecutive(f.docs)
              /\ Len(f.docs[1]) = stream.cursor + 1 /\ EndOf(f.docs) = c,
           f.kind = "Gap" =>
              /\ f.from = stream.cursor /\ f.from < f.to /\ f.to = c /\ f.to <= floor
    PROVE  IInv'
<1> USE DEF IInv
<1>1. Len(sink) < SinkCap /\ sink' = Append(sink, f)
      /\ stream' = Stream("live", c, stream.skipped)
      /\ UNCHANGED <<reducible, log, floor, cuts, task, held, state, versions, events, heard>>
  BY DEF Push, serverVars
<1>2. f.kind \in {"Records", "Gap"} BY DEF Moves
<1>3. /\ sink' \in Seq(Frames) /\ Len(sink') = Len(sink) + 1 /\ Len(sink) \in Nat
      /\ \A i \in 1 .. Len(sink) : sink'[i] = sink[i] /\ i \in 1 .. Len(sink')
      /\ sink'[Len(sink) + 1] = f
      /\ sink' # <<>>
  <2>1. sink \in Seq(Frames) /\ Len(sink) \in Nat BY Fields
  <2> QED BY <1>1, <2>1, AppendShape
<1>4. stream'.phase = "live" /\ stream'.cursor = c /\ stream.cursor \in Nat
  BY <1>1, Fields DEF Stream
<1>5. \A i \in 1 .. Len(sink') : i \in 1 .. Len(sink) \/ i = Len(sink) + 1 BY <1>3
<1>6. sink # <<>> => 1 \in 1 .. Len(sink) /\ sink'[1] = sink[1]
  <2>1. sink \in Seq(Frames) BY Fields
  <2> QED BY <2>1, <1>3, EmptyShape
<1>7. sink = <<>> => Len(sink) = 0 /\ sink'[1] = f BY <1>3
<1>8. ASSUME NEW i \in 0 .. Len(sink), NEW e, Follows(i, e) PROVE Follows(i, e)'
  <2>1. CASE i < Len(sink)
    <3>1. i + 1 \in 1 .. Len(sink) BY <2>1, <1>3
    <3> QED BY <3>1, <2>1, <1>3, <1>8 DEF Follows
  <2>2. CASE i = Len(sink)
    <3>1. stream.cursor = e BY <2>2, <1>8 DEF Follows
    <3> QED BY <3>1, <2>2, <1>2, <1>3 DEF Follows
  <2> QED BY <2>1, <2>2, <1>3
<1>9. AllCurrent'
  <2>1. AllCurrent BY DEF Eras
  <2>2. ASSUME NEW i \in 1 .. Len(sink'), NEW j \in 1 .. Len(sink'[i].docs)
        PROVE  Prefix(sink'[i].docs[j])
    <3>1. CASE i = Len(sink) + 1 BY <3>1, <2>2, <1>3 DEF Current
    <3>2. CASE i \in 1 .. Len(sink)
      <4>1. sink'[i] = sink[i] BY <3>2, <1>3
      <4> QED BY <4>1, <3>2, <2>1, <2>2 DEF AllCurrent, Current
    <3> QED BY <3>1, <3>2, <1>5
  <2> QED BY <2>2, <1>1 DEF AllCurrent, Current, Prefix
<1>10. Typed'
  <2>1. stream' \in [phase : {"none", "viewing", "live"}, cursor : Nat, skipped : Nat]
    BY <1>1 DEF Typed, Stream
  <2> QED BY <1>1, <1>3, <2>1 DEF Typed
<1>11. Bounded'
  <2>1. c <= MaxLog BY <1>1, Fields, FollowerAssumption DEF Bounded
  <2> QED BY <1>1, <1>3, <1>4, <2>1, FollowerAssumption DEF Bounded
<1>12. Sessions'
  <2>1. task.phase \notin Asleep BY DEF Sessions
  <2>2. \A i \in 1 .. Len(sink) : Moves(sink[i]) \/ sink[i].kind = "View" BY DEF Sessions
  <2> QED BY <1>1, <1>2, <1>3, <1>4, <1>5, <2>1, <2>2 DEF Sessions, Moves
<1>13. Suiting'
  <2>1. Suited BY DEF Suiting
  <2>2. Moving' => Moving BY <1>1, <1>3, <1>6 DEF Moving, Moves
  <2>3. Suited' BY <2>1, <1>1 DEF Suited
  <2> QED BY <1>1, <1>2, <1>3, <1>4, <1>5, <2>1, <2>2, <2>3 DEF Suiting, Moves
<1>14. Eras'
  <2>1. \A i \in 1 .. Len(sink') : sink'[i].kind = "View" => sink'[i].from = cuts
    <3>1. \A i \in 1 .. Len(sink) : sink[i].kind = "View" => sink[i].from = cuts BY DEF Eras
    <3> QED BY <3>1, <1>2, <1>3, <1>5
  <2>2. cuts \in Nat BY Fields
  <2>3. \A i \in 1 .. Len(sink') : sink'[i].kind = "View" =>
             sink'[i].from <= cuts /\ sink'[i].from = cuts
    BY <2>1, <2>2
  <2>4. HeldCurrent' BY <1>1, HeldKept DEF Eras
  <2> QED BY <1>1, <1>9, <2>3, <2>4 DEF Eras
<1>15. Lengths'
  <2>1. ASSUME NEW i \in 1 .. Len(sink'), NEW j \in 1 .. Len(sink'[i].docs)
        PROVE  Len(sink'[i].docs[j]) <= MaxLog
    <3>1. CASE i = Len(sink) + 1 BY <3>1, <2>1, <1>3
    <3>2. CASE i \in 1 .. Len(sink)
      <4>1. sink'[i] = sink[i] BY <3>2, <1>3
      <4> QED BY <4>1, <3>2, <2>1 DEF Lengths
    <3> QED BY <3>1, <3>2, <1>5
  <2> QED BY <2>1, <1>1 DEF Lengths
<1>16. Linked'
  <2>2. ASSUME NEW i \in 1 .. Len(sink')
        PROVE  /\ sink'[i].kind = "Records" =>
                     /\ sink'[i].docs # <<>> /\ Consecutive(sink'[i].docs)
                     /\ Follows(i, EndOf(sink[i].docs))'
               /\ sink'[i].kind = "Gap" =>
                     /\ sink'[i].from < sink'[i].to /\ sink'[i].to <= floor
                     /\ Follows(i, sink[i].to)'
               /\ sink'[i].kind = "View" =>
                     Follows(i, Higher(held.cursor, Len(sink[i].docs[1])))'
    <3>1. CASE i = Len(sink) + 1
      <4>1. sink'[i] = f /\ i = Len(sink') BY <3>1, <1>3
      <4>2. Follows(i, c)' BY <4>1, <1>3, <1>4 DEF Follows
      <4> QED BY <1>2, <4>1, <4>2 DEF Follows, EndOf
    <3>2. CASE i \in 1 .. Len(sink)
      <4>1. sink'[i] = sink[i] /\ i \in 0 .. Len(sink) BY <3>2, <1>3
      <4>2. sink[i].kind = "Records" =>
               sink[i].docs # <<>> /\ Consecutive(sink[i].docs)
               /\ Follows(i, EndOf(sink[i].docs))
        BY <3>2 DEF Linked
      <4>3. sink[i].kind = "Gap" =>
               sink[i].from < sink[i].to /\ sink[i].to <= floor /\ Follows(i, sink[i].to)
        BY <3>2 DEF Linked
      <4>4. sink[i].kind = "View" => Follows(i, Higher(held.cursor, Len(sink[i].docs[1])))
        BY <3>2 DEF Linked
      <4>5. ASSUME sink[i].kind = "Records" PROVE Follows(i, EndOf(sink[i].docs))'
        <5>1. PICK e : e = EndOf(sink[i].docs) /\ Follows(i, e) BY <4>2, <4>5
        <5>2. Follows(i, e)' BY <5>1, <4>1, <1>8
        <5> QED BY <5>1, <5>2, <4>1 DEF EndOf, Follows
      <4>6. ASSUME sink[i].kind = "Gap" PROVE Follows(i, sink[i].to)'
        <5>1. PICK e : e = sink[i].to /\ Follows(i, e) BY <4>3, <4>6
        <5>2. Follows(i, e)' BY <5>1, <4>1, <1>8
        <5> QED BY <5>1, <5>2, <4>1 DEF Follows
      <4>7. ASSUME sink[i].kind = "View"
            PROVE  Follows(i, Higher(held.cursor, Len(sink[i].docs[1])))'
        <5>1. PICK e : e = Higher(held.cursor, Len(sink[i].docs[1])) /\ Follows(i, e)
          BY <4>4, <4>7
        <5>2. Follows(i, e)' BY <5>1, <4>1, <1>8
        <5> QED BY <5>1, <5>2, <4>1, <1>1 DEF Follows, Higher
      <4> QED BY <4>1, <4>2, <4>3, <4>5, <4>6, <4>7
    <3> QED BY <3>1, <3>2, <1>5
  <2>3. task.batch # <<>> => Consecutive(task.batch) /\ Follows(0, EndOf(task.batch))'
    <3> SUFFICES ASSUME task.batch # <<>>
                 PROVE  Consecutive(task.batch) /\ Follows(0, EndOf(task.batch))'
      OBVIOUS
    <3>1. Consecutive(task.batch) /\ Follows(0, EndOf(task.batch)) BY DEF Linked
    <3>2. PICK e : e = EndOf(task.batch) /\ Follows(0, e) BY <3>1
    <3>3. Follows(0, e)' BY <3>2, <1>3, <1>8
    <3> QED BY <3>1, <3>2, <3>3, <1>1 DEF EndOf, Follows
  <2> QED BY <2>2, <2>3, <1>1 DEF Linked, EndOf, Consecutive
<1>17. Caught' BY <1>1, <1>4 DEF Caught
<1>18. Exact'
  <2>1. ASSUME held.mode = "records", task.batch = <<>> PROVE Follows(0, held.cursor)'
    <3>1. PICK e : e = held.cursor /\ Follows(0, e) BY <2>1 DEF Exact
    <3>2. Follows(0, e)' BY <3>1, <1>3, <1>8
    <3> QED BY <3>1, <3>2, <1>1 DEF Follows
  <2> QED BY <2>1, <1>1 DEF Exact
<1>19. Covered'
  <2>1. held.dropped # None => NotBelow(held.cursor)'
    <3> SUFFICES ASSUME held.dropped # None PROVE NotBelow(held.cursor)' OBVIOUS
    <3>1. NotBelow(held.cursor) BY DEF Covered
    <3>2. held.cursor \in Nat BY Fields
    <3>3. CASE sink = <<>>
      BY <3>1, <3>2, <3>3, <1>1, <1>2, <1>3, <1>4, <1>7 DEF NotBelow
    <3>4. CASE sink # <<>> BY <3>1, <3>4, <1>1, <1>3, <1>6 DEF NotBelow
    <3> QED BY <3>3, <3>4
  <2>2. ASSUME task.phase # "reading", task.batch = <<>>, sink'[1].kind = "Gap"
        PROVE  sink'[1].from <= Reaching
    <3>1. CASE sink = <<>> BY <2>2, <3>1, <1>7 DEF Covered
    <3>2. CASE sink # <<>> BY <2>2, <3>2, <1>6 DEF Covered
    <3> QED BY <3>1, <3>2
  <2> QED BY <1>1, <1>3, <2>1, <2>2 DEF Covered, NoSilentJump, EndBefore, End, Reach, Reaching
<1>20. Forward' BY <1>1, <1>2, <1>3, <1>5 DEF Forward
<1> QED BY <1>10, <1>11, <1>12, <1>13, <1>14, <1>15, <1>16, <1>17, <1>18, <1>19, <1>20

LEMMA PushRecordsKeeps ==
    ASSUME IInv, NEW n \in 1 .. 2, PushRecords(n) PROVE IInv'
<1> USE DEF IInv
<1> DEFINE ds == [i \in 1 .. n |-> SubSeq(log, 1, stream.cursor + i)]
           f == Frame("Records", ds, 0, 0)
           c == stream.cursor + n
<1>1. /\ log \in Documents /\ Len(log) \in Nat /\ stream.cursor \in Nat
      /\ stream.phase = "live" /\ c \in Nat /\ c <= Len(log) /\ Len(log) <= MaxLog
      /\ Push(f, c, stream.skipped)
  <2>1. log \in Documents /\ Len(log) \in Nat /\ stream.cursor \in Nat BY Fields
  <2> QED BY <2>1 DEF PushRecords, Bounded
<1>2. ASSUME NEW i \in 1 .. n
      PROVE  ds[i] \in Documents /\ Len(ds[i]) = stream.cursor + i /\ Prefix(ds[i])
             /\ Len(ds[i]) <= MaxLog
  <2>1. stream.cursor + i \in 0 .. Len(log) /\ stream.cursor + i <= MaxLog
    BY <1>1, FollowerAssumption
  <2> QED BY <2>1, <1>1, PrefixOfLog
<1>3. ds \in Seq(Documents) /\ Len(ds) = n /\ ds # <<>> BY <1>2
<1>4. f \in Frames /\ f.kind = "Records" /\ f.docs = ds
  BY <1>3 DEF f, Frame, Frames, FrameKinds
<1> HIDE DEF f
<1> HIDE DEF ds
<1>5. Consecutive(ds) /\ Len(ds[1]) = stream.cursor + 1 /\ EndOf(ds) = c
  <2>1. \A i \in 1 .. n : Len(ds[i]) = stream.cursor + i BY <1>2
  <2>2. Len(ds[1]) = stream.cursor + 1 /\ Len(ds[n]) = stream.cursor + n BY <2>1
  <2>3. \A j \in 1 .. n : Len(ds[j]) = Len(ds[1]) + j - 1 /\ Len(ds[j]) >= 1
    BY <2>1, <2>2, <1>1
  <2>4. Consecutive(ds) BY <2>3, <1>3 DEF Consecutive
  <2> QED BY <2>2, <2>4, <1>3 DEF EndOf
<1>6. Current(f) BY <1>2, <1>3, <1>4 DEF Current
<1> HIDE DEF c
<1> QED BY <1>1, <1>2, <1>3, <1>4, <1>5, <1>6, PushMoves DEF Moves

LEMMA PushGapKeeps ==
    ASSUME IInv, PushGap PROVE IInv'
<1> USE DEF IInv
<1> DEFINE f == Frame("Gap", <<>>, stream.cursor, floor)
<1>1. /\ stream.cursor \in Nat /\ floor \in Nat /\ stream.phase = "live"
      /\ stream.cursor < floor /\ floor <= Len(log) /\ Push(f, floor, stream.skipped)
  BY Fields DEF PushGap, Bounded
<1>2. f \in Frames /\ f.kind = "Gap" /\ f.docs = <<>> /\ f.from = stream.cursor /\ f.to = floor
  BY <1>1 DEF Frame, Frames, FrameKinds
<1> HIDE DEF f
<1>3. Current(f) /\ floor <= floor BY <1>1, <1>2 DEF Current
<1> QED BY <1>1, <1>2, <1>3, PushMoves DEF Moves

\* A broken stream keeps the frames before the break.
LEMMA BrokenKeeps ==
    ASSUME IInv, NEW n \in 0 .. Len(sink), NEW kind \in {"Lost", "End"}, stream.phase # "none",
           sink' = Append(SubSeq(sink, 1, n), Notice(kind)), stream' = NoStream,
           \/ UNCHANGED <<log, cuts>>
           \/ /\ log' \in Documents /\ floor <= Len(log') /\ Len(log') <= Len(log)
              /\ cuts' = cuts + 1,
           UNCHANGED <<reducible, floor, task, held, state, versions, events, heard>>
    PROVE  IInv'
<1> USE DEF IInv
<1> DEFINE f == Notice(kind)
<1>1. f \in Frames /\ f.kind = kind /\ f.docs = <<>>
  BY DEF Notice, Frame, Frames, FrameKinds
<1> HIDE DEF f
<1>2. sink' = Append(SubSeq(sink, 1, n), f) BY DEF f
<1>3. /\ sink' \in Seq(Frames) /\ Len(sink') = n + 1 /\ n \in Nat /\ n <= Len(sink)
      /\ \A i \in 1 .. n : sink'[i] = sink[i] /\ i \in 1 .. Len(sink)
      /\ sink'[n + 1] = f
      /\ sink' # <<>> /\ Len(sink) \in Nat
  <2>1. sink \in Seq(Frames) /\ Len(sink) \in Nat BY Fields
  <2>2. n \in Nat /\ n <= Len(sink) BY <2>1
  <2>3. /\ sink' \in Seq(Frames) /\ Len(sink') = n + 1
        /\ \A i \in 1 .. n : sink'[i] = sink[i] /\ i \in 1 .. Len(sink)
        /\ sink'[n + 1] = f
    BY <2>1, <1>1, <1>2, CutShape
  <2> QED BY <2>1, <2>2, <2>3
<1>4. \A i \in 1 .. Len(sink') : i \in 1 .. n \/ (i = n + 1 /\ sink'[i] = f)
  BY <1>3, OneMore
<1>5. stream'.phase = "none" /\ stream'.cursor = 0 /\ stream'.skipped = 0
  BY DEF NoStream, Stream
<1>6. f.kind \in {"Lost", "End"} BY <1>1
<1>7. n >= 1 => sink # <<>> /\ sink'[1] = sink[1] BY <1>3
<1>8. n = 0 => sink'[1] = f BY <1>3
<1>9. cuts' \in Nat /\ cuts <= cuts' /\ log' \in Documents /\ Len(log') \in Nat
      /\ Len(log') <= MaxLog /\ floor <= Len(log') /\ cuts \in Nat
  <2>1. log \in Documents /\ cuts \in Nat /\ Len(log) \in Nat BY Fields
  <2>2. log' \in Documents /\ cuts' \in Nat /\ cuts <= cuts' BY <2>1
  <2>3. Len(log') \in Nat BY <2>2 DEF Documents
  <2>4. Len(log') <= Len(log) /\ floor <= Len(log') BY <2>1 DEF Bounded
  <2> QED BY <2>1, <2>2, <2>3, <2>4, FollowerAssumption DEF Bounded
<1>10. Typed' BY <1>3, <1>5, <1>9 DEF Typed, NoStream, Stream
<1>11. Bounded'
  BY <1>3, <1>5, <1>9, FollowerAssumption DEF Bounded
<1>12. Sessions'
  <2>1. task.phase \notin Asleep BY DEF Sessions
  <2>2. \A i \in 1 .. Len(sink) : Moves(sink[i]) \/ sink[i].kind = "View" BY DEF Sessions
  <2> QED BY <1>3, <1>4, <1>5, <1>6, <2>1, <2>2 DEF Sessions, Moves
<1>13. Suiting'
  <2>1. Moving' => Moving BY <1>3, <1>6, <1>7, <1>8 DEF Moving, Moves
  <2>2. Suited' <=> Suited BY DEF Suited
  <2> QED BY <1>3, <1>4, <1>5, <1>6, <2>1, <2>2 DEF Suiting, Moves
<1>14. Eras'
  <2>1. CASE UNCHANGED <<log, cuts>>
    <3>1. AllCurrent => AllCurrent'
      <4> SUFFICES ASSUME AllCurrent, NEW i \in 1 .. Len(sink'), NEW j \in 1 .. Len(sink'[i].docs)
                   PROVE  Prefix(sink'[i].docs[j])
        BY <2>1 DEF AllCurrent, Current, Prefix
      <4>1. CASE i = n + 1 BY <4>1, <1>1, <1>3
      <4>2. CASE i \in 1 .. n BY <4>2, <1>3 DEF AllCurrent, Current
      <4> QED BY <4>1, <4>2, <1>4
    <3>2. HeldCurrent' BY <2>1, HeldKept DEF Eras
    <3> QED BY <1>3, <1>4, <1>5, <1>6, <2>1, <3>1, <3>2 DEF Eras
  <2>2. CASE cuts' = cuts + 1
    <3>1. held.era < cuts' /\ task.era < cuts'
      <4>1. held.era \in Nat /\ task.era \in Nat BY Fields
      <4> QED BY <4>1, <2>2, <1>9 DEF Eras
    <3>2. \A i \in 1 .. Len(sink') : sink'[i].kind = "View" => sink'[i].from < cuts'
      <4>1. ASSUME NEW i \in 1 .. n, sink[i].kind = "View" PROVE sink[i].from < cuts'
        <5>1. sink[i].from <= cuts /\ sink[i].from \in Nat
          BY <4>1, <1>3, FrameFields DEF Eras
        <5> QED BY <5>1, <2>2, <1>9
      <4> QED BY <4>1, <1>3, <1>4, <1>6
    <3>3. \A a, b \in Nat : a < b => a <= b /\ a # b OBVIOUS
    <3>4. held.era \in Nat /\ task.era \in Nat BY Fields
    <3>5. \A i \in 1 .. Len(sink') : sink'[i].from \in Nat
      BY <1>3 DEF Frames
    <3>6. held.era <= cuts' /\ held.era # cuts' /\ task.era <= cuts' /\ task.era # cuts'
      BY <3>1, <3>3, <3>4, <1>9
    <3>7. HeldCurrent' BY <3>6 DEF HeldCurrent
    <3> QED BY <1>5, <1>9, <3>2, <3>3, <3>5, <3>6, <3>7 DEF Eras
  <2> QED BY <2>1, <2>2
<1>15. Lengths'
  <2>1. ASSUME NEW i \in 1 .. Len(sink'), NEW j \in 1 .. Len(sink'[i].docs)
        PROVE  Len(sink'[i].docs[j]) <= MaxLog
    <3>1. CASE i = n + 1 BY <3>1, <2>1, <1>1, <1>3
    <3>2. CASE i \in 1 .. n
      <4>1. sink'[i] = sink[i] /\ i \in 1 .. Len(sink) BY <3>2, <1>3
      <4> QED BY <4>1, <2>1 DEF Lengths
    <3> QED BY <3>1, <3>2, <1>4
  <2> QED BY <2>1 DEF Lengths
<1>16. ASSUME NEW i \in 0 .. n, NEW e, Follows(i, e) PROVE Follows(i, e)'
  <2>1. CASE i < n
    <3>1. i + 1 \in 1 .. n /\ i < Len(sink) /\ i < Len(sink') BY <2>1, <1>3
    <3>2. sink'[i + 1] = sink[i + 1] BY <3>1, <1>3
    <3> QED BY <3>1, <3>2, <1>5, <1>16 DEF Follows
  <2>2. CASE i = n BY <2>2, <1>3, <1>5, <1>6 DEF Follows
  <2> QED BY <2>1, <2>2, <1>3
<1>17. Linked'
  <2>1. ASSUME NEW i \in 1 .. Len(sink')
        PROVE  /\ sink'[i].kind = "Records" =>
                     /\ sink'[i].docs # <<>> /\ Consecutive(sink'[i].docs)
                     /\ Follows(i, EndOf(sink[i].docs))'
               /\ sink'[i].kind = "Gap" =>
                     /\ sink'[i].from < sink'[i].to /\ sink'[i].to <= floor
                     /\ Follows(i, sink[i].to)'
               /\ sink'[i].kind = "View" =>
                     Follows(i, Higher(held.cursor, Len(sink[i].docs[1])))'
    <3>1. CASE i = n + 1 BY <3>1, <1>3, <1>6
    <3>2. CASE i \in 1 .. n
      <4>1. sink'[i] = sink[i] /\ i \in 0 .. n /\ i \in 1 .. Len(sink) BY <3>2, <1>3
      <4>2. ASSUME sink[i].kind = "Records"
            PROVE  /\ sink[i].docs # <<>> /\ Consecutive(sink[i].docs)
                   /\ Follows(i, EndOf(sink[i].docs))'
        <5>1. PICK e : e = EndOf(sink[i].docs) /\ Follows(i, e) BY <4>1, <4>2 DEF Linked
        <5>2. Follows(i, e)' BY <5>1, <4>1, <1>16
        <5>3. sink[i].docs # <<>> /\ Consecutive(sink[i].docs) BY <4>1, <4>2 DEF Linked
        <5> QED BY <5>1, <5>2, <5>3, <4>1 DEF EndOf, Follows
      <4>3. ASSUME sink[i].kind = "Gap"
            PROVE  sink[i].from < sink[i].to /\ sink[i].to <= floor /\ Follows(i, sink[i].to)'
        <5>1. PICK e : e = sink[i].to /\ Follows(i, e) BY <4>1, <4>3 DEF Linked
        <5>2. Follows(i, e)' BY <5>1, <4>1, <1>16
        <5>3. sink[i].from < sink[i].to /\ sink[i].to <= floor BY <4>1, <4>3 DEF Linked
        <5> QED BY <5>1, <5>2, <5>3, <4>1 DEF Follows
      <4>4. ASSUME sink[i].kind = "View"
            PROVE  Follows(i, Higher(held.cursor, Len(sink[i].docs[1])))'
        <5>1. PICK e : e = Higher(held.cursor, Len(sink[i].docs[1])) /\ Follows(i, e)
          BY <4>1, <4>4 DEF Linked
        <5>2. Follows(i, e)' BY <5>1, <4>1, <1>16
        <5> QED BY <5>1, <5>2, <4>1 DEF Follows, Higher
      <4> QED BY <4>1, <4>2, <4>3, <4>4
    <3> QED BY <3>1, <3>2, <1>4
  <2>2. task.batch # <<>> => Consecutive(task.batch) /\ Follows(0, EndOf(task.batch))'
    <3> SUFFICES ASSUME task.batch # <<>>
                 PROVE  Consecutive(task.batch) /\ Follows(0, EndOf(task.batch))'
      OBVIOUS
    <3>1. Consecutive(task.batch) /\ Follows(0, EndOf(task.batch)) BY DEF Linked
    <3>2. PICK e : e = EndOf(task.batch) /\ Follows(0, e) BY <3>1
    <3>3. Follows(0, e)' BY <3>2, <1>3, <1>16
    <3> QED BY <3>1, <3>2, <3>3 DEF EndOf, Follows
  <2> QED BY <2>1, <2>2 DEF Linked, EndOf, Consecutive
<1>18. Caught' BY <1>5 DEF Caught
<1>19. Exact'
  <2>1. ASSUME held.mode = "records", task.batch = <<>> PROVE Follows(0, held.cursor)'
    <3>1. PICK e : e = held.cursor /\ Follows(0, e) BY <2>1 DEF Exact
    <3>2. Follows(0, e)' BY <3>1, <1>3, <1>16
    <3> QED BY <3>1, <3>2 DEF Follows
  <2> QED BY <2>1 DEF Exact
<1>20. Covered'
  <2>1. held.dropped # None => NotBelow(held.cursor)'
    BY <1>3, <1>5, <1>6, <1>7, <1>8 DEF Covered, NotBelow
  <2> QED BY <1>3, <1>5, <1>6, <1>7, <1>8, <2>1
          DEF Covered, NoSilentJump, EndBefore, End, Reach, Reaching
<1>21. Forward'
  <2>1. CASE UNCHANGED <<log, cuts>> BY <2>1, <1>3, <1>4, <1>6 DEF Forward
  <2>2. CASE cuts' = cuts + 1
    <3>1. cuts' # 0 BY <2>2, <1>9
    <3> QED BY <3>1 DEF Forward
  <2> QED BY <2>1, <2>2
<1> QED BY <1>10, <1>11, <1>12, <1>13, <1>14, <1>15, <1>17, <1>18, <1>19, <1>20, <1>21

LEMMA BreakStreamKeeps ==
    ASSUME IInv, NEW n \in 0 .. SinkCap, NEW kind \in {"Lost", "End"}, BreakStream(n, kind)
    PROVE  IInv'
<1>1. n \in 0 .. Len(sink) BY Fields DEF BreakStream, Broken, IInv
<1> QED BY <1>1, BrokenKeeps DEF BreakStream, Broken, serverVars

\* A power cut ends the stream; nothing is of the log any more until the next view.
LEMMA PowerCutKeeps ==
    ASSUME IInv, NEW n \in 0 .. MaxLog, PowerCut(n) PROVE IInv'
<1> USE DEF IInv
<1>1. /\ cuts' = cuts + 1 /\ n >= floor /\ n < Len(log) /\ log' = SubSeq(log, 1, n)
      /\ UNCHANGED <<reducible, floor, task, held, state, versions, events, heard>>
      /\ stream' = NoStream
  BY DEF PowerCut
<1>2. log \in Documents /\ Len(log) \in Nat /\ floor \in Nat /\ cuts \in Nat BY Fields
<1>3. n \in 0 .. Len(log) BY <1>1, <1>2
<1>4. log' \in Documents /\ Len(log') = n BY <1>1, <1>2, <1>3, PrefixOfLog
<1>5. floor <= Len(log') /\ Len(log') <= Len(log) BY <1>1, <1>2, <1>4
<1>6. CASE stream.phase # "none"
  <2>1. sink \in Seq(Frames) /\ Len(sink) \in Nat BY Fields
  <2>2. SubSeq(sink, 1, Len(sink)) = sink
    BY <2>1
  <2>3. sink' = Append(SubSeq(sink, 1, Len(sink)), Notice("Lost"))
    BY <2>2, <1>6 DEF PowerCut
  <2> QED BY <1>1, <1>4, <1>5, <1>6, <2>1, <2>3, BrokenKeeps
<1>7. CASE stream.phase = "none"
  <2>1. sink' = sink BY <1>7 DEF PowerCut
  <2>2. stream'.phase = "none" /\ stream'.cursor = 0 BY <1>1 DEF NoStream, Stream
  <2>3. \A a \in Nat : a <= cuts => a <= cuts' /\ a # cuts' BY <1>1, <1>2
  <2>4. held.era \in Nat /\ task.era \in Nat BY Fields
  <2>5. \A i \in 1 .. Len(sink) : sink[i].from \in Nat BY FrameFields
  <2>6. held.era <= cuts' /\ held.era # cuts' /\ task.era <= cuts' /\ task.era # cuts'
    BY <2>3, <2>4 DEF Eras
  <2>7. Typed' BY <1>1, <1>2, <1>4, <2>1 DEF Typed, NoStream, Stream
  <2>8. Bounded' BY <1>1, <1>2, <1>4, <1>5, <2>1, <2>2, FollowerAssumption DEF Bounded
  <2>9. Sessions' BY <1>1, <1>7, <2>1, <2>2 DEF Sessions, Moves
  <2>10. Suiting' BY <1>1, <1>7, <2>1, <2>2 DEF Suiting, Suited, Moving, Moves
  <2>11. Eras'
    <3>1. HeldCurrent' BY <2>6, <1>1 DEF HeldCurrent
    <3>2. \A i \in 1 .. Len(sink) :
             sink[i].kind = "View" => sink[i].from <= cuts' /\ sink[i].from # cuts'
      BY <2>3, <2>5 DEF Eras
    <3> QED BY <1>1, <2>1, <2>2, <2>6, <3>1, <3>2 DEF Eras
  <2>12. Lengths' BY <1>1, <2>1 DEF Lengths
  <2>13. Linked' BY <1>1, <1>7, <2>1, <2>2 DEF Linked, Follows, Consecutive, EndOf, Higher
  <2>14. Caught' BY <2>2 DEF Caught
  <2>15. Exact' BY <1>1, <1>7, <2>1, <2>2 DEF Exact, Follows
  <2>16. Covered'
    BY <1>1, <1>7, <2>1, <2>2
    DEF Covered, NoSilentJump, EndBefore, End, Reach, Reaching, NotBelow
  <2>17. Forward'
    <3>1. cuts' # 0 BY <1>1, <1>2
    <3> QED BY <1>1, <3>1 DEF Forward
  <2> QED BY <2>7, <2>8, <2>9, <2>10, <2>11, <2>12, <2>13, <2>14, <2>15, <2>16, <2>17
<1> QED BY <1>6, <1>7

-----------------------------------------------------------------------------
(* What is shown and told. *)

LEMMA TickKeeps ==
    ASSUME IInv, Tick PROVE IInv'
<1> USE DEF IInv
<1> DEFINE ph == IF task.phase = "ticking" THEN "listening"
                 ELSE IF task.phase = "retrying" THEN "opening" ELSE "stopped"
<1>1. /\ task.phase \in {"ticking", "retrying", "stopping"} /\ task' = At(ph)
      /\ versions' = state.version
      /\ UNCHANGED <<reducible, log, floor, cuts, stream, sink, held, state, events, heard>>
  BY DEF Tick, serverVars
<1>2. /\ ph \in {"listening", "opening", "stopped"}
      /\ (ph # "listening" => task.phase \in Asleep)
      /\ task'.phase = ph /\ task'.batch = <<>> /\ ~task'.doc.held /\ task'.era = 0
      /\ task'.from = 0 /\ task'.to = 0
  BY <1>1 DEF At, Task, NoDoc, Asleep
<1>3. task' \in [phase : Phases, batch : Seq(Documents), doc : Snapshots, era : Nat,
                 from : Nat, to : Nat]
  BY <1>1 DEF At, Task, NoDoc, Phases, Snapshots, Documents
<1> HIDE DEF ph
<1>4. task.batch = <<>> BY <1>1 DEF Sessions
<1>5. cuts \in Nat /\ state.version \in Nat BY Fields
<1>6. Typed' BY <1>1, <1>3, <1>5 DEF Typed
<1>7. Bounded' BY <1>1, <1>2, FollowerAssumption DEF Bounded
<1>8. Sessions'
  <2>1. \A i \in 1 .. Len(sink) : sink[i].kind # "View" BY <1>1 DEF Sessions
  <2>2. stream.phase # "viewing" BY <1>1 DEF Sessions
  <2>3. ph # "listening" => sink = <<>> /\ stream.phase = "none" BY <1>2 DEF Sessions
  <2> QED BY <1>1, <1>2, <2>1, <2>2, <2>3 DEF Sessions, Moves, Asleep
<1>9. Suiting'
  <2>1. Moving' => Moving BY <1>1, <1>2 DEF Moving, Moves
  <2>2. Suited' <=> Suited BY <1>1 DEF Suited
  <2> QED BY <1>1, <1>2, <2>1, <2>2 DEF Suiting, Moves
<1>10. Eras'
  <2>1. AllCurrent => AllCurrent' BY <1>1 DEF AllCurrent, Current, Prefix
  <2>2. HeldCurrent' BY <1>1, <1>2 DEF Eras, HeldCurrent, Prefix
  <2> QED BY <1>1, <1>2, <1>5, <2>1, <2>2 DEF Eras
<1>11. Lengths' BY <1>1, <1>2 DEF Lengths
<1>12. Linked' BY <1>1, <1>2 DEF Linked, Follows, Consecutive, EndOf, Higher
<1>13. Caught' BY <1>1, <1>2 DEF Caught, Moves
<1>14. Exact' BY <1>1, <1>2, <1>4 DEF Exact, Follows
<1>15. Covered'
  BY <1>1, <1>2, <1>4
  DEF Covered, NoSilentJump, EndBefore, End, Reach, Reaching, NotBelow
<1>16. Forward' BY <1>1, <1>2, <1>5 DEF Forward
<1> QED BY <1>6, <1>7, <1>8, <1>9, <1>10, <1>11, <1>12, <1>13, <1>14, <1>15, <1>16

\* An event taken is where the consumer is then: the end of the queue stays.
LEMMA ConsumeKeeps ==
    ASSUME IInv, Consume PROVE IInv'
<1> USE DEF IInv
<1>1. /\ events # <<>> /\ heard' = Head(events).to /\ events' = Tail(events)
      /\ UNCHANGED <<reducible, log, floor, cuts, stream, sink, task, held, state, versions>>
  BY DEF Consume, serverVars
<1>2. events \in Seq(Events) BY Fields
<1>3. /\ events' \in Seq(Events) /\ Len(events) \in Nat \ {0} /\ Len(events') = Len(events) - 1
      /\ \A i \in 1 .. Len(events') : events'[i] = events[i + 1] /\ i + 1 \in 1 .. Len(events)
      /\ heard' = events[1].to
  BY <1>1, <1>2, TailShape
<1>4. 1 \in 1 .. Len(events) /\ heard' \in Nat /\ heard' <= MaxLog
  BY <1>3, EventFields DEF Bounded
<1>5. ASSUME NEW i \in 1 .. Len(events') + 1 PROVE EndBefore(i)' = EndBefore(i + 1)
  <2>1. CASE i = 1 BY <2>1, <1>3, <1>4 DEF EndBefore
  <2>2. CASE i # 1
    <3>1. i - 1 \in 1 .. Len(events') /\ (i - 1) + 1 = i /\ (i + 1) - 1 = i /\ i + 1 # 1
      BY <2>2, <1>3
    <3>2. events'[i - 1] = events[i] BY <3>1, <1>3
    <3> QED BY <2>2, <3>1, <3>2 DEF EndBefore
  <2> QED BY <2>1, <2>2
<1>6. End' = End
  <2>1. PICK n : n = Len(events') + 1 OBVIOUS
  <2>2. n \in 1 .. Len(events') + 1 /\ n + 1 = Len(events) + 1 BY <2>1, <1>3
  <2>3. EndBefore(n)' = EndBefore(n + 1) BY <2>2, <1>5
  <2>4. End' = EndBefore(n)' BY <2>1 DEF End, EndBefore
  <2> QED BY <2>2, <2>3, <2>4 DEF End
<1>7. NoSilentJump'
  <2>1. NoSilentJump BY DEF Covered
  <2>2. ASSUME NEW i \in 1 .. Len(events') PROVE events'[i].from <= EndBefore(i)'
    <3>1. i \in 1 .. Len(events') + 1 /\ i + 1 \in 1 .. Len(events) BY <1>3
    <3>2. events[i + 1].from <= EndBefore(i + 1) BY <2>1, <3>1, <1>2 DEF NoSilentJump
    <3> QED BY <3>1, <3>2, <1>3, <1>5
  <2>3. DOMAIN events' = 1 .. Len(events') BY <1>3
  <2> QED BY <2>2, <2>3 DEF NoSilentJump, EndBefore
<1>8. Typed' BY <1>1, <1>3, <1>4 DEF Typed
<1>9. Bounded'
  <2>1. \A i \in 1 .. Len(events') : events'[i].to <= MaxLog BY <1>3 DEF Bounded
  <2> QED BY <1>1, <1>3, <1>4, <2>1, FollowerAssumption DEF Bounded
<1>10. Sessions' BY <1>1 DEF Sessions, Moves
<1>11. Suiting' BY <1>1 DEF Suiting, Suited, Moving, Moves
<1>12. Eras'
  <2>1. HeldCurrent' BY <1>1, HeldKept DEF Eras
  <2> QED BY <1>1, <2>1 DEF Eras, AllCurrent, Current, Prefix
<1>13. Lengths' BY <1>1 DEF Lengths
<1>14. Linked' BY <1>1 DEF Linked, Follows, Consecutive, EndOf, Higher
<1>15. Caught' BY <1>1 DEF Caught, Moves
<1>16. Exact' BY <1>1 DEF Exact, Follows
<1>17. Covered' BY <1>1, <1>6, <1>7 DEF Covered, Reach, Reaching, NotBelow
<1>18. Forward' BY <1>1 DEF Forward
<1> QED BY <1>8, <1>9, <1>10, <1>11, <1>12, <1>13, <1>14, <1>15, <1>16, <1>17, <1>18

\* The gap is in the queue before the view that closes it is shown.
LEMMA SendGapKeeps ==
    ASSUME IInv, SendGap PROVE IInv'
<1> USE DEF IInv
<1> DEFINE g == Event("Gap", task.from, task.to)
<1>1. /\ task.phase = "emitting" /\ Len(events) < EventCap /\ events' = Append(events, g)
      /\ task' = At("ticking") /\ versions' = versions
      /\ state' = [snapshot |-> held'.store, version |-> held'.cursor, status |-> "live"]
      /\ task.doc.held => held' = Adopted(held, task.doc.doc, task.era)
      /\ ~task.doc.held => held' = held
      /\ UNCHANGED <<reducible, log, floor, cuts, stream, sink, heard>>
  BY DEF SendGap, Room, Publish, serverVars
<1>2. /\ task.from \in Nat /\ task.to \in Nat /\ task.era \in Nat /\ task.doc \in Snapshots
      /\ events \in Seq(Events) /\ Len(events) \in Nat /\ cuts \in Nat
      /\ held.cursor \in Nat /\ state.version \in Nat /\ versions \in Nat
  BY Fields
<1>3. g \in Events /\ g.to = task.to /\ g.from = task.from BY <1>2 DEF Event, Events
<1> HIDE DEF g
<1>4. /\ events' \in Seq(Events) /\ Len(events') = Len(events) + 1
      /\ \A i \in 1 .. Len(events) : events'[i] = events[i]
      /\ events'[Len(events) + 1] = g
  BY <1>1, <1>2, <1>3, AppendShape
<1>5. /\ task'.phase = "ticking" /\ task'.batch = <<>> /\ ~task'.doc.held /\ task'.era = 0
      /\ task'.to = 0
      /\ task' \in [phase : Phases, batch : Seq(Documents), doc : Snapshots, era : Nat,
                    from : Nat, to : Nat]
  BY <1>1 DEF At, Task, NoDoc, Phases, Snapshots, Documents
<1>6. /\ held'.cursor = task.to /\ held'.mode = held.mode /\ held'.dropped = held.dropped
      /\ held.dropped = None
      /\ task.doc.held => held'.store = Doc(task.doc.doc) /\ held'.era = task.era
      /\ ~task.doc.held => held'.store = held.store /\ held'.era = held.era
      /\ held' \in [cursor : Nat, store : Snapshots, mode : {"reducible", "records"},
                    dropped : Ranges, era : Nat]
  <2>0. held.dropped = None BY <1>1 DEF Covered
  <2>1. CASE task.doc.held
    <3>1. held' = [held EXCEPT !.cursor = Len(task.doc.doc), !.store = Doc(task.doc.doc),
                               !.era = task.era]
      BY <1>1, <2>1 DEF Adopted
    <3>2. Len(task.doc.doc) = task.to BY <1>1, <2>1 DEF Lengths
    <3>3. Doc(task.doc.doc) \in Snapshots BY <1>2 DEF Doc, Snapshots
    <3> QED BY <2>0, <2>1, <3>1, <3>2, <3>3, <1>2 DEF Typed
  <2>2. CASE ~task.doc.held BY <2>0, <2>2, <1>1 DEF Typed, Lengths
  <2> QED BY <2>1, <2>2
<1>7. /\ state'.snapshot = held'.store /\ state'.version = task.to
      /\ state' \in [snapshot : Snapshots, version : Nat,
                     status : {"reconnecting", "live", "ended", "failed"}]
  BY <1>1, <1>2, <1>6
<1>8. held'.store.held <=> reducible
  <2>1. task.doc.held <=> reducible BY <1>1 DEF Suiting
  <2>2. ~reducible => ~held.store.held BY DEF Suiting
  <2>3. Doc(task.doc.doc).held BY DEF Doc
  <2>4. held.store.held \in BOOLEAN /\ reducible \in BOOLEAN BY Fields DEF Snapshots
  <2> QED BY <2>1, <2>2, <2>3, <2>4, <1>6
<1>9. ASSUME NEW i \in 1 .. Len(events) + 1 PROVE EndBefore(i)' = EndBefore(i)
  <2>1. CASE i = 1 BY <2>1, <1>1 DEF EndBefore
  <2>2. CASE i # 1
    <3>1. i - 1 \in 1 .. Len(events) BY <2>2, <1>2
    <3>2. events'[i - 1] = events[i - 1] BY <3>1, <1>4
    <3> QED BY <2>2, <3>2 DEF EndBefore
  <2> QED BY <2>1, <2>2
<1>10. End' = task.to
  <2>1. Len(events') + 1 # 1 /\ (Len(events') + 1) - 1 = Len(events) + 1 BY <1>2, <1>4
  <2>2. End' = events'[(Len(events') + 1) - 1].to BY <2>1 DEF End, EndBefore
  <2> QED BY <2>1, <2>2, <1>3, <1>4
<1>11. NoSilentJump'
  <2>1. NoSilentJump /\ task.from <= End BY <1>1 DEF Covered
  <2>2. ASSUME NEW i \in 1 .. Len(events') PROVE events'[i].from <= EndBefore(i)'
    <3>1. i \in 1 .. Len(events) + 1 BY <1>4
    <3>2. CASE i = Len(events) + 1 BY <3>1, <3>2, <2>1, <1>3, <1>4, <1>9 DEF End
    <3>3. CASE i # Len(events) + 1
      <4>1. i \in 1 .. Len(events) BY <3>1, <3>3, <1>2
      <4>2. events[i].from <= EndBefore(i) BY <4>1, <2>1, <1>2 DEF NoSilentJump
      <4> QED BY <4>1, <4>2, <3>1, <1>4, <1>9
    <3> QED BY <3>2, <3>3
  <2>3. DOMAIN events' = 1 .. Len(events') BY <1>4
  <2> QED BY <2>2, <2>3 DEF NoSilentJump, EndBefore
<1>12. task.batch = <<>> BY <1>1 DEF Sessions
<1>13. Typed' BY <1>1, <1>4, <1>5, <1>6, <1>7 DEF Typed
<1>14. Bounded'
  <2>1. task.to <= MaxLog BY DEF Bounded
  <2>2. ASSUME NEW i \in 1 .. Len(events') PROVE events'[i].to <= MaxLog
    <3>1. CASE i = Len(events) + 1 BY <3>1, <2>1, <1>3, <1>4
    <3>2. CASE i # Len(events) + 1
      <4>1. i \in 1 .. Len(events) BY <3>2, <1>2, <1>4
      <4> QED BY <4>1, <1>4 DEF Bounded
    <3> QED BY <3>1, <3>2
  <2>3. Len(events') <= EventCap BY <1>1, <1>2, <1>4, FollowerAssumption
  <2>4. held'.dropped.to <= MaxLog BY <1>6 DEF Bounded
  <2>5. task'.to <= MaxLog BY <1>5, FollowerAssumption
  <2>6. held'.cursor <= MaxLog /\ state'.version <= MaxLog BY <1>6, <1>7, <2>1
  <2> QED BY <1>1, <2>2, <2>3, <2>4, <2>5, <2>6 DEF Bounded
<1>15. Sessions'
  <2>1. \A i \in 1 .. Len(sink) : sink[i].kind # "View" BY <1>1 DEF Sessions
  <2>2. stream.phase # "viewing" BY <1>1 DEF Sessions
  <2> QED BY <1>1, <1>5, <2>1, <2>2 DEF Sessions, Moves, Asleep
<1>16. Suiting'
  <2>1. Suited BY <1>1 DEF Suiting, Moving
  <2>2. Suited' BY <2>1, <1>1, <1>6 DEF Suited
  <2> QED BY <1>1, <1>5, <1>6, <1>8, <2>1, <2>2 DEF Suiting, Moves
<1>17. Eras'
  <2>1. AllCurrent => AllCurrent' BY <1>1 DEF AllCurrent, Current, Prefix
  <2>2. held'.era <= cuts BY <1>6 DEF Eras
  <2>3. held'.era = cuts => AllCurrent BY <1>1, <1>6 DEF Eras
  <2>4. held'.era = cuts /\ held'.store.held => Prefix(held'.store.doc)
    <3>1. CASE task.doc.held
      <4>1. held'.store.doc = task.doc.doc BY <3>1, <1>6 DEF Doc
      <4> QED BY <4>1, <3>1, <1>1, <1>6 DEF Eras, HeldCurrent
    <3>2. CASE ~task.doc.held BY <3>2, <1>1, <1>6 DEF Eras, HeldCurrent
    <3> QED BY <3>1, <3>2
  <2>5. HeldCurrent'
    BY <2>4, <1>1, <1>5, <1>7 DEF HeldCurrent, Prefix
  <2> QED BY <1>1, <1>2, <1>5, <2>1, <2>2, <2>3, <2>5 DEF Eras
<1>18. Lengths'
  <2>1. held'.store.held => Len(held'.store.doc) = task.to
    <3>1. task.doc.held => Len(task.doc.doc) = task.to BY <1>1 DEF Lengths
    <3>2. ~task.doc.held => ~held'.store.held
      BY <1>1, <1>6, <1>8 DEF Suiting
    <3> QED BY <3>1, <3>2, <1>6 DEF Doc
  <2> QED BY <1>1, <1>5, <1>6, <1>7, <2>1 DEF Lengths
<1>19. Linked'
  <2>1. \A i \in 1 .. Len(sink) : sink[i].kind # "View" BY <1>1 DEF Sessions
  <2> QED BY <1>1, <1>5, <2>1 DEF Linked, Follows, Consecutive, EndOf
<1>20. Caught' BY <1>1, <1>5 DEF Caught, Moves
<1>21. Exact'
  <2>1. held.mode = "records" => held'.cursor = held.cursor
    <3>1. held.mode = "records" => ~task.doc.held BY <1>1 DEF Suiting
    <3> QED BY <3>1, <1>1
  <2> QED BY <2>1, <1>1, <1>5, <1>6, <1>12 DEF Exact, Follows
<1>22. Covered'
  <2>1. Reach' = task.to BY <1>6, <1>10 DEF Reach
  <2>2. /\ sink # <<>> /\ sink[1].kind = "Gap" => sink[1].from <= task.to
        /\ sink = <<>> /\ stream.phase = "live" => stream.cursor <= task.to
    BY <1>1, <1>12 DEF Covered, Reaching
  <2> QED BY <1>1, <1>2, <1>5, <1>6, <1>11, <2>1, <2>2 DEF Covered, Reaching
<1>23. Forward'
  <2>1. \A i \in 1 .. Len(sink) : sink[i].kind # "View" BY <1>1 DEF Sessions
  <2>2. cuts = 0 => task.to <= Len(log) /\ versions <= task.to
    <3> SUFFICES ASSUME cuts = 0 PROVE task.to <= Len(log) /\ versions <= task.to OBVIOUS
    <3>1. versions <= task.to BY <1>1, <1>2 DEF Forward
    <3>2. CASE task.doc.held
      <4>1. task.era = cuts BY <1>2 DEF Eras
      <4> QED BY <4>1, <3>1, <3>2, <1>1 DEF Eras, HeldCurrent, Prefix, Lengths
    <3>3. CASE ~task.doc.held BY <3>1, <3>3, <1>1, <1>6 DEF Forward
    <3> QED BY <3>2, <3>3
  <2> QED BY <1>1, <1>2, <1>5, <1>6, <1>7, <2>1, <2>2 DEF Forward
<1> QED BY <1>13, <1>14, <1>15, <1>16, <1>17, <1>18, <1>19, <1>20, <1>21, <1>22, <1>23

-----------------------------------------------------------------------------
(* The session ends. *)

LEMMA AtFields ==
    ASSUME NEW ph \in Phases
    PROVE  /\ At(ph).phase = ph /\ At(ph).batch = <<>> /\ At(ph).doc = NoDoc /\ ~At(ph).doc.held
           /\ At(ph).era = 0 /\ At(ph).from = 0 /\ At(ph).to = 0
           /\ At(ph) \in [phase : Phases, batch : Seq(Documents), doc : Snapshots, era : Nat,
                          from : Nat, to : Nat]
BY DEF At, Task, NoDoc, Snapshots, Documents

\* Whatever was under way is dropped; what is held stays, and may be shown.
LEMMA ClosingKeeps ==
    ASSUME IInv, NEW ph \in Asleep,
           task.phase \in {"listening", "folding", "reading", "emitting"},
           ph # "stopped" => task.phase # "emitting",
           task' = At(ph), Left,
           held' = held \/ (~reducible /\ held' = [held EXCEPT !.mode = "records"]),
           \/ UNCHANGED state
           \/ /\ state' = [snapshot |-> held.store, version |-> held.cursor,
                           status |-> state'.status]
              /\ state'.status \in {"reconnecting", "ended", "failed"}
              /\ ph \in {"retrying", "stopping"},
           UNCHANGED <<reducible, log, floor, cuts, versions, events, heard>>
    PROVE  IInv'
<1> USE DEF IInv
<1>1. sink' = <<>> /\ Len(sink') = 0 /\ stream' = NoStream /\ stream'.phase = "none"
      /\ stream'.cursor = 0
      /\ UNCHANGED <<reducible, log, floor, cuts, versions, events, heard>>
  BY DEF Left, NoStream, Stream
<1>2. /\ task'.phase = ph /\ task'.batch = <<>> /\ Len(task'.batch) = 0 /\ ~task'.doc.held
      /\ task'.era = 0 /\ task'.to = 0
      /\ task' \in [phase : Phases, batch : Seq(Documents), doc : Snapshots, era : Nat,
                    from : Nat, to : Nat]
  <2>1. ph \in Phases BY DEF Asleep, Phases
  <2>2. /\ At(ph).phase = ph /\ At(ph).batch = <<>> /\ ~At(ph).doc.held
        /\ At(ph).era = 0 /\ At(ph).to = 0
        /\ At(ph) \in [phase : Phases, batch : Seq(Documents), doc : Snapshots, era : Nat,
                       from : Nat, to : Nat]
    BY <2>1, AtFields
  <2>3. Len(<<>>) = 0 OBVIOUS
  <2> QED BY <2>2, <2>3
<1>3. /\ held'.cursor = held.cursor /\ held'.store = held.store /\ held'.dropped = held.dropped
      /\ held'.era = held.era /\ (held'.mode = "records" => ~reducible)
      /\ held' \in [cursor : Nat, store : Snapshots, mode : {"reducible", "records"},
                    dropped : Ranges, era : Nat]
  BY DEF Typed, Suiting
<1>4. held.cursor \in Nat /\ state.version \in Nat /\ held.store \in Snapshots /\ cuts \in Nat
      /\ held.era \in Nat /\ versions \in Nat
  BY Fields
<1>5. \/ UNCHANGED state
      \/ /\ state'.snapshot = held.store /\ state'.version = held.cursor
         /\ ph \in {"retrying", "stopping"}
         /\ state' \in [snapshot : Snapshots, version : Nat,
                        status : {"reconnecting", "live", "ended", "failed"}]
  BY <1>4
<1>6. versions = state.version BY DEF Forward
<1>7. ph \in Asleep /\ ph \notin {"folding", "reading", "emitting", "listening"} BY DEF Asleep
<1>8. Typed' BY <1>1, <1>2, <1>3, <1>5 DEF Typed, NoStream, Stream
<1>9. Bounded' BY <1>1, <1>2, <1>3, <1>5, FollowerAssumption DEF Bounded
<1>10. Sessions' BY <1>1, <1>2 DEF Sessions
<1>11. Suiting' BY <1>1, <1>2, <1>3, <1>7 DEF Suiting, Moving
<1>12. Eras'
  <2>1. HeldCurrent'
    <3>1. CASE UNCHANGED state
      BY <3>1, <1>1, <1>2, <1>3, <1>7 DEF Eras, HeldCurrent, Prefix
    <3>2. CASE state'.snapshot = held.store
      BY <3>2, <1>1, <1>2, <1>3, <1>7 DEF Eras, HeldCurrent, Prefix
    <3> QED BY <3>1, <3>2, <1>5
  <2>2. AllCurrent' BY <1>1 DEF AllCurrent
  <2> QED BY <1>1, <1>2, <1>3, <1>4, <2>1, <2>2 DEF Eras
<1>13. Lengths' BY <1>1, <1>2, <1>3, <1>5, <1>7 DEF Lengths
<1>14. Linked' BY <1>1, <1>2 DEF Linked
<1>15. Caught' BY <1>1 DEF Caught
<1>16. Exact' BY <1>1, <1>2, <1>3 DEF Exact, Follows
<1>17. Covered'
  <2>1. ph # "stopped" => held.cursor <= Reach BY <1>2 DEF Covered
  <2>2. NotBelow(held.cursor)' BY <1>1, <1>2 DEF NotBelow
  <2> QED BY <1>1, <1>2, <1>3, <1>7, <2>1, <2>2
          DEF Covered, NoSilentJump, EndBefore, End, Reach, Reaching, NotBelow
<1>18. Forward'
  <2>1. state'.version <= held'.cursor /\ versions' <= state'.version
        /\ (versions' # state'.version => ph \in {"retrying", "stopping"})
    <3>1. state.version <= held.cursor BY DEF Forward
    <3> QED BY <3>1, <1>1, <1>3, <1>4, <1>5, <1>6
  <2> QED BY <1>1, <1>2, <1>3, <1>7, <2>1 DEF Forward
<1> QED BY <1>8, <1>9, <1>10, <1>11, <1>12, <1>13, <1>14, <1>15, <1>16, <1>17, <1>18

LEMMA FailsKeeps ==
    ASSUME IInv, NEW status \in {"reconnecting", "ended", "failed"},
           NEW ph \in {"retrying", "stopping"},
           task.phase \in {"listening", "folding", "reading"}, Fails(status, ph),
           UNCHANGED <<serverVars, cached>>
    PROVE  IInv'
<1>1. /\ task' = At(ph) /\ Left /\ held' = held
      /\ state' = [snapshot |-> held.store, version |-> held.cursor, status |-> status]
      /\ UNCHANGED <<reducible, log, floor, cuts, versions, events, heard>>
  BY DEF Fails, Publish, serverVars
<1>2. state'.status = status BY <1>1
<1>3. ph \in Asleep /\ ph # "stopped" BY DEF Asleep
<1> QED BY <1>1, <1>2, <1>3, ClosingKeeps

LEMMA TakeEndingKeeps ==
    ASSUME IInv, TakeEnding PROVE IInv'
<1>1. CASE Taking("Lost") /\ Fails("reconnecting", "retrying")
  BY <1>1, FailsKeeps DEF Taking
<1>2. CASE Taking("End") /\ Fails("ended", "stopping")
  BY <1>2, FailsKeeps DEF Taking
<1>3. CASE Taking("Fatal") /\ Fails("failed", "stopping")
  BY <1>3, FailsKeeps DEF Taking
<1> QED BY <1>1, <1>2, <1>3 DEF TakeEnding

LEMMA FoldMisfitKeeps ==
    ASSUME IInv, FoldMisfit PROVE IInv'
<1>1. CASE Fails("failed", "stopping")
  BY <1>1, FailsKeeps DEF FoldMisfit, Folding
<1>2. CASE Fails("reconnecting", "retrying")
  BY <1>2, FailsKeeps DEF FoldMisfit, Folding
<1> QED BY <1>1, <1>2 DEF FoldMisfit

LEMMA TakeNotReducibleKeeps ==
    ASSUME IInv, TakeNotReducible PROVE IInv'
<1>1. /\ task.phase = "listening" /\ sink # <<>> /\ Head(sink).kind = "NotReducible"
      /\ held' = [held EXCEPT !.mode = "records"] /\ task' = At("opening") /\ Left
      /\ UNCHANGED <<reducible, log, floor, cuts, state, versions, events, heard>>
  BY DEF TakeNotReducible, Taking, serverVars
<1>2. ~reducible
  <2>1. sink \in Seq(Frames) BY Fields DEF IInv
  <2>2. 1 \in 1 .. Len(sink) /\ Head(sink) = sink[1] BY <2>1, <1>1
  <2> QED BY <2>2, <1>1 DEF IInv, Suiting
<1>3. "opening" \in Asleep BY DEF Asleep
<1> QED BY <1>1, <1>2, <1>3, ClosingKeeps

LEMMA ReadFailsKeeps ==
    ASSUME IInv, ReadFails PROVE IInv'
<1>1. CASE /\ task' = At("opening") /\ Left
           /\ UNCHANGED <<held, state, versions, events, heard>>
  <2>1. /\ task.phase = "reading" /\ task' = At("opening") /\ Left
        /\ UNCHANGED <<reducible, log, floor, cuts, held, state, versions, events, heard>>
    BY <1>1 DEF ReadFails, serverVars
  <2>2. "opening" \in Asleep BY DEF Asleep
  <2> QED BY <2>1, <2>2, ClosingKeeps
<1>2. CASE Fails("failed", "stopping")
  BY <1>2, FailsKeeps DEF ReadFails
<1>3. CASE Fails("reconnecting", "retrying")
  BY <1>3, FailsKeeps DEF ReadFails
<1> QED BY <1>1, <1>2, <1>3 DEF ReadFails

LEMMA DropFollowerKeeps ==
    ASSUME IInv, DropFollower PROVE IInv'
<1>1. /\ task.phase \in {"listening", "emitting"} /\ task' = At("stopped") /\ Left
      /\ UNCHANGED <<reducible, log, floor, cuts, held, state, versions, events, heard>>
  BY DEF DropFollower, serverVars
<1>2. "stopped" \in Asleep BY DEF Asleep
<1> QED BY <1>1, <1>2, ClosingKeeps

-----------------------------------------------------------------------------
(* A session is opened. *)

\* A session that ends before it begins.
LEMMA NoticeKeeps ==
    ASSUME IInv, task.phase = "opening", NEW kind \in {"NotReducible", "Fatal"},
           kind = "NotReducible" => ~reducible,
           task' = At("listening"), sink' = <<Notice(kind)>>, stream' = NoStream,
           UNCHANGED <<reducible, log, floor, cuts, held, state, versions, events, heard>>
    PROVE  IInv'
<1> USE DEF IInv
<1> DEFINE f == Notice(kind)
<1>1. f \in Frames /\ f.kind = kind /\ f.docs = <<>> /\ Len(f.docs) = 0
  BY DEF Notice, Frame, Frames, FrameKinds
<1> HIDE DEF f
<1>2. /\ sink' \in Seq(Frames) /\ Len(sink') = 1 /\ sink'[1] = f /\ sink' # <<>>
      /\ \A i \in 1 .. Len(sink') : i = 1 /\ sink'[i] = f
  <2>1. sink' = <<f>> BY DEF f
  <2> QED BY <2>1, <1>1
<1>3. stream'.phase = "none" /\ stream'.cursor = 0 BY DEF NoStream, Stream
<1>4. /\ task'.phase = "listening" /\ task'.batch = <<>> /\ Len(task'.batch) = 0
      /\ ~task'.doc.held /\ task'.era = 0 /\ task'.to = 0
      /\ task' \in [phase : Phases, batch : Seq(Documents), doc : Snapshots, era : Nat,
                    from : Nat, to : Nat]
  <2>1. "listening" \in Phases BY DEF Phases
  <2>2. Len(<<>>) = 0 OBVIOUS
  <2> QED BY <2>1, <2>2, AtFields
<1>5. f.kind \in {"NotReducible", "Fatal"} /\ cuts \in Nat BY <1>1, Fields
<1>6. Typed' BY <1>2, <1>4 DEF Typed, NoStream, Stream
<1>7. Bounded' BY <1>2, <1>3, <1>4, FollowerAssumption DEF Bounded
<1>8. Sessions' BY <1>2, <1>3, <1>4, <1>5 DEF Sessions, Asleep
<1>9. Suiting' BY <1>1, <1>2, <1>3, <1>4, <1>5 DEF Suiting, Moving, Moves
<1>10. AllCurrent' BY <1>1, <1>2 DEF AllCurrent, Current
<1>11. Eras'
  <2>1. HeldCurrent' BY <1>4 DEF Eras, HeldCurrent, Prefix
  <2> QED BY <1>2, <1>3, <1>4, <1>5, <1>10, <2>1 DEF Eras
<1>12. Lengths' BY <1>1, <1>2, <1>4 DEF Lengths
<1>13. Linked' BY <1>1, <1>2, <1>4 DEF Linked
<1>14. Caught' BY <1>3 DEF Caught
<1>15. Exact' BY <1>2, <1>3, <1>4, <1>5 DEF Exact, Follows
<1>16. Covered'
  BY <1>2, <1>3, <1>4, <1>5
  DEF Covered, NoSilentJump, EndBefore, End, Reach, Reaching, NotBelow
<1>17. Forward' BY <1>2, <1>4, <1>5 DEF Forward
<1> QED BY <1>6, <1>7, <1>8, <1>9, <1>11, <1>12, <1>13, <1>14, <1>15, <1>16, <1>17

\* A stream that has sent nothing yet.
LEMMA SubscribedKeeps ==
    ASSUME IInv, task.phase = "opening", NEW ph \in {"viewing", "live"}, NEW k \in Nat,
           Suited, ph = "viewing" <=> reducible,
           task' = At("listening"), sink' = <<>>, stream' = Stream(ph, held.cursor, k),
           UNCHANGED <<reducible, log, floor, cuts, held, state, versions, events, heard>>
    PROVE  IInv'
<1> USE DEF IInv
<1>1. stream'.phase = ph /\ stream'.cursor = held.cursor /\ sink' = <<>> /\ Len(sink') = 0
      /\ UNCHANGED <<reducible, log, floor, cuts, held, state, versions, events, heard>>
  BY DEF Stream
<1>2. held.cursor \in Nat /\ cuts \in Nat /\ Len(log) \in Nat /\ held.store.held \in BOOLEAN
  BY Fields DEF Snapshots
<1>3. /\ task'.phase = "listening" /\ task'.batch = <<>> /\ Len(task'.batch) = 0
      /\ ~task'.doc.held /\ task'.era = 0 /\ task'.to = 0
      /\ task' \in [phase : Phases, batch : Seq(Documents), doc : Snapshots, era : Nat,
                    from : Nat, to : Nat]
  <2>1. "listening" \in Phases BY DEF Phases
  <2>2. Len(<<>>) = 0 OBVIOUS
  <2> QED BY <2>1, <2>2, AtFields
<1>4. Typed' BY <1>1, <1>2, <1>3 DEF Typed, Stream
<1>5. Bounded' BY <1>1, <1>3, FollowerAssumption DEF Bounded
<1>6. Sessions' BY <1>1, <1>3 DEF Sessions, Asleep
<1>7. Suiting' BY <1>1, <1>3 DEF Suiting, Suited, Moving
<1>8. Eras'
  <2>1. HeldCurrent' BY <1>1, <1>3 DEF Eras, HeldCurrent, Prefix
  <2>2. AllCurrent' BY <1>1 DEF AllCurrent
  <2> QED BY <1>1, <1>2, <1>3, <2>1, <2>2 DEF Eras
<1>9. Lengths' BY <1>1, <1>3 DEF Lengths
<1>10. Linked' BY <1>1, <1>3 DEF Linked
<1>11. Caught' BY <1>1, <1>3 DEF Caught
<1>12. Exact' BY <1>1, <1>3 DEF Exact, Follows
<1>13. Covered'
  <2>1. held.cursor <= Reach BY DEF Covered
  <2>2. NotBelow(held.cursor)' BY <1>1, <1>2, <1>3 DEF NotBelow
  <2> QED BY <1>1, <1>3, <2>1, <2>2
          DEF Covered, NoSilentJump, EndBefore, End, Reach, Reaching
<1>14. Forward' BY <1>1, <1>3 DEF Forward
<1> QED BY <1>4, <1>5, <1>6, <1>7, <1>8, <1>9, <1>10, <1>11, <1>12, <1>13, <1>14

LEMMA OpenKeeps ==
    ASSUME IInv, Open PROVE IInv'
<1>1. /\ task.phase = "opening" /\ task' = At("listening")
      /\ UNCHANGED <<reducible, log, floor, cuts, held, state, versions, events, heard>>
  BY DEF Open, serverVars
<1>2. /\ held.mode \in {"reducible", "records"} /\ reducible \in BOOLEAN /\ held.cursor \in Nat
      /\ Len(log) \in Nat /\ (held.mode = "records" => ~reducible)
  BY Fields DEF IInv, Suiting
<1>3. CASE held.mode = "reducible" /\ ~reducible
  BY <1>1, <1>3, NoticeKeeps DEF Open
<1>4. CASE held.mode = "reducible" /\ reducible
  <2>1. sink' = <<>> /\ stream' = Stream("viewing", held.cursor, 0) BY <1>4 DEF Open
  <2>2. Suited BY <1>4 DEF Suited
  <2> QED BY <1>1, <1>4, <2>1, <2>2, SubscribedKeeps
<1>5. CASE held.mode = "records"
  <2>1. sink' = <<>> /\ stream' = Stream("live", held.cursor, Beyond(held.cursor))
    BY <1>5 DEF Open
  <2>2. Suited /\ ~reducible /\ Beyond(held.cursor) \in Nat
    BY <1>2, <1>5 DEF Suited, Beyond
  <2> QED BY <1>1, <2>1, <2>2, SubscribedKeeps
<1> QED BY <1>2, <1>3, <1>4, <1>5

LEMMA RefuseKeeps ==
    ASSUME IInv, Refuse PROVE IInv'
BY NoticeKeeps DEF Refuse, serverVars

-----------------------------------------------------------------------------
(* A frame is taken. *)

LEMMA TakenShape ==
    ASSUME Typed, sink # <<>>, sink' = Tail(sink)
    PROVE  /\ sink' \in Seq(Frames) /\ Len(sink) \in Nat \ {0} /\ Len(sink') = Len(sink) - 1
           /\ \A i \in 1 .. Len(sink') : sink'[i] = sink[i + 1] /\ i + 1 \in 1 .. Len(sink)
           /\ Head(sink) = sink[1] /\ 1 \in 1 .. Len(sink)
<1>1. sink \in Seq(Frames) BY Fields
<1> QED BY <1>1, TailShape

\* What follows a frame follows what it becomes once taken.
LEMMA FollowsOn ==
    ASSUME Typed, sink # <<>>, sink' = Tail(sink), UNCHANGED stream,
           NEW i \in 0 .. Len(sink) - 1, NEW e, Follows(i + 1, e)
    PROVE  Follows(i, e)'
<1>1. /\ Len(sink) \in Nat \ {0} /\ Len(sink') = Len(sink) - 1
      /\ \A k \in 1 .. Len(sink') : sink'[k] = sink[k + 1]
  BY TakenShape
<1>2. i < Len(sink') => i + 1 < Len(sink) /\ sink'[i + 1] = sink[(i + 1) + 1]
  <2> SUFFICES ASSUME i < Len(sink') PROVE i + 1 < Len(sink) /\ sink'[i + 1] = sink[(i + 1) + 1]
    OBVIOUS
  <2>1. i + 1 \in 1 .. Len(sink') /\ i + 1 < Len(sink) BY <1>1
  <2> QED BY <2>1, <1>1
<1>3. i = Len(sink') => i + 1 = Len(sink) BY <1>1
<1> QED BY <1>2, <1>3 DEF Follows

\* What remains of a session behind its first frame.
Remains ==
    /\ sink' \in Seq(Frames) /\ Len(sink') <= SinkCap + 1
    /\ stream' = stream /\ stream.phase \in {"none", "live"} /\ task.batch = <<>>
    /\ stream.phase # "none" => Len(sink') <= SinkCap
    /\ Suited
    /\ \A i \in 1 .. Len(sink') :
          /\ sink'[i].kind # "View"
          /\ ~Moves(sink'[i]) => i = Len(sink') /\ stream.phase = "none"
          /\ sink'[i].kind = "NotReducible" => ~reducible
          /\ \A j \in 1 .. Len(sink'[i].docs) : Len(sink'[i].docs[j]) <= MaxLog
          /\ sink'[i].kind = "Records" =>
                /\ sink'[i].docs # <<>> /\ Consecutive(sink'[i].docs)
                /\ Follows(i, EndOf(sink[i].docs))'
          /\ sink'[i].kind = "Gap" =>
                /\ sink'[i].from < sink'[i].to /\ sink'[i].to <= floor
                /\ Follows(i, sink[i].to)'
    /\ AllCurrent => AllCurrent' /\ Current(sink[1])
    /\ stream.phase # "none" => AllCurrent
    /\ held.era = cuts => AllCurrent

LEMMA TookKeeps ==
    ASSUME IInv, task.phase = "listening", sink # <<>>, Took,
           Moves(sink[1]) \/ sink[1].kind = "View",
           UNCHANGED <<reducible, log, floor, cuts>>
    PROVE  Remains
<1> USE DEF IInv
<1>1. sink' = Tail(sink) /\ stream' = stream BY DEF Took
<1>2. /\ sink' \in Seq(Frames) /\ Len(sink) \in Nat \ {0} /\ Len(sink') = Len(sink) - 1
      /\ \A i \in 1 .. Len(sink') : sink'[i] = sink[i + 1] /\ i + 1 \in 1 .. Len(sink)
      /\ 1 \in 1 .. Len(sink)
  BY <1>1, TakenShape
<1>3. task.batch = <<>> /\ stream.phase \in {"none", "live"}
  <2>1. stream.phase # "viewing" BY DEF Sessions
  <2> QED BY <2>1, Fields DEF Sessions
<1>4. Len(sink') <= SinkCap + 1 /\ (stream.phase # "none" => Len(sink') <= SinkCap)
  <2>1. SinkCap \in Nat /\ Len(sink) <= SinkCap + 1
        /\ (stream.phase # "none" => Len(sink) <= SinkCap)
    BY FollowerAssumption DEF Bounded
  <2> QED BY <2>1, <1>2
<1>5. Suited BY <1>2 DEF Suiting
<1>6. AllCurrent => AllCurrent' /\ Current(sink[1])
  <2> SUFFICES ASSUME AllCurrent PROVE AllCurrent' /\ Current(sink[1]) OBVIOUS
  <2>1. Current(sink[1]) BY <1>2 DEF AllCurrent
  <2>2. ASSUME NEW i \in 1 .. Len(sink'), NEW j \in 1 .. Len(sink'[i].docs)
        PROVE  Prefix(sink'[i].docs[j])
    <3>1. sink'[i] = sink[i + 1] /\ i + 1 \in 1 .. Len(sink) BY <1>2
    <3> QED BY <3>1, <2>2 DEF AllCurrent, Current
  <2> QED BY <2>1, <2>2 DEF AllCurrent, Current, Prefix
<1>7. ASSUME NEW i \in 1 .. Len(sink')
      PROVE  /\ sink'[i].kind # "View"
             /\ ~Moves(sink'[i]) => i = Len(sink') /\ stream.phase = "none"
             /\ sink'[i].kind = "NotReducible" => ~reducible
             /\ \A j \in 1 .. Len(sink'[i].docs) : Len(sink'[i].docs[j]) <= MaxLog
             /\ sink'[i].kind = "Records" =>
                   /\ sink'[i].docs # <<>> /\ Consecutive(sink'[i].docs)
                   /\ Follows(i, EndOf(sink[i].docs))'
             /\ sink'[i].kind = "Gap" =>
                   /\ sink'[i].from < sink'[i].to /\ sink'[i].to <= floor
                   /\ Follows(i, sink[i].to)'
  <2> DEFINE k == i + 1
  <2>1. sink'[i] = sink[k] /\ k \in 1 .. Len(sink) /\ k # 1 BY <1>2
  <2>2. i \in 0 .. Len(sink) - 1 BY <1>2
  <2>3. sink[k].kind # "View" BY <2>1 DEF Sessions
  <2>4. ~Moves(sink[k]) => i = Len(sink') /\ stream.phase = "none"
    <3>1. ~Moves(sink[k]) => k = Len(sink) /\ stream.phase = "none"
      BY <2>1, <2>3 DEF Sessions
    <3> QED BY <3>1, <1>2
  <2>5. sink[k].kind = "NotReducible" => ~reducible BY <2>1 DEF Suiting
  <2>6. \A j \in 1 .. Len(sink[k].docs) : Len(sink[k].docs[j]) <= MaxLog
    BY <2>1 DEF Lengths
  <2>7. ASSUME sink[k].kind = "Records"
        PROVE  /\ sink[k].docs # <<>> /\ Consecutive(sink[k].docs)
               /\ Follows(i, EndOf(sink[i].docs))'
    <3>1. PICK e : e = EndOf(sink[k].docs) /\ Follows(k, e) BY <2>1, <2>7 DEF Linked
    <3>2. Follows(i, e)' BY <3>1, <2>2, <1>1, FollowsOn
    <3>3. sink[k].docs # <<>> /\ Consecutive(sink[k].docs) BY <2>1, <2>7 DEF Linked
    <3> QED BY <3>1, <3>2, <3>3, <2>1 DEF EndOf, Follows
  <2>8. ASSUME sink[k].kind = "Gap"
        PROVE  sink[k].from < sink[k].to /\ sink[k].to <= floor /\ Follows(i, sink[i].to)'
    <3>1. PICK e : e = sink[k].to /\ Follows(k, e) BY <2>1, <2>8 DEF Linked
    <3>2. Follows(i, e)' BY <3>1, <2>2, <1>1, FollowsOn
    <3>3. sink[k].from < sink[k].to /\ sink[k].to <= floor BY <2>1, <2>8 DEF Linked
    <3> QED BY <3>1, <3>2, <3>3, <2>1 DEF Follows
  <2> HIDE DEF k
  <2> QED BY <2>1, <2>3, <2>4, <2>5, <2>6, <2>7, <2>8 DEF Moves
<1>8. (stream.phase # "none" => AllCurrent) /\ (held.era = cuts => AllCurrent) BY DEF Eras
<1> QED BY <1>1, <1>2, <1>3, <1>4, <1>5, <1>6, <1>7, <1>8 DEF Remains

LEMMA TakeRecordsKeeps ==
    ASSUME IInv, TakeRecords PROVE IInv'
<1> USE DEF IInv
<1>1. /\ task.phase = "listening" /\ sink # <<>> /\ sink[1].kind = "Records" /\ Took
      /\ sink' = Tail(sink) /\ stream' = stream /\ 1 \in 1 .. Len(sink) /\ Moves(sink[1])
      /\ task' = Task("folding", sink[1].docs, NoDoc, 0, 0, 0)
      /\ UNCHANGED <<reducible, log, floor, cuts, held, state, versions, events, heard>>
  BY TakenShape DEF TakeRecords, Taking, Took, serverVars, Moves
<1>2. PICK ds \in Seq(Documents) : ds = sink[1].docs BY <1>1, FrameFields
<1>3. /\ ds # <<>> /\ Consecutive(ds) /\ Len(ds) \in Nat
      /\ \A j \in 1 .. Len(ds) : Len(ds[j]) <= MaxLog
      /\ AllCurrent => \A j \in 1 .. Len(ds) : Prefix(ds[j])
  BY <1>1, <1>2, FrameFields DEF Linked, Lengths, AllCurrent, Current
<1>4. /\ task'.phase = "folding" /\ task'.batch = ds /\ ~task'.doc.held /\ task'.era = 0
      /\ task'.to = 0
      /\ task' \in [phase : Phases, batch : Seq(Documents), doc : Snapshots, era : Nat,
                    from : Nat, to : Nat]
  BY <1>1, <1>2 DEF Task, NoDoc, Phases, Snapshots, Documents
<1>5. Follows(0, EndOf(task.batch))'
  <2>1. PICK e : e = EndOf(ds) /\ Follows(1, e) BY <1>1, <1>2 DEF Linked
  <2>2. 0 \in 0 .. Len(sink) - 1 /\ Follows(0 + 1, e) BY <2>1, <1>1
  <2>3. Follows(0, e)' BY <2>2, <1>1, FollowsOn
  <2>4. EndOf(task'.batch) = e BY <2>1, <1>4
  <2> QED BY <2>3, <2>4 DEF Follows, EndOf
<1>6. Remains BY <1>1, TookKeeps
<1> USE DEF Remains
<1>7. cuts \in Nat /\ Suited' BY <1>1, <1>6, Fields DEF Suited
<1>8. Typed' BY <1>1, <1>4, <1>6 DEF Typed
<1>9. Bounded' BY <1>1, <1>4, <1>6, FollowerAssumption DEF Bounded
<1>10. Sessions' BY <1>1, <1>4, <1>6 DEF Sessions, Moves, Asleep
<1>11. Suiting'
  <2>1. Moving BY <1>1 DEF Moving
  <2> QED BY <2>1, <1>1, <1>4, <1>6, <1>7 DEF Suiting, Moves
<1>12. Eras'
  <2>1. HeldCurrent' BY <1>1, <1>3, <1>4, <1>6 DEF Eras, HeldCurrent, Prefix
  <2> QED BY <1>1, <1>4, <1>6, <1>7, <2>1 DEF Eras
<1>13. Lengths' BY <1>1, <1>3, <1>4, <1>6 DEF Lengths
<1>14. Linked' BY <1>1, <1>3, <1>4, <1>5, <1>6 DEF Linked, Consecutive, EndOf
<1>15. Caught' BY <1>1 DEF Caught
<1>16. Exact'
  <2>1. held.mode = "records" => Len(ds[1]) = held.cursor + 1
    BY <1>1, <1>2, <1>6 DEF Exact, Follows
  <2> QED BY <2>1, <1>1, <1>3, <1>4 DEF Exact
<1>17. Covered'
  <2>1. held.dropped # None => NotBelow(held.cursor)'
    BY <1>1, <1>2, <1>3, <1>4, <1>6 DEF Covered, NotBelow
  <2> QED BY <1>1, <1>3, <1>4, <2>1
          DEF Covered, NoSilentJump, EndBefore, End, Reach, Reaching
<1>18. Forward' BY <1>1, <1>4, <1>6 DEF Forward
<1> QED BY <1>8, <1>9, <1>10, <1>11, <1>12, <1>13, <1>14, <1>15, <1>16, <1>17, <1>18

\* A plain log skips the gap; of a view the versions after it are read.
LEMMA TakeGapKeeps ==
    ASSUME IInv, TakeGap PROVE IInv'
<1> USE DEF IInv
<1>1. /\ task.phase = "listening" /\ sink # <<>> /\ sink[1].kind = "Gap" /\ Took
      /\ sink' = Tail(sink) /\ stream' = stream /\ 1 \in 1 .. Len(sink) /\ Moves(sink[1])
      /\ Recovering(sink[1].from, sink[1].to)
      /\ UNCHANGED <<reducible, log, floor, cuts, state, versions, events, heard>>
  BY TakenShape DEF TakeGap, Taking, Took, serverVars, Moves
<1>2. PICK from \in Nat, to \in Nat : from = sink[1].from /\ to = sink[1].to
  BY <1>1, FrameFields
<1>3. from < to /\ to <= floor /\ floor <= Len(log) /\ Len(log) <= MaxLog
  BY <1>1, <1>2 DEF Linked, Bounded
<1>4. /\ floor \in Nat /\ Len(log) \in Nat /\ held.cursor \in Nat /\ state.version \in Nat
      /\ held.dropped \in Ranges /\ held.era \in Nat /\ cuts \in Nat /\ MaxLog \in Nat
      /\ versions \in Nat /\ held.mode \in {"reducible", "records"} /\ reducible \in BOOLEAN
      /\ stream.cursor \in Nat
  BY Fields, FollowerAssumption
<1>5. to <= MaxLog /\ to <= Len(log) BY <1>3, <1>4
<1>6. Remains BY <1>1, TookKeeps
<1>7. Follows(0, to)'
  <2>1. Follows(1, to) BY <1>1, <1>2 DEF Linked
  <2>2. 0 \in 0 .. Len(sink) - 1 /\ Follows(0 + 1, to) BY <2>1, <1>1
  <2> QED BY <2>2, <1>1, FollowsOn
<1>8. stream.phase = "live" => stream.cursor <= Len(log) BY <1>1 DEF Caught
<1>9. state.version <= held.cursor /\ versions = state.version BY <1>1 DEF Forward
<1>10. held.cursor <= Reach /\ End \in Nat /\ Reach \in Nat BY <1>1, EndIsNat DEF Covered
<1> USE DEF Remains
<1>11. CASE held.mode = "records"
  <2>1. ~reducible /\ ~held.store.held BY <1>11, <1>6 DEF Suited, Suiting
  <2>2. from = held.cursor
    <3>1. task.batch = <<>> /\ Follows(0, held.cursor) BY <1>6, <1>11 DEF Exact
    <3> QED BY <3>1, <1>1, <1>2 DEF Follows
  <2>3. /\ held'.cursor = to /\ held'.dropped = None /\ held'.store = held.store
        /\ held'.mode = held.mode /\ held'.era = held.era
        /\ held' \in [cursor : Nat, store : Snapshots, mode : {"reducible", "records"},
                      dropped : Ranges, era : Nat]
    <3>1. held' = [held EXCEPT !.cursor = to, !.dropped = None]
      BY <1>1, <1>2, <1>11 DEF Recovering
    <3>2. None \in Ranges BY DEF None, Ranges
    <3> HIDE DEF None
    <3> QED BY <3>1, <3>2 DEF Typed
  <2>4. Widened(from) \in Nat /\ Widened(from) <= End
    <3>1. CASE held.dropped = None BY <3>1, <2>2, <1>4, <1>10 DEF Widened, Reach
    <3>2. CASE held.dropped # None
      <4>1. held.dropped.from \in Nat /\ held.dropped.from <= End
        BY <3>2, <1>4 DEF Covered, Ranges
      <4> QED BY <4>1, <3>2, <1>2, <1>10 DEF Widened, Lower
    <3> QED BY <3>1, <3>2
  <2>5. /\ task'.phase = "emitting" /\ task'.batch = <<>> /\ ~task'.doc.held
        /\ task'.era = held.era /\ task'.from = Widened(from) /\ task'.to = to
        /\ task' \in [phase : Phases, batch : Seq(Documents), doc : Snapshots, era : Nat,
                      from : Nat, to : Nat]
    <3>1. task' = Task("emitting", <<>>, NoDoc, held.era, Widened(from), to)
      BY <1>1, <1>2, <1>11 DEF Recovering, Emitting
    <3> QED BY <3>1, <2>4, <1>4 DEF Task, NoDoc, Phases, Snapshots, Documents
  <2>6. Typed' BY <1>1, <1>6, <2>3, <2>5 DEF Typed
  <2>7. Bounded'
    <3>1. None.to <= MaxLog BY <1>4 DEF None
    <3> QED BY <3>1, <1>1, <1>5, <1>6, <2>3, <2>5 DEF Bounded
  <2>8. Sessions' BY <1>1, <1>6, <2>5 DEF Sessions, Moves, Asleep
  <2>9. Suiting' BY <1>1, <1>6, <2>1, <2>3, <2>5 DEF Suiting, Suited, Moves
  <2>10. Eras'
    <3>1. HeldCurrent' BY <1>1, <2>1, <2>3, <2>5 DEF Eras, HeldCurrent, Prefix
    <3> QED BY <1>1, <1>6, <2>3, <2>5, <3>1 DEF Eras
  <2>11. Lengths' BY <1>1, <1>6, <2>1, <2>3, <2>5 DEF Lengths
  <2>12. Linked' BY <1>1, <1>6, <2>5 DEF Linked, Consecutive, EndOf
  <2>13. Caught' BY <1>1, <1>8, <1>6 DEF Caught
  <2>14. Exact' BY <1>7, <2>3, <2>5 DEF Exact, Follows
  <2>15. Covered'
    <3>1. state.version <= to BY <1>2, <1>3, <1>4, <1>9, <2>2
    <3>2. /\ sink' # <<>> /\ sink'[1].kind = "Gap" => sink'[1].from <= to
          /\ sink' = <<>> /\ stream'.phase = "live" => stream'.cursor <= to
      <4>1. sink' # <<>> => 0 < Len(sink') BY <1>6, EmptyShape
      <4>2. sink' = <<>> => Len(sink') = 0 OBVIOUS
      <4> QED BY <4>1, <4>2, <1>7 DEF Follows
    <3> QED BY <1>1, <2>3, <2>4, <2>5, <3>1, <3>2
            DEF Covered, NoSilentJump, EndBefore, End, Reach, Reaching
  <2>16. Forward'
    <3>1. state.version <= to /\ to >= to BY <1>2, <1>3, <1>4, <1>9, <2>2
    <3>2. versions <= state.version BY <1>4, <1>9
    <3> QED BY <1>1, <1>5, <1>6, <1>9, <2>3, <2>5, <3>1, <3>2 DEF Forward
  <2> QED BY <2>6, <2>7, <2>8, <2>9, <2>10, <2>11, <2>12, <2>13, <2>14, <2>15, <2>16
<1>12. CASE held.mode # "records"
  <2>1. reducible /\ held.store.held BY <1>1, <1>4, <1>6, <1>12 DEF Suited, Suiting, Moving
  <2>2. held' = held BY <1>1, <1>12 DEF Recovering
  <2>3. /\ task'.phase = "reading" /\ task'.batch = <<>> /\ ~task'.doc.held /\ task'.era = 0
        /\ task'.from = from /\ task'.to = to
        /\ task' \in [phase : Phases, batch : Seq(Documents), doc : Snapshots, era : Nat,
                      from : Nat, to : Nat]
    <3>1. task' = Task("reading", <<>>, NoDoc, 0, from, to)
      BY <1>1, <1>2, <1>12 DEF Recovering
    <3> QED BY <3>1 DEF Task, NoDoc, Phases, Snapshots, Documents
  <2>4. Typed' BY <1>1, <1>6, <2>2, <2>3 DEF Typed
  <2>5. Bounded' BY <1>1, <1>5, <1>6, <2>2, <2>3 DEF Bounded
  <2>6. Sessions' BY <1>1, <1>6, <2>3 DEF Sessions, Moves, Asleep
  <2>7. Suiting' BY <1>1, <1>6, <2>1, <2>2, <2>3 DEF Suiting, Suited, Moves
  <2>8. Eras'
    <3>1. HeldCurrent' BY <1>1, <2>2, <2>3 DEF Eras, HeldCurrent, Prefix
    <3> QED BY <1>1, <1>4, <1>6, <2>2, <2>3, <3>1 DEF Eras
  <2>9. Lengths' BY <1>1, <1>6, <2>2, <2>3 DEF Lengths
  <2>10. Linked' BY <1>1, <1>6, <2>3 DEF Linked, Consecutive, EndOf
  <2>11. Caught' BY <1>1, <1>8, <1>6 DEF Caught
  <2>12. Exact' BY <1>12, <2>2 DEF Exact
  <2>13. Covered'
    <3>1. task.batch = <<>> BY <1>6
    <3>2. held.dropped = None => from <= End BY <1>1, <1>2, <3>1 DEF Covered, Reaching, Reach
    <3>3. held.dropped # None => from >= held.cursor
      BY <1>1, <1>2, <3>1 DEF Covered, NotBelow
    <3>4. state.version <= to \/ held.dropped = None BY <1>3, <1>4, <1>9, <3>3
    <3>5. ASSUME held.dropped # None PROVE NotBelow(held.cursor)'
      <4>1. held.cursor < to BY <1>3, <1>4, <3>3, <3>5
      <4>2. sink' # <<>> => 0 < Len(sink') BY <1>6, EmptyShape
      <4>3. sink' = <<>> => Len(sink') = 0 OBVIOUS
      <4>4. to + 1 > held.cursor /\ to >= held.cursor BY <4>1, <1>4
      <4> QED BY <4>2, <4>3, <4>4, <1>7, <2>2, <2>3 DEF NotBelow, Follows
    <3> QED BY <1>1, <1>10, <2>2, <2>3, <3>2, <3>4, <3>5
            DEF Covered, NoSilentJump, EndBefore, End, Reach, Reaching
  <2>14. Forward' BY <1>1, <1>6, <2>2, <2>3 DEF Forward
  <2> QED BY <2>4, <2>5, <2>6, <2>7, <2>8, <2>9, <2>10, <2>11, <2>12, <2>13, <2>14
<1> QED BY <1>11, <1>12

\* A view ahead of what is held waits until its gap is announced; another one is shown.
LEMMA TakeViewKeeps ==
    ASSUME IInv, TakeView PROVE IInv'
<1> USE DEF IInv
<1>1. /\ task.phase = "listening" /\ sink # <<>> /\ sink[1].kind = "View" /\ Took
      /\ sink' = Tail(sink) /\ stream' = stream /\ 1 \in 1 .. Len(sink) /\ ~Moves(sink[1])
      /\ UNCHANGED <<reducible, log, floor, cuts, versions, events>>
  <2>1. Taking("View") /\ Took /\ UNCHANGED <<versions, events>>
    BY DEF TakeView, Publish
  <2> QED BY <2>1, TakenShape DEF Taking, Took, serverVars, Moves
<1>2. PICK d \in Documents, e \in Nat : d = sink[1].docs[1] /\ e = sink[1].from
  <2>1. Len(sink[1].docs) = 1 BY <1>1 DEF Sessions
  <2> QED BY <2>1, <1>1, FrameFields
<1>3. /\ Len(d) \in Nat /\ Len(d) <= MaxLog /\ e <= cuts
      /\ (e = cuts => AllCurrent) /\ (AllCurrent => Prefix(d))
  <2>1. Len(sink[1].docs) = 1 BY <1>1 DEF Sessions
  <2>2. 1 \in 1 .. Len(sink[1].docs) BY <2>1
  <2>3. Len(d) \in Nat BY DEF Documents
  <2>4. Len(d) <= MaxLog BY <2>2, <1>1, <1>2 DEF Lengths
  <2>5. e <= cuts /\ (e = cuts => AllCurrent) BY <1>1, <1>2 DEF Eras
  <2>6. AllCurrent => Prefix(d) BY <2>2, <1>1, <1>2 DEF AllCurrent, Current
  <2> QED BY <2>3, <2>4, <2>5, <2>6
<1>4. /\ Len(log) \in Nat /\ held.cursor \in Nat /\ state.version \in Nat
      /\ held.dropped \in Ranges /\ held.era \in Nat /\ cuts \in Nat /\ MaxLog \in Nat
      /\ versions \in Nat /\ held.mode \in {"reducible", "records"} /\ reducible \in BOOLEAN
      /\ stream.cursor \in Nat /\ heard \in Nat /\ held.store.held \in BOOLEAN
      /\ floor \in Nat
  BY Fields, FollowerAssumption DEF Snapshots
<1>5. Remains BY <1>1, TookKeeps
<1>6. PICK c \in Nat : c = Higher(held.cursor, Len(d)) BY <1>3, <1>4 DEF Higher
<1>7. Follows(0, c)'
  <2>1. Follows(1, c) BY <1>1, <1>2, <1>6 DEF Linked
  <2>2. 0 \in 0 .. Len(sink) - 1 /\ Follows(0 + 1, c) BY <2>1, <1>1
  <2> QED BY <2>2, <1>1, FollowsOn
<1>8. /\ sink' # <<>> /\ sink'[1].kind = "Gap" => sink'[1].from = c
      /\ sink' # <<>> /\ sink'[1].kind = "Records" => Len(sink'[1].docs[1]) = c + 1
      /\ sink' = <<>> /\ stream'.phase # "none" => stream'.cursor = c
  <2>1. sink' # <<>> => 0 < Len(sink') BY <1>5, EmptyShape DEF Remains
  <2>2. sink' = <<>> => Len(sink') = 0 OBVIOUS
  <2> QED BY <2>1, <2>2, <1>7 DEF Follows
<1>9. state.version <= held.cursor /\ versions = state.version BY <1>1 DEF Forward
<1>10. held.cursor <= Reach /\ End \in Nat /\ Reach \in Nat BY <1>1, EndIsNat DEF Covered
<1> USE DEF Remains
<1>11. reducible /\ held.mode = "reducible" BY <1>1, <1>4, <1>5 DEF Suiting, Suited
<1>12. stream.phase = "live" =>
         stream.cursor <= Len(log) \/ \A i \in 1 .. Len(sink') : ~Moves(sink'[i])
  <2> SUFFICES ASSUME stream.phase = "live", ~(stream.cursor <= Len(log)),
                      NEW i \in 1 .. Len(sink')
               PROVE  ~Moves(sink'[i])
    OBVIOUS
  <2>1. sink'[i] = sink[i + 1] /\ i + 1 \in 1 .. Len(sink) BY <1>1, TakenShape
  <2>2. ~Moves(sink[i + 1]) BY <2>1 DEF Caught
  <2> QED BY <2>1, <2>2 DEF Moves
<1>13. CASE held.store.held /\ Len(d) > held.cursor
  <2>1. c = Len(d) BY <1>3, <1>4, <1>6, <1>13 DEF Higher
  <2>2. /\ held'.cursor = held.cursor /\ held'.dropped = None /\ held'.store = held.store
        /\ held'.mode = held.mode /\ held'.era = held.era
        /\ held' \in [cursor : Nat, store : Snapshots, mode : {"reducible", "records"},
                      dropped : Ranges, era : Nat]
        /\ state' = state /\ heard' = heard
    <3>1. held' = [held EXCEPT !.dropped = None] /\ state' = state /\ heard' = heard
      BY <1>1, <1>2, <1>13 DEF TakeView
    <3>2. None \in Ranges BY DEF None, Ranges
    <3> HIDE DEF None
    <3> QED BY <3>1, <3>2 DEF Typed
  <2>3. Widened(held.cursor) \in Nat /\ Widened(held.cursor) <= End
    <3>1. CASE held.dropped = None BY <3>1, <1>4, <1>10 DEF Widened, Reach
    <3>2. CASE held.dropped # None
      <4>1. held.dropped.from \in Nat /\ held.dropped.from <= End
        BY <3>2, <1>4 DEF Covered, Ranges
      <4> QED BY <4>1, <3>2, <1>4, <1>10 DEF Widened, Lower
    <3> QED BY <3>1, <3>2
  <2>4. /\ task'.phase = "emitting" /\ task'.batch = <<>> /\ task'.doc = Doc(d)
        /\ task'.doc.held /\ task'.doc.doc = d
        /\ task'.era = e /\ task'.from = Widened(held.cursor) /\ task'.to = Len(d)
        /\ task' \in [phase : Phases, batch : Seq(Documents), doc : Snapshots, era : Nat,
                      from : Nat, to : Nat]
    <3>1. task' = Task("emitting", <<>>, Doc(d), e, Widened(held.cursor), Len(d))
      BY <1>1, <1>2, <1>13 DEF TakeView, Emitting
    <3> QED BY <3>1, <2>3, <1>3 DEF Task, Doc, Phases, Snapshots
  <2>5. Typed' BY <1>1, <1>4, <1>5, <2>2, <2>4 DEF Typed
  <2>6. Bounded'
    <3>1. None.to <= MaxLog BY <1>4 DEF None
    <3> QED BY <3>1, <1>1, <1>3, <1>5, <2>2, <2>4 DEF Bounded
  <2>7. Sessions' BY <1>1, <1>5, <2>4 DEF Sessions, Moves, Asleep
  <2>8. Suiting' BY <1>1, <1>5, <1>11, <1>13, <2>2, <2>4 DEF Suiting, Suited, Moves
  <2>9. Eras'
    <3>1. HeldCurrent' BY <1>1, <1>3, <2>2, <2>4 DEF Eras, HeldCurrent, Prefix
    <3> QED BY <1>1, <1>3, <1>5, <2>2, <2>4, <3>1 DEF Eras
  <2>10. Lengths' BY <1>1, <1>5, <2>2, <2>4 DEF Lengths
  <2>11. Linked' BY <1>1, <1>5, <2>4 DEF Linked, Consecutive, EndOf
  <2>12. Caught' BY <1>1, <1>12, <2>4 DEF Caught, Moves
  <2>13. Exact' BY <1>11, <2>2 DEF Exact
  <2>14. Covered'
    <3>1. state.version <= Len(d) BY <1>3, <1>4, <1>9, <1>13
    <3> QED BY <1>1, <1>8, <2>1, <2>2, <2>3, <2>4, <3>1
            DEF Covered, NoSilentJump, EndBefore, End, Reach, Reaching
  <2>15. Forward'
    <3>1. Len(d) >= held.cursor BY <1>3, <1>4, <1>13
    <3> QED BY <1>1, <1>5, <2>2, <2>4, <3>1 DEF Forward
  <2> QED BY <2>5, <2>6, <2>7, <2>8, <2>9, <2>10, <2>11, <2>12, <2>13, <2>14, <2>15
<1>14. CASE ~(held.store.held /\ Len(d) > held.cursor)
  <2>1. /\ held' = Adopted(held, d, e) /\ heard' = Baseline(d) /\ task' = At("ticking")
        /\ state' = [snapshot |-> held'.store, version |-> held'.cursor, status |-> "live"]
    BY <1>1, <1>2, <1>14 DEF TakeView, Publish
  <2>2. /\ held'.cursor = Len(d) /\ held'.dropped = held.dropped /\ held'.store = Doc(d)
        /\ held'.store.held /\ held'.store.doc = d
        /\ held'.mode = held.mode /\ held'.era = e
        /\ held' \in [cursor : Nat, store : Snapshots, mode : {"reducible", "records"},
                      dropped : Ranges, era : Nat]
    <3>1. held' = [held EXCEPT !.cursor = Len(d), !.store = Doc(d), !.era = e]
      BY <2>1 DEF Adopted
    <3>2. Doc(d) \in Snapshots /\ Doc(d).held /\ Doc(d).doc = d BY DEF Doc, Snapshots
    <3> HIDE DEF Doc
    <3> QED BY <3>1, <3>2, <1>3 DEF Typed
  <2>3. /\ state'.snapshot = Doc(d) /\ state'.version = Len(d)
        /\ state'.snapshot.held /\ state'.snapshot.doc = d
        /\ state' \in [snapshot : Snapshots, version : Nat,
                       status : {"reconnecting", "live", "ended", "failed"}]
    BY <2>1, <2>2, <1>3
  <2>4. /\ task'.phase = "ticking" /\ task'.batch = <<>> /\ Len(task'.batch) = 0
        /\ ~task'.doc.held /\ task'.era = 0 /\ task'.to = 0
        /\ task' \in [phase : Phases, batch : Seq(Documents), doc : Snapshots, era : Nat,
                      from : Nat, to : Nat]
    <3>1. "ticking" \in Phases BY DEF Phases
    <3>2. Len(<<>>) = 0 OBVIOUS
    <3> QED BY <3>1, <3>2, <2>1, AtFields
  <2>5. /\ heard' \in Nat /\ heard' <= MaxLog /\ NoSilentJump' /\ End' \in Nat
        /\ Len(d) <= Reach' /\ (held.dropped = None => c <= Reach')
        /\ (held.dropped # None => End' = End /\ Len(d) <= held.cursor /\ c = held.cursor
                                   /\ Reach' = held.dropped.to /\ held.cursor <= held.dropped.to)
    <3>1. CASE held.store.held
      <4>1. Len(d) <= held.cursor /\ c = held.cursor /\ heard' = heard
        BY <3>1, <2>1, <1>3, <1>4, <1>6, <1>14 DEF Baseline, Higher
      <4>2. NoSilentJump' /\ End' = End /\ Reach' = Reach
        BY <4>1, <2>2, <1>1 DEF Covered, NoSilentJump, EndBefore, End, Reach
      <4>3. Len(d) <= Reach BY <4>1, <1>3, <1>4, <1>10
      <4>4. held.dropped # None => Reach = held.dropped.to BY DEF Reach
      <4> QED BY <4>1, <4>2, <4>3, <4>4, <1>4, <1>10 DEF Bounded
    <3>2. CASE ~held.store.held
      <4>1. held.cursor = 0 /\ held.dropped = None /\ events = <<>>
        BY <3>2, <1>11 DEF Suiting
      <4>2. heard' = Len(d) /\ c = Len(d)
        BY <3>2, <4>1, <2>1, <1>3, <1>6 DEF Baseline, Higher
      <4>3. Len(events') = 0 /\ DOMAIN events' = {} BY <4>1, <1>1
      <4>4. End' = Len(d) BY <4>2, <4>3 DEF End, EndBefore
      <4>5. Reach' = Len(d) BY <4>1, <4>4, <2>2 DEF Reach
      <4>6. NoSilentJump' BY <4>3 DEF NoSilentJump
      <4> QED BY <4>1, <4>2, <4>4, <4>5, <4>6, <1>3
    <3> QED BY <3>1, <3>2
  <2>6. Typed' BY <1>1, <1>5, <2>2, <2>3, <2>4, <2>5 DEF Typed
  <2>7. Bounded' BY <1>1, <1>3, <1>4, <1>5, <2>2, <2>3, <2>4, <2>5 DEF Bounded
  <2>8. Sessions' BY <1>1, <1>5, <2>4 DEF Sessions, Moves, Asleep
  <2>9. Suiting' BY <1>1, <1>5, <1>11, <2>2, <2>4 DEF Suiting, Suited, Moves
  <2>10. Eras'
    <3>1. HeldCurrent' BY <1>1, <1>3, <2>2, <2>3, <2>4 DEF HeldCurrent, Prefix
    <3> QED BY <1>1, <1>3, <1>4, <1>5, <2>2, <2>4, <3>1 DEF Eras
  <2>11. Lengths' BY <1>1, <1>5, <2>2, <2>3, <2>4 DEF Lengths
  <2>12. Linked' BY <1>1, <1>5, <2>4 DEF Linked, Consecutive, EndOf
  <2>13. Caught' BY <1>1, <1>12, <2>4 DEF Caught, Moves
  <2>14. Exact' BY <1>11, <2>2 DEF Exact
  <2>15. Covered'
    <3>1. ASSUME held.dropped # None PROVE NotBelow(held.cursor)' /\ held.dropped.from <= End'
      <4>1. held.dropped.from <= End' BY <3>1, <2>5 DEF Covered
      <4>2. c >= Len(d) /\ c + 1 > Len(d) BY <3>1, <2>5, <1>3, <1>4
      <4> QED BY <4>1, <4>2, <1>8, <2>2, <2>4 DEF NotBelow
    <3>2. c <= Reach' BY <2>5
    <3>3. Reaching' = Reach' BY <2>4 DEF Reaching
    <3> QED BY <1>1, <1>8, <2>2, <2>4, <2>5, <3>1, <3>2, <3>3 DEF Covered
  <2>16. Forward'
    <3>1. ASSUME cuts = 0 PROVE versions <= Len(d) /\ Len(d) <= Len(log)
      <4>1. e = cuts BY <3>1, <1>2, <1>3
      <4>2. Len(d) <= Len(log) BY <4>1, <1>3 DEF Prefix
      <4>3. Len(d) >= held.cursor BY <3>1, <1>1, <1>2 DEF Forward
      <4> QED BY <4>2, <4>3, <1>3, <1>4, <1>9
    <3>2. Len(d) <= Len(d) BY <1>3
    <3> QED BY <1>1, <1>5, <2>2, <2>3, <2>4, <3>1, <3>2 DEF Forward
  <2> QED BY <2>6, <2>7, <2>8, <2>9, <2>10, <2>11, <2>12, <2>13, <2>14, <2>15, <2>16
<1> QED BY <1>13, <1>14

-----------------------------------------------------------------------------
(* Records are folded. *)

\* The batch without its first record.
LEMMA PoppedShape ==
    ASSUME Typed, task.batch # <<>>, Consecutive(task.batch), task' = Popped
    PROVE  /\ task'.phase = task.phase /\ task'.doc = task.doc /\ task'.era = task.era
           /\ task'.from = task.from /\ task'.to = task.to
           /\ task' \in [phase : Phases, batch : Seq(Documents), doc : Snapshots, era : Nat,
                         from : Nat, to : Nat]
           /\ \A j \in 1 .. Len(task'.batch) :
                 task'.batch[j] = task.batch[j + 1] /\ j + 1 \in 1 .. Len(task.batch)
           /\ task'.batch # <<>> =>
                 /\ Consecutive(task'.batch) /\ EndOf(task'.batch) = EndOf(task.batch)
                 /\ Len(task'.batch[1]) = Len(task.batch[1]) + 1
           /\ task'.batch = <<>> => EndOf(task.batch) = Len(task.batch[1])
<1>1. task.batch \in Seq(Documents) BY Fields
<1>2. /\ task'.batch = Tail(task.batch) /\ task'.phase = task.phase /\ task'.doc = task.doc
      /\ task'.era = task.era /\ task'.from = task.from /\ task'.to = task.to
      /\ task' \in [phase : Phases, batch : Seq(Documents), doc : Snapshots, era : Nat,
                    from : Nat, to : Nat]
  <2>1. Tail(task.batch) \in Seq(Documents) BY <1>1, TailShape
  <2> QED BY <2>1 DEF Popped, Typed
<1>3. PICK b, t : b = task.batch /\ t = task'.batch OBVIOUS
<1>4. /\ b \in Seq(Documents) /\ t \in Seq(Documents) /\ Len(b) \in Nat \ {0}
      /\ Len(t) = Len(b) - 1
      /\ \A j \in 1 .. Len(t) : t[j] = b[j + 1] /\ j + 1 \in 1 .. Len(b)
  BY <1>1, <1>2, <1>3, TailShape
<1>5. /\ \A j \in 1 .. Len(b) : Len(b[j]) = Len(b[1]) + j - 1 /\ Len(b[j]) >= 1
      /\ Len(b[1]) \in Nat
  BY <1>3, <1>4 DEF Consecutive, Documents
<1>6. ASSUME t # <<>>
      PROVE  Consecutive(t) /\ EndOf(t) = EndOf(b) /\ Len(t[1]) = Len(b[1]) + 1
  <2>1. Len(t) >= 1 /\ Len(t) \in Nat /\ Len(t) + 1 = Len(b) BY <1>4, <1>6, EmptyShape
  <2>2. ASSUME NEW j \in 1 .. Len(t) PROVE Len(t[j]) = Len(b[1]) + j /\ Len(t[j]) >= 1
    <3>1. t[j] = b[j + 1] /\ j + 1 \in 1 .. Len(b) BY <1>4
    <3> QED BY <3>1, <1>5
  <2>3. Len(t[1]) = Len(b[1]) + 1 BY <2>1, <2>2
  <2>4. \A j \in 1 .. Len(t) : Len(t[j]) = Len(t[1]) + j - 1 /\ Len(t[j]) >= 1
    BY <2>2, <2>3, <1>5
  <2>5. t[Len(t)] = b[Len(b)] BY <2>1, <1>4
  <2> QED BY <2>3, <2>4, <2>5 DEF Consecutive, EndOf
<1>7. t = <<>> => EndOf(b) = Len(b[1])
  <2>1. t = <<>> => Len(b) = 1 BY <1>4, EmptyShape
  <2> QED BY <2>1 DEF EndOf
<1> QED BY <1>2, <1>3, <1>4, <1>6, <1>7

\* The first record of the batch, and what its frame is known to be.
LEMMA FirstRecord ==
    ASSUME IInv, Folding
    PROVE  /\ task.phase = "folding" /\ task.batch # <<>> /\ Consecutive(task.batch)
           /\ Next1 = task.batch[1] /\ Next1 \in Documents /\ Len(Next1) \in Nat
           /\ Len(Next1) >= 1 /\ Len(Next1) <= MaxLog
           /\ Follows(0, EndOf(task.batch)) /\ EndOf(task.batch) \in Nat
           /\ EndOf(task.batch) >= Len(Next1)
           /\ \A i \in 1 .. Len(sink) : sink[i].kind # "View"
           /\ stream.phase # "viewing" /\ Suited /\ (reducible => held.store.held)
           /\ state.version <= held.cursor /\ versions = state.version
           /\ (stream.phase = "live" => stream.cursor <= Len(log))
           /\ (held.era = cuts => Prefix(Next1))
           /\ UNCHANGED <<reducible, log, floor, cuts>>
<1> USE DEF IInv
<1>1. task.phase = "folding" /\ task.batch # <<>> BY DEF Folding
<1>2. task.batch \in Seq(Documents) BY Fields
<1>3. Consecutive(task.batch) /\ Follows(0, EndOf(task.batch)) BY <1>1 DEF Linked
<1>4. /\ Next1 = task.batch[1] /\ Next1 \in Documents /\ Len(task.batch) \in Nat \ {0}
      /\ 1 \in 1 .. Len(task.batch)
  BY <1>1, <1>2, TailShape DEF Next1
<1>5. Len(Next1) \in Nat BY <1>4 DEF Documents
<1>6. Len(Next1) >= 1 BY <1>3, <1>4 DEF Consecutive
<1>7. Len(Next1) <= MaxLog BY <1>4 DEF Lengths
<1>8. EndOf(task.batch) = Len(Next1) + Len(task.batch) - 1
  BY <1>3, <1>4 DEF Consecutive, EndOf
<1>9. EndOf(task.batch) \in Nat /\ EndOf(task.batch) >= Len(Next1) BY <1>4, <1>5, <1>8
<1>10. (\A i \in 1 .. Len(sink) : sink[i].kind # "View") /\ stream.phase # "viewing"
  BY <1>1 DEF Sessions
<1>11. Suited /\ (reducible => held.store.held) BY <1>1 DEF Suiting, Moving
<1>12. state.version <= held.cursor /\ versions = state.version BY <1>1 DEF Forward
<1>13. stream.phase = "live" => stream.cursor <= Len(log) BY <1>1 DEF Caught
<1>14. held.era = cuts => Prefix(Next1) BY <1>4 DEF Eras, HeldCurrent
<1> QED BY <1>1, <1>3, <1>4, <1>5, <1>6, <1>7, <1>9, <1>10, <1>11, <1>12, <1>13, <1>14
        DEF Folding, serverVars

\* Where the frames behind the last record of the batch start.
LEMMA BehindTheBatch ==
    ASSUME Typed, NEW e, Follows(0, e)
    PROVE  /\ sink # <<>> /\ sink[1].kind = "Gap" => sink[1].from = e
           /\ sink # <<>> /\ sink[1].kind = "Records" => Len(sink[1].docs[1]) = e + 1
           /\ sink = <<>> /\ stream.phase # "none" => stream.cursor = e
<1>1. sink # <<>> => 0 < Len(sink) BY Fields, EmptyShape
<1>2. sink = <<>> => Len(sink) = 0 OBVIOUS
<1> QED BY <1>1, <1>2 DEF Follows

LEMMA FoldOldKeeps ==
    ASSUME IInv, FoldOld PROVE IInv'
<1> USE DEF IInv
<1>1. Folding /\ Len(Next1) <= held.cursor /\ task' = Popped
      /\ UNCHANGED <<stream, sink, held, state, versions, events, heard>>
  BY DEF FoldOld
<1>2. /\ task.phase = "folding" /\ task.batch # <<>> /\ Consecutive(task.batch)
      /\ Next1 = task.batch[1] /\ Len(Next1) \in Nat /\ Follows(0, EndOf(task.batch))
      /\ Suited /\ (stream.phase = "live" => stream.cursor <= Len(log))
      /\ UNCHANGED <<reducible, log, floor, cuts>>
  BY <1>1, FirstRecord
<1>3. /\ task'.phase = "folding" /\ task'.doc = task.doc /\ task'.era = task.era
      /\ task'.to = task.to
      /\ task' \in [phase : Phases, batch : Seq(Documents), doc : Snapshots, era : Nat,
                    from : Nat, to : Nat]
      /\ \A j \in 1 .. Len(task'.batch) :
            task'.batch[j] = task.batch[j + 1] /\ j + 1 \in 1 .. Len(task.batch)
      /\ task'.batch # <<>> =>
            Consecutive(task'.batch) /\ EndOf(task'.batch) = EndOf(task.batch)
      /\ task'.batch = <<>> => EndOf(task.batch) = Len(Next1)
  BY <1>1, <1>2, PoppedShape
<1>4. held.cursor \in Nat /\ cuts \in Nat /\ held.mode \in {"reducible", "records"} BY Fields
<1>5. held.mode # "records" /\ held.dropped = None
  <2>1. held.mode = "records" => Len(Next1) = held.cursor + 1 BY <1>2 DEF Exact
  <2>2. held.dropped # None => Len(Next1) > held.cursor BY <1>2 DEF Covered, NotBelow
  <2> QED BY <2>1, <2>2, <1>1, <1>2, <1>4
<1>6. Typed' BY <1>1, <1>2, <1>3 DEF Typed
<1>7. Bounded' BY <1>1, <1>2, <1>3 DEF Bounded
<1>8. Sessions' BY <1>1, <1>2, <1>3 DEF Sessions, Moves
<1>9. Suiting'
  <2>1. Moving BY <1>2 DEF Moving
  <2> QED BY <2>1, <1>1, <1>2, <1>3 DEF Suiting, Suited, Moves
<1>10. Eras'
  <2>1. AllCurrent => AllCurrent' BY <1>1, <1>2 DEF AllCurrent, Current, Prefix
  <2>2. held.era = cuts => \A j \in 1 .. Len(task'.batch) : Prefix(task'.batch[j])
    BY <1>3 DEF Eras, HeldCurrent
  <2>3. HeldCurrent' BY <2>2, <1>1, <1>2, <1>3 DEF Eras, HeldCurrent, Prefix
  <2> QED BY <1>1, <1>2, <1>3, <2>1, <2>3 DEF Eras
<1>11. Lengths'
  <2>1. \A j \in 1 .. Len(task'.batch) : Len(task'.batch[j]) <= MaxLog BY <1>3 DEF Lengths
  <2> QED BY <2>1, <1>1, <1>2, <1>3 DEF Lengths
<1>12. Linked'
  <2>1. task'.batch # <<>> => Follows(0, EndOf(task.batch))'
    <3>1. PICK e : e = EndOf(task.batch) /\ Follows(0, e) BY <1>2
    <3>2. Follows(0, e)' BY <3>1, <1>1 DEF Follows
    <3> QED BY <3>1, <3>2, <1>3 DEF Follows, EndOf
  <2> QED BY <2>1, <1>1, <1>2, <1>3 DEF Linked, Follows, Consecutive, EndOf, Higher
<1>13. Caught' BY <1>1, <1>2 DEF Caught
<1>14. Exact' BY <1>1, <1>5 DEF Exact
<1>15. Covered'
  <2>1. PICK e : e = EndOf(task.batch) /\ Follows(0, e) BY <1>2
  <2>2. /\ sink # <<>> /\ sink[1].kind = "Gap" => sink[1].from = e
        /\ sink = <<>> /\ stream.phase # "none" => stream.cursor = e
    BY <2>1, BehindTheBatch
  <2>3. held.cursor <= Reach /\ Reach \in Nat BY <1>2, EndIsNat DEF Covered
  <2>4. task'.batch = <<>> => e <= Reach BY <1>1, <1>2, <1>3, <1>4, <2>1, <2>3
  <2> QED BY <1>1, <1>2, <1>3, <1>5, <2>2, <2>3, <2>4
          DEF Covered, NoSilentJump, EndBefore, End, Reach, Reaching
<1>16. Forward' BY <1>1, <1>2, <1>3 DEF Forward
<1> QED BY <1>6, <1>7, <1>8, <1>9, <1>10, <1>11, <1>12, <1>13, <1>14, <1>15, <1>16

\* A jump is a gap between what is held and the record.
LEMMA FoldJumpKeeps ==
    ASSUME IInv, FoldJump PROVE IInv'
<1> USE DEF IInv
<1>1. /\ Folding /\ Len(Next1) > held.cursor /\ ~IsNext(Next1)
      /\ Recovering(held.cursor, Len(Next1) - 1)
      /\ UNCHANGED <<stream, sink, state, versions, events, heard>>
  BY DEF FoldJump
<1>2. /\ task.phase = "folding" /\ task.batch # <<>> /\ Next1 = task.batch[1]
      /\ Len(Next1) \in Nat /\ Len(Next1) >= 1 /\ Len(Next1) <= MaxLog
      /\ Follows(0, EndOf(task.batch)) /\ EndOf(task.batch) \in Nat
      /\ EndOf(task.batch) >= Len(Next1)
      /\ \A i \in 1 .. Len(sink) : sink[i].kind # "View"
      /\ stream.phase # "viewing" /\ Suited /\ (reducible => held.store.held)
      /\ state.version <= held.cursor
      /\ (stream.phase = "live" => stream.cursor <= Len(log))
      /\ UNCHANGED <<reducible, log, floor, cuts>>
  BY <1>1, FirstRecord
<1>3. /\ held.cursor \in Nat /\ state.version \in Nat /\ cuts \in Nat
      /\ held.mode \in {"reducible", "records"} /\ reducible \in BOOLEAN /\ MaxLog \in Nat
  BY Fields, FollowerAssumption
<1>4. held.mode = "reducible" /\ reducible
  <2>1. held.mode = "records" => Len(Next1) = held.cursor + 1 BY <1>2 DEF Exact
  <2> QED BY <2>1, <1>1, <1>2, <1>3 DEF IsNext, Suited
<1>5. PICK to \in Nat : to = Len(Next1) - 1
  <2>1. Len(Next1) - 1 \in Nat BY <1>2
  <2> QED BY <2>1
<1>6. held.cursor <= to /\ to <= MaxLog /\ to < EndOf(task.batch)
  BY <1>1, <1>2, <1>3, <1>5 DEF IsNext
<1>7. held' = held BY <1>1, <1>4 DEF Recovering
<1>8. /\ task'.phase = "reading" /\ task'.batch = <<>> /\ Len(task'.batch) = 0
      /\ ~task'.doc.held /\ task'.era = 0 /\ task'.from = held.cursor /\ task'.to = to
      /\ task' \in [phase : Phases, batch : Seq(Documents), doc : Snapshots, era : Nat,
                    from : Nat, to : Nat]
  <2>1. task' = Task("reading", <<>>, NoDoc, 0, held.cursor, to)
    BY <1>1, <1>4, <1>5 DEF Recovering
  <2>2. Len(<<>>) = 0 OBVIOUS
  <2> QED BY <2>1, <2>2, <1>3 DEF Task, NoDoc, Phases, Snapshots, Documents
<1>9. Typed' BY <1>1, <1>2, <1>7, <1>8 DEF Typed
<1>10. Bounded' BY <1>1, <1>2, <1>6, <1>7, <1>8 DEF Bounded
<1>11. Sessions' BY <1>1, <1>2, <1>8 DEF Sessions, Moves, Asleep
<1>12. Suiting' BY <1>1, <1>2, <1>4, <1>7, <1>8 DEF Suiting, Suited, Moves
<1>13. Eras'
  <2>1. AllCurrent => AllCurrent' BY <1>1, <1>2 DEF AllCurrent, Current, Prefix
  <2>2. HeldCurrent' BY <1>1, <1>2, <1>7, <1>8 DEF Eras, HeldCurrent, Prefix
  <2> QED BY <1>1, <1>2, <1>3, <1>7, <1>8, <2>1, <2>2 DEF Eras
<1>14. Lengths' BY <1>1, <1>2, <1>7, <1>8 DEF Lengths
<1>15. Linked' BY <1>1, <1>2, <1>7, <1>8 DEF Linked, Follows, Consecutive, EndOf, Higher
<1>16. Caught' BY <1>1, <1>2 DEF Caught
<1>17. Exact' BY <1>4, <1>7 DEF Exact
<1>18. Covered'
  <2>1. PICK e \in Nat : e = EndOf(task.batch) /\ Follows(0, e) BY <1>2
  <2>2. /\ sink # <<>> /\ sink[1].kind = "Gap" => sink[1].from = e
        /\ sink # <<>> /\ sink[1].kind = "Records" => Len(sink[1].docs[1]) = e + 1
        /\ sink = <<>> /\ stream.phase # "none" => stream.cursor = e
    BY <2>1, BehindTheBatch
  <2>3. e >= held.cursor /\ e + 1 > held.cursor BY <2>1, <1>3, <1>6
  <2>4. NotBelow(held.cursor)' BY <2>2, <2>3, <1>1, <1>7, <1>8 DEF NotBelow
  <2>5. held.cursor <= Reach BY <1>2 DEF Covered
  <2>6. state.version <= to BY <1>2, <1>3, <1>6
  <2> QED BY <1>1, <1>7, <1>8, <2>4, <2>5, <2>6
          DEF Covered, NoSilentJump, EndBefore, End, Reach, Reaching
<1>19. Forward' BY <1>1, <1>2, <1>7, <1>8 DEF Forward
<1> QED BY <1>9, <1>10, <1>11, <1>12, <1>13, <1>14, <1>15, <1>16, <1>17, <1>18, <1>19

\* The batch is folded: what is held is shown.
LEMMA FoldDoneKeeps ==
    ASSUME IInv, FoldDone PROVE IInv'
<1> USE DEF IInv
<1>1. /\ task.phase = "folding" /\ task.batch = <<>> /\ task' = At("ticking")
      /\ state' = [snapshot |-> held.store, version |-> held.cursor, status |-> "live"]
      /\ UNCHANGED <<reducible, log, floor, cuts, stream, sink, held, versions, events, heard>>
  BY DEF FoldDone, Publish, serverVars
<1>2. /\ task'.phase = "ticking" /\ task'.batch = <<>> /\ Len(task'.batch) = 0
      /\ ~task'.doc.held /\ task'.era = 0 /\ task'.to = 0
      /\ task' \in [phase : Phases, batch : Seq(Documents), doc : Snapshots, era : Nat,
                    from : Nat, to : Nat]
  <2>1. "ticking" \in Phases BY DEF Phases
  <2>2. Len(<<>>) = 0 OBVIOUS
  <2> QED BY <2>1, <2>2, <1>1, AtFields
<1>3. held.cursor \in Nat /\ held.store \in Snapshots /\ cuts \in Nat /\ versions \in Nat
      /\ MaxLog \in Nat
  BY Fields, FollowerAssumption
<1>4. /\ state'.snapshot = held.store /\ state'.version = held.cursor
      /\ state' \in [snapshot : Snapshots, version : Nat,
                     status : {"reconnecting", "live", "ended", "failed"}]
  BY <1>1, <1>3
<1>5. (\A i \in 1 .. Len(sink) : sink[i].kind # "View") /\ stream.phase # "viewing"
  BY <1>1 DEF Sessions
<1>6. versions <= held.cursor BY <1>1 DEF Forward
<1>7. Typed' BY <1>1, <1>2, <1>4 DEF Typed
<1>8. Bounded' BY <1>1, <1>2, <1>3, <1>4 DEF Bounded
<1>9. Sessions' BY <1>1, <1>2, <1>5 DEF Sessions, Moves, Asleep
<1>10. Suiting'
  <2>1. Moving BY <1>1 DEF Moving
  <2> QED BY <2>1, <1>1, <1>2 DEF Suiting, Suited, Moves
<1>11. Eras'
  <2>1. AllCurrent => AllCurrent' BY <1>1 DEF AllCurrent, Current, Prefix
  <2>2. HeldCurrent' BY <1>1, <1>2, <1>4 DEF Eras, HeldCurrent, Prefix
  <2> QED BY <1>1, <1>2, <1>3, <2>1, <2>2 DEF Eras
<1>12. Lengths' BY <1>1, <1>2, <1>4 DEF Lengths
<1>13. Linked' BY <1>1, <1>2, <1>5 DEF Linked, Follows, Consecutive, EndOf
<1>14. Caught' BY <1>1, <1>2 DEF Caught, Moves
<1>15. Exact' BY <1>1, <1>2 DEF Exact, Follows
<1>16. Covered'
  BY <1>1, <1>2 DEF Covered, NoSilentJump, EndBefore, End, Reach, Reaching, NotBelow
<1>17. Forward'
  <2>1. held.cursor <= held.cursor BY <1>3
  <2> QED BY <1>1, <1>2, <1>4, <1>5, <1>6, <2>1 DEF Forward
<1> QED BY <1>7, <1>8, <1>9, <1>10, <1>11, <1>12, <1>13, <1>14, <1>15, <1>16, <1>17

-----------------------------------------------------------------------------
(* The view is read again. *)

\* The reply is later than the gap, and so than what is under way.
LEMMA ReadReplyKeeps ==
    ASSUME IInv, ReadReply PROVE IInv'
<1> USE DEF IInv
<1>1. /\ task.phase = "reading"
      /\ UNCHANGED <<reducible, log, floor, cuts, state, versions, events, heard>>
  BY DEF ReadReply, serverVars
<1>2. /\ log \in Documents /\ Len(log) \in Nat /\ held.cursor \in Nat /\ held.era \in Nat
      /\ held.dropped \in Ranges /\ cuts \in Nat /\ task.from \in Nat /\ task.to \in Nat
      /\ state.version \in Nat /\ floor \in Nat /\ MaxLog \in Nat
      /\ reducible \in BOOLEAN /\ sink \in Seq(Frames)
  BY Fields, FollowerAssumption
<1>3. CASE Len(log) < task.to
  <2>1. task' = At("opening") /\ Left /\ held' = held BY <1>3 DEF ReadReply
  <2>2. "opening" \in Asleep BY DEF Asleep
  <2> QED BY <1>1, <2>1, <2>2, ClosingKeeps
<1>4. CASE ~(Len(log) < task.to)
  <2>1. /\ task.batch = <<>> /\ stream.phase # "viewing"
        /\ \A i \in 1 .. Len(sink) : sink[i].kind # "View"
    BY <1>1 DEF Sessions
  <2>2. reducible /\ Suited /\ held.store.held /\ held.mode # "records"
    BY <1>1 DEF Suiting, Suited, Moving
  <2>3. sink' = sink /\ stream' = stream BY <1>4 DEF ReadReply
  <2>4. /\ held'.cursor = held.cursor /\ held'.dropped = None /\ held'.store = held.store
        /\ held'.mode = held.mode /\ held'.era = held.era
        /\ held' \in [cursor : Nat, store : Snapshots, mode : {"reducible", "records"},
                      dropped : Ranges, era : Nat]
    <3>1. held' = [held EXCEPT !.dropped = None] BY <1>4 DEF ReadReply
    <3>2. None \in Ranges BY DEF None, Ranges
    <3> HIDE DEF None
    <3> QED BY <3>1, <3>2 DEF Typed
  <2>5. End \in Nat /\ Reach \in Nat /\ held.cursor <= Reach BY <1>1, EndIsNat DEF Covered
  <2>6. Widened(task.from) \in Nat /\ Widened(task.from) <= End
    <3>1. CASE held.dropped = None BY <3>1, <1>1, <1>2 DEF Widened, Covered
    <3>2. CASE held.dropped # None
      <4>1. held.dropped.from \in Nat /\ held.dropped.from <= End
        BY <3>2, <1>2 DEF Covered, Ranges
      <4> QED BY <4>1, <3>2, <1>2, <2>5 DEF Widened, Lower
    <3> QED BY <3>1, <3>2
  <2>7. /\ task'.phase = "emitting" /\ task'.batch = <<>> /\ task'.doc = Doc(log)
        /\ task'.doc.held /\ task'.doc.doc = log
        /\ task'.era = held.era /\ task'.from = Widened(task.from) /\ task'.to = Len(log)
        /\ task' \in [phase : Phases, batch : Seq(Documents), doc : Snapshots, era : Nat,
                      from : Nat, to : Nat]
    <3>1. task' = Task("emitting", <<>>, Doc(log), held.era, Widened(task.from), Len(log))
      BY <1>4 DEF ReadReply, Emitting
    <3> QED BY <3>1, <2>6, <1>2 DEF Task, Doc, Phases, Snapshots
  <2>8. Typed' BY <1>1, <2>3, <2>4, <2>7 DEF Typed
  <2>9. Bounded'
    <3>1. None.to <= MaxLog BY <1>2 DEF None
    <3> QED BY <3>1, <1>1, <2>3, <2>4, <2>7 DEF Bounded
  <2>10. Sessions' BY <1>1, <2>1, <2>3, <2>7 DEF Sessions, Moves, Asleep
  <2>11. Suiting' BY <1>1, <2>2, <2>3, <2>4, <2>7 DEF Suiting, Suited, Moves
  <2>12. Eras'
    <3>1. AllCurrent => AllCurrent' BY <1>1, <2>3 DEF AllCurrent, Current, Prefix
    <3>2. Prefix(log) BY <1>2 DEF Prefix
    <3>3. HeldCurrent' BY <1>1, <2>4, <2>7, <3>2 DEF Eras, HeldCurrent, Prefix
    <3> QED BY <1>1, <2>3, <2>4, <2>7, <3>1, <3>3 DEF Eras
  <2>13. Lengths' BY <1>1, <2>3, <2>4, <2>7 DEF Lengths
  <2>14. Linked' BY <1>1, <2>1, <2>3, <2>7 DEF Linked, Follows, Consecutive, EndOf
  <2>15. stream.phase = "live" => stream.cursor <= Len(log) BY <1>1 DEF Caught
  <2>16. Caught' BY <1>1, <2>3, <2>15 DEF Caught
  <2>17. Exact' BY <2>2, <2>4 DEF Exact
  <2>18. Covered'
    <3>1. state.version <= End \/ state.version <= Len(log)
      <4>1. CASE state.version <= task.to BY <4>1, <1>2, <1>4
      <4>2. CASE held.dropped = None
        <5>1. state.version <= held.cursor /\ Reach = End BY <4>2 DEF Forward, Reach
        <5> QED BY <5>1, <1>2, <2>5
      <4> QED BY <4>1, <4>2, <1>1 DEF Covered
    <3>2. sink # <<>> /\ sink[1].kind = "Gap" => sink[1].from <= Len(log)
      <4> SUFFICES ASSUME sink # <<>>, sink[1].kind = "Gap" PROVE sink[1].from <= Len(log)
        OBVIOUS
      <4>1. 1 \in 1 .. Len(sink) BY <1>2, EmptyShape
      <4>2. sink[1].from \in Nat /\ sink[1].to \in Nat BY <4>1, FrameFields
      <4>3. sink[1].from < sink[1].to /\ sink[1].to <= floor /\ floor <= Len(log)
        BY <4>1 DEF Linked, Bounded
      <4> QED BY <4>2, <4>3, <1>2
    <3> QED BY <1>1, <2>3, <2>4, <2>6, <2>7, <2>15, <3>1, <3>2
            DEF Covered, NoSilentJump, EndBefore, End, Reach, Reaching
  <2>19. Forward' BY <1>1, <2>1, <2>3, <2>4, <2>7 DEF Forward
  <2> QED BY <2>8, <2>9, <2>10, <2>11, <2>12, <2>13, <2>14, <2>16, <2>17, <2>18, <2>19
<1> QED BY <1>3, <1>4

-----------------------------------------------------------------------------
(* The next record is applied and its event queued. *)

\* The queue seen as a sequence: where it ends, and that it leaves nothing out.
EndOfQueue(q) == IF q = <<>> THEN heard ELSE q[Len(q)].to
ToldIn(q) ==
    \A i \in 1 .. Len(q) : q[i].from <= (IF i = 1 THEN heard ELSE q[i - 1].to)

LEMMA QueueIsEvents ==
    events \in Seq(Events) => End = EndOfQueue(events) /\ (NoSilentJump <=> ToldIn(events))
<1> SUFFICES ASSUME events \in Seq(Events)
             PROVE  End = EndOfQueue(events) /\ (NoSilentJump <=> ToldIn(events))
  OBVIOUS
<1>1. Len(events) \in Nat /\ DOMAIN events = 1 .. Len(events)
      /\ (events = <<>> <=> Len(events) = 0)
  BY EmptyShape
<1>2. End = EndOfQueue(events)
  <2>1. CASE events = <<>> BY <2>1, <1>1 DEF End, EndBefore, EndOfQueue
  <2>2. CASE events # <<>>
    <3>1. Len(events) + 1 # 1 /\ (Len(events) + 1) - 1 = Len(events) BY <2>2, <1>1
    <3> QED BY <3>1, <2>2 DEF End, EndBefore, EndOfQueue
  <2> QED BY <2>1, <2>2
<1> QED BY <1>1, <1>2 DEF NoSilentJump, ToldIn, EndBefore

LEMMA OneMoreEvent ==
    ASSUME NEW q \in Seq(Events), NEW e \in Events, ToldIn(q), e.from <= EndOfQueue(q),
           Len(q) < EventCap, \A i \in 1 .. Len(q) : q[i].to <= MaxLog, e.to <= MaxLog
    PROVE  /\ Append(q, e) \in Seq(Events) /\ Len(Append(q, e)) <= EventCap
           /\ ToldIn(Append(q, e)) /\ EndOfQueue(Append(q, e)) = e.to
           /\ \A i \in 1 .. Len(Append(q, e)) : Append(q, e)[i].to <= MaxLog
<1>1. PICK r : r = Append(q, e) OBVIOUS
<1>2. /\ r \in Seq(Events) /\ Len(r) = Len(q) + 1 /\ Len(q) \in Nat /\ r # <<>>
      /\ \A i \in 1 .. Len(q) : r[i] = q[i]
      /\ r[Len(q) + 1] = e
      /\ (q = <<>> <=> Len(q) = 0)
  BY <1>1, AppendShape, EmptyShape
<1>3. Len(r) <= EventCap BY <1>2, FollowerAssumption
<1>4. EndOfQueue(r) = e.to BY <1>2 DEF EndOfQueue
<1>5. ToldIn(r)
  <2> SUFFICES ASSUME NEW i \in 1 .. Len(r)
               PROVE  r[i].from <= (IF i = 1 THEN heard ELSE r[i - 1].to)
    BY DEF ToldIn
  <2>1. i \in 1 .. Len(q) \/ i = Len(q) + 1 BY <1>2
  <2>2. CASE i \in 1 .. Len(q)
    <3>1. q[i].from <= (IF i = 1 THEN heard ELSE q[i - 1].to) BY <2>2 DEF ToldIn
    <3>2. i # 1 => i - 1 \in 1 .. Len(q) BY <2>2, <1>2
    <3> QED BY <3>1, <3>2, <2>2, <1>2
  <2>3. CASE i = Len(q) + 1
    <3>1. r[i] = e BY <2>3, <1>2
    <3>2. CASE q = <<>> BY <3>1, <3>2, <2>3, <1>2 DEF EndOfQueue
    <3>3. CASE q # <<>>
      <4>1. i # 1 /\ i - 1 = Len(q) /\ Len(q) \in 1 .. Len(q) BY <3>3, <2>3, <1>2
      <4> QED BY <4>1, <3>1, <3>3, <1>2 DEF EndOfQueue
    <3> QED BY <3>2, <3>3
  <2> QED BY <2>1, <2>2, <2>3
<1>6. \A i \in 1 .. Len(r) : r[i].to <= MaxLog
  <2> SUFFICES ASSUME NEW i \in 1 .. Len(r) PROVE r[i].to <= MaxLog OBVIOUS
  <2>1. i \in 1 .. Len(q) \/ i = Len(q) + 1 BY <1>2
  <2> QED BY <2>1, <1>2
<1> QED BY <1>1, <1>2, <1>3, <1>4, <1>5, <1>6

\* However full the queue is, the record is told, or is in the range noted as dropped.
LEMMA EmittedTells ==
    ASSUME NEW q \in Seq(Events), NEW d \in Ranges, NEW v \in Nat, v >= 1, v <= MaxLog,
           heard \in Nat, ToldIn(q), Len(q) <= EventCap,
           \A i \in 1 .. Len(q) : q[i].to <= MaxLog,
           d = None => v - 1 <= EndOfQueue(q),
           d # None => d.from <= EndOfQueue(q) /\ d.to <= MaxLog /\ v - 1 <= d.to,
           NEW e, e = Emitted(q, d, v)
    PROVE  /\ e.events \in Seq(Events) /\ Len(e.events) <= EventCap /\ ToldIn(e.events)
           /\ \A i \in 1 .. Len(e.events) : e.events[i].to <= MaxLog
           /\ e.dropped \in Ranges /\ e.dropped.to <= MaxLog
           /\ e.dropped = None => EndOfQueue(e.events) = v
           /\ e.dropped # None => e.dropped.from <= EndOfQueue(e.events) /\ e.dropped.to = v
<1> DEFINE g == Event("Gap", d.from, d.to)
           r == Event("Record", v - 1, v)
           announced == IF d # None /\ Room(q) THEN Append(q, g) ELSE q
           left == IF Room(q) THEN None ELSE d
<1>1. g \in Events /\ g.from = d.from /\ g.to = d.to BY DEF Event, Events, Ranges
<1>2. v - 1 \in Nat /\ d.from \in Nat /\ Len(q) \in Nat BY DEF Ranges
<1>3. r \in Events /\ r.from = v - 1 /\ r.to = v BY <1>2 DEF Event, Events
<1>4. None \in Ranges /\ None.to = 0 /\ None.to <= MaxLog
  BY FollowerAssumption DEF None, Ranges
<1>5. IF left = None /\ Room(announced)
      THEN e.events = Append(announced, r) /\ e.dropped = None
      ELSE e.events = announced /\ e.dropped = Lost(left, v)
  BY DEF Emitted
<1>6. /\ Lost(left, v) \in Ranges /\ Lost(left, v).to = v /\ Lost(left, v) # None
      /\ left = None => Lost(left, v).from = v - 1
      /\ left # None => Lost(left, v).from = d.from
  <2>1. v # 0 OBVIOUS
  <2>2. /\ Lost(left, v).to = v /\ (left = None => Lost(left, v).from = v - 1)
        /\ (left # None => Lost(left, v).from = left.from)
    BY DEF Lost
  <2>3. left # None => left = d OBVIOUS
  <2>4. Lost(left, v) \in Ranges
    <3>1. CASE left = None BY <3>1, <1>2 DEF Lost, Ranges
    <3>2. CASE left # None BY <3>2, <2>3, <1>2 DEF Lost, Ranges
    <3> QED BY <3>1, <3>2
  <2> QED BY <2>1, <2>2, <2>3, <2>4, <1>4
<1>7. /\ announced \in Seq(Events) /\ Len(announced) <= EventCap /\ ToldIn(announced)
      /\ \A i \in 1 .. Len(announced) : announced[i].to <= MaxLog
      /\ left = None => v - 1 <= EndOfQueue(announced)
      /\ left # None => d.from <= EndOfQueue(announced)
  <2>1. CASE d # None /\ Room(q)
    <3>1. announced = Append(q, g) /\ left = None BY <2>1
    <3>2. Len(q) < EventCap BY <2>1 DEF Room
    <3> HIDE DEF g
    <3>3. /\ Append(q, g) \in Seq(Events) /\ Len(Append(q, g)) <= EventCap
          /\ ToldIn(Append(q, g)) /\ EndOfQueue(Append(q, g)) = g.to
          /\ \A i \in 1 .. Len(Append(q, g)) : Append(q, g)[i].to <= MaxLog
      BY <3>2, <2>1, <1>1, OneMoreEvent
    <3> HIDE DEF announced, left
    <3> QED BY <3>1, <3>3, <2>1, <1>1
  <2>2. CASE ~(d # None /\ Room(q))
    <3>1. announced = q BY <2>2
    <3>2. (left = None => d = None) /\ (left # None => left = d) BY <2>2
    <3> HIDE DEF announced, left
    <3> QED BY <3>1, <3>2
  <2> QED BY <2>1, <2>2
<1> HIDE DEF announced, left, g, r
<1>8. CASE left = None /\ Room(announced)
  <2>1. e.events = Append(announced, r) /\ e.dropped = None BY <1>5, <1>8
  <2>2. Len(announced) < EventCap BY <1>8 DEF Room
  <2>3. /\ Append(announced, r) \in Seq(Events) /\ Len(Append(announced, r)) <= EventCap
        /\ ToldIn(Append(announced, r)) /\ EndOfQueue(Append(announced, r)) = r.to
        /\ \A i \in 1 .. Len(Append(announced, r)) : Append(announced, r)[i].to <= MaxLog
    BY <2>2, <1>3, <1>7, <1>8, OneMoreEvent
  <2>4. /\ e.events \in Seq(Events) /\ Len(e.events) <= EventCap /\ ToldIn(e.events)
        /\ \A i \in 1 .. Len(e.events) : e.events[i].to <= MaxLog
        /\ EndOfQueue(e.events) = v
    BY <2>1, <2>3, <1>3
  <2> QED BY <2>1, <2>4, <1>4
<1>9. CASE ~(left = None /\ Room(announced))
  <2>1. e.events = announced /\ e.dropped = Lost(left, v) BY <1>5, <1>9
  <2>2. e.dropped.from <= EndOfQueue(e.events) BY <2>1, <1>6, <1>7
  <2>3. /\ e.events \in Seq(Events) /\ Len(e.events) <= EventCap /\ ToldIn(e.events)
        /\ \A i \in 1 .. Len(e.events) : e.events[i].to <= MaxLog
        /\ e.dropped \in Ranges /\ e.dropped.to <= MaxLog /\ e.dropped # None
        /\ e.dropped.to = v
    BY <2>1, <1>6, <1>7
  <2> QED BY <2>2, <2>3
<1> QED BY <1>8, <1>9

LEMMA FoldNextKeeps ==
    ASSUME IInv, FoldNext PROVE IInv'
<1> USE DEF IInv
<1>1. Folding /\ IsNext(Next1) /\ task' = Popped /\ UNCHANGED <<stream, sink, state, versions, heard>>
  BY DEF FoldNext
<1>2. /\ task.phase = "folding" /\ task.batch # <<>> /\ Consecutive(task.batch)
      /\ Next1 = task.batch[1] /\ Next1 \in Documents /\ Len(Next1) \in Nat
      /\ Len(Next1) >= 1 /\ Len(Next1) <= MaxLog /\ Follows(0, EndOf(task.batch))
      /\ EndOf(task.batch) \in Nat
      /\ \A i \in 1 .. Len(sink) : sink[i].kind # "View"
      /\ stream.phase # "viewing" /\ Suited /\ (reducible => held.store.held)
      /\ state.version <= held.cursor /\ versions = state.version
      /\ (stream.phase = "live" => stream.cursor <= Len(log))
      /\ (held.era = cuts => Prefix(Next1))
      /\ UNCHANGED <<reducible, log, floor, cuts>>
  BY <1>1, FirstRecord
<1>3. PICK v \in Nat : v = Len(Next1) BY <1>2
<1>4. /\ held.cursor \in Nat /\ v = held.cursor + 1 /\ v - 1 = held.cursor /\ cuts \in Nat
      /\ held.dropped \in Ranges /\ events \in Seq(Events) /\ state.version \in Nat
      /\ held.store \in Snapshots /\ held.store.held \in BOOLEAN /\ held.store.doc \in Documents
      /\ heard \in Nat /\ versions \in Nat /\ MaxLog \in Nat /\ log \in Documents
      /\ reducible \in BOOLEAN
  <2>1. held.cursor \in Nat /\ v = held.cursor + 1 BY <1>1, <1>3, Fields DEF IsNext
  <2>2. v - 1 = held.cursor BY <2>1
  <2>3. held.store \in Snapshots BY Fields
  <2>4. held.store.held \in BOOLEAN /\ held.store.doc \in Documents BY <2>3 DEF Snapshots
  <2> QED BY <2>1, <2>2, <2>3, <2>4, Fields, FollowerAssumption
<1>5. /\ task'.phase = "folding" /\ task'.doc = task.doc /\ task'.era = task.era
      /\ task'.to = task.to
      /\ task' \in [phase : Phases, batch : Seq(Documents), doc : Snapshots, era : Nat,
                    from : Nat, to : Nat]
      /\ \A j \in 1 .. Len(task'.batch) :
            task'.batch[j] = task.batch[j + 1] /\ j + 1 \in 1 .. Len(task.batch)
      /\ task'.batch # <<>> =>
            /\ Consecutive(task'.batch) /\ EndOf(task'.batch) = EndOf(task.batch)
            /\ Len(task'.batch[1]) = v + 1
      /\ task'.batch = <<>> => EndOf(task.batch) = v
  BY <1>1, <1>2, <1>3, PoppedShape
<1>6. PICK e : e = Emitted(events, held.dropped, v) OBVIOUS
<1>7. /\ e.events \in Seq(Events) /\ Len(e.events) <= EventCap /\ ToldIn(e.events)
      /\ \A i \in 1 .. Len(e.events) : e.events[i].to <= MaxLog
      /\ e.dropped \in Ranges /\ e.dropped.to <= MaxLog
      /\ e.dropped = None => EndOfQueue(e.events) = v
      /\ e.dropped # None => e.dropped.from <= EndOfQueue(e.events) /\ e.dropped.to = v
  <2>1. End = EndOfQueue(events) /\ ToldIn(events) BY <1>4, QueueIsEvents DEF Covered
  <2>2. held.cursor <= Reach BY <1>2 DEF Covered
  <2>3. held.dropped = None => v - 1 <= EndOfQueue(events) BY <1>4, <2>1, <2>2 DEF Reach
  <2>4. held.dropped # None => held.dropped.from <= EndOfQueue(events)
                               /\ held.dropped.to <= MaxLog /\ v - 1 <= held.dropped.to
    BY <1>4, <2>1, <2>2 DEF Reach, Covered, Bounded
  <2>5. Len(events) <= EventCap /\ \A i \in 1 .. Len(events) : events[i].to <= MaxLog
    BY DEF Bounded
  <2>6. v >= 1 /\ v <= MaxLog BY <1>2, <1>3
  <2>7. PICK q \in Seq(Events), d \in Ranges : q = events /\ d = held.dropped BY <1>4
  <2>8. /\ e = Emitted(q, d, v) /\ ToldIn(q) /\ Len(q) <= EventCap
        /\ \A i \in 1 .. Len(q) : q[i].to <= MaxLog
    BY <1>6, <2>1, <2>5, <2>7
  <2>9. /\ d = None => v - 1 <= EndOfQueue(q)
        /\ d # None => d.from <= EndOfQueue(q) /\ d.to <= MaxLog /\ v - 1 <= d.to
    BY <2>3, <2>4, <2>7
  <2>10. heard \in Nat BY <1>4
  <2> QED BY ONLY <2>6, <2>8, <2>9, <2>10, EmittedTells
<1>8. /\ held'.cursor = v /\ held'.dropped = e.dropped /\ held'.store = Applied
      /\ held'.mode = held.mode /\ held'.era = held.era /\ events' = e.events
      /\ held' \in [cursor : Nat, store : Snapshots, mode : {"reducible", "records"},
                    dropped : Ranges, era : Nat]
      /\ Applied.held = held.store.held /\ Applied \in Snapshots
      /\ Applied.held => Applied.doc = Append(held.store.doc, Next1[Len(Next1)])
  <2>1. events' = e.events
        /\ held' = [held EXCEPT !.cursor = v, !.dropped = e.dropped, !.store = Applied]
    BY <1>3, <1>6 DEF FoldNext
  <2>2. Next1[Len(Next1)] \in Nat BY <1>2 DEF Documents
  <2>3. /\ Applied.held = held.store.held /\ Applied \in Snapshots
        /\ Applied.held => Applied.doc = Append(held.store.doc, Next1[Len(Next1)])
    <3>1. CASE held.store.held
      <4>1. Applied = Doc(Append(held.store.doc, Next1[Len(Next1)]))
        BY <3>1 DEF Applied, Last
      <4>2. Append(held.store.doc, Next1[Len(Next1)]) \in Documents
        BY <2>2, <1>4 DEF Documents
      <4> QED BY <3>1, <4>1, <4>2 DEF Doc, Snapshots
    <3>2. CASE ~held.store.held
      <4>1. Applied = NoDoc BY <3>2 DEF Applied
      <4>2. held.store.held = FALSE BY <3>2, <1>4
      <4>3. NoDoc.held = FALSE /\ NoDoc \in Snapshots BY DEF NoDoc, Snapshots, Documents
      <4> HIDE DEF NoDoc
      <4> QED BY <4>1, <4>2, <4>3
    <3> QED BY <3>1, <3>2
  <2> HIDE DEF Applied
  <2> QED BY <2>1, <2>3, <1>7 DEF Typed
<1>9. End' = EndOfQueue(e.events) /\ NoSilentJump'
  <2>1. events' \in Seq(Events) BY <1>7, <1>8
  <2>2. (events \in Seq(Events) => End = EndOfQueue(events) /\ (NoSilentJump <=> ToldIn(events)))'
    BY QueueIsEvents, PTL
  <2> QED BY <2>1, <2>2, <1>1, <1>7, <1>8 DEF EndOfQueue, ToldIn
<1> HIDE DEF Applied
<1>10. Typed' BY <1>1, <1>2, <1>5, <1>7, <1>8 DEF Typed
<1>11. Bounded' BY <1>1, <1>2, <1>3, <1>5, <1>7, <1>8 DEF Bounded
<1>12. Sessions' BY <1>1, <1>2, <1>5 DEF Sessions, Moves
<1>13. Suiting'
  <2>1. Suited' BY <1>2, <1>8 DEF Suited
  <2> QED BY <2>1, <1>1, <1>2, <1>5, <1>8 DEF Suiting, Moves
<1>14. Eras'
  <2>1. AllCurrent => AllCurrent' BY <1>1, <1>2 DEF AllCurrent, Current, Prefix
  <2>2. held.era = cuts => \A j \in 1 .. Len(task'.batch) : Prefix(task'.batch[j])
    BY <1>5 DEF Eras, HeldCurrent
  <2>3. ASSUME held.era = cuts, held'.store.held PROVE Prefix(held'.store.doc)
    <3>1. PICK d \in Documents : d = held.store.doc BY <1>4
    <3>2. Prefix(d) /\ Len(d) = held.cursor
      BY <3>1, <2>3, <1>8 DEF Eras, HeldCurrent, Lengths
    <3>3. Prefix(Next1) /\ Len(Next1) = Len(d) + 1 BY <3>2, <2>3, <1>2, <1>3, <1>4
    <3>4. Prefix(Append(d, Next1[Len(Next1)])) BY <3>2, <3>3, <1>2, <1>4, NextOfLog
    <3> QED BY <3>1, <3>4, <2>3, <1>8
  <2>4. HeldCurrent' BY <2>2, <2>3, <1>1, <1>2, <1>5, <1>8 DEF Eras, HeldCurrent, Prefix
  <2> QED BY <1>1, <1>2, <1>5, <1>8, <2>1, <2>4 DEF Eras
<1>15. Lengths'
  <2>1. \A j \in 1 .. Len(task'.batch) : Len(task'.batch[j]) <= MaxLog BY <1>5 DEF Lengths
  <2>2. ASSUME held'.store.held PROVE Len(held'.store.doc) = v
    <3>1. Len(held.store.doc) = held.cursor BY <2>2, <1>8 DEF Lengths
    <3>2. Len(Append(held.store.doc, Next1[Len(Next1)])) = Len(held.store.doc) + 1
      BY <1>4, AppendShape DEF Documents
    <3> QED BY <3>1, <3>2, <2>2, <1>4, <1>8
  <2> QED BY <2>1, <2>2, <1>1, <1>2, <1>5, <1>8 DEF Lengths
<1>16. Linked'
  <2>1. task'.batch # <<>> => Follows(0, EndOf(task.batch))'
    <3>1. PICK n : n = EndOf(task.batch) /\ Follows(0, n) BY <1>2
    <3>2. Follows(0, n)' BY <3>1, <1>1 DEF Follows
    <3> QED BY <3>1, <3>2, <1>5 DEF Follows, EndOf
  <2> QED BY <2>1, <1>1, <1>2, <1>5 DEF Linked, Follows, Consecutive, EndOf
<1>17. Caught' BY <1>1, <1>2 DEF Caught
<1>18. PICK n \in Nat : n = EndOf(task.batch) /\ Follows(0, n) BY <1>2
<1>19. Exact'
  <2>1. task'.batch # <<>> => Len(task'.batch[1]) = held'.cursor + 1 BY <1>5, <1>8
  <2>2. task'.batch = <<>> => Follows(0, held.cursor)'
    <3>1. task'.batch = <<>> => n = v BY <1>5, <1>18
    <3>2. Follows(0, n)' BY <1>1, <1>18 DEF Follows
    <3> QED BY <3>1, <3>2, <1>8 DEF Follows
  <2> QED BY <2>1, <2>2 DEF Exact
<1>20. Covered'
  <2>1. /\ sink # <<>> /\ sink[1].kind = "Gap" => sink[1].from = n
        /\ sink # <<>> /\ sink[1].kind = "Records" => Len(sink[1].docs[1]) = n + 1
        /\ sink = <<>> /\ stream.phase # "none" => stream.cursor = n
    BY <1>18, BehindTheBatch
  <2>2. Reach' = v BY <1>7, <1>8, <1>9 DEF Reach
  <2>3. task'.batch = <<>> => n = v BY <1>5, <1>18
  <2>4. NotBelow(held.cursor)'
    <3>1. v + 1 > v /\ v >= v OBVIOUS
    <3> QED BY <3>1, <2>1, <2>3, <1>1, <1>5, <1>8 DEF NotBelow
  <2>5. v <= v OBVIOUS
  <2>6. /\ sink # <<>> /\ sink[1].kind = "Gap" /\ task'.batch = <<>> => sink[1].from <= v
        /\ sink = <<>> /\ stream.phase = "live" /\ task'.batch = <<>> => stream.cursor <= v
    BY <2>1, <2>3, <2>5
  <2>7. Reaching' = v BY <2>2, <1>5 DEF Reaching
  <2> QED BY <1>1, <1>5, <1>7, <1>8, <1>9, <2>2, <2>4, <2>5, <2>6, <2>7 DEF Covered
<1>21. Forward'
  <2>1. state.version <= v BY <1>2, <1>4
  <2>2. ASSUME cuts = 0 PROVE v <= Len(log) /\ versions <= state.version
    <3>1. held.era = cuts
      <4>1. held.era \in Nat /\ held.era <= cuts BY Fields DEF Eras
      <4> QED BY <4>1, <2>2
    <3>2. Len(Next1) <= Len(log) BY <3>1, <1>2 DEF Prefix
    <3> QED BY <3>2, <1>2, <1>3, <1>4
  <2> QED BY <1>1, <1>2, <1>5, <1>8, <2>1, <2>2 DEF Forward
<1> QED BY <1>10, <1>11, <1>12, <1>13, <1>14, <1>15, <1>16, <1>17, <1>19, <1>20, <1>21

-----------------------------------------------------------------------------
(* Every step keeps the invariant, and what it means. *)

LEMMA RenderKeeps ==
    ASSUME IInv, Render PROVE IInv'
BY NothingKeeps DEF Render, serverVars

LEMMA StutterKeeps ==
    ASSUME IInv, UNCHANGED vars PROVE IInv'
BY NothingKeeps DEF vars, serverVars

LEMMA NextKeeps == IInv /\ [Next]_vars => IInv'
<1> SUFFICES ASSUME IInv, [Next]_vars PROVE IInv' OBVIOUS
<1>1. CASE TaskStep
  BY <1>1, OpenKeeps, TakeNotReducibleKeeps, TakeViewKeeps, TakeRecordsKeeps, TakeGapKeeps,
     TakeEndingKeeps, FoldOldKeeps, FoldJumpKeeps, FoldNextKeeps, FoldMisfitKeeps,
     FoldDoneKeeps, SendGapKeeps, ReadReplyKeeps, TickKeeps
  DEF TaskStep
<1>2. CASE StreamStep
  BY <1>2, PushViewKeeps, PushGapKeeps, PushRecordsKeeps DEF StreamStep
<1>3. CASE Consume \/ Render BY <1>3, ConsumeKeeps, RenderKeeps
<1>4. CASE AppendPatch \/ Reclaim BY <1>4, AppendPatchKeeps, ReclaimKeeps
<1>5. CASE Refuse \/ ReadFails \/ DropFollower
  BY <1>5, RefuseKeeps, ReadFailsKeeps, DropFollowerKeeps
<1>6. CASE \E n \in 0 .. SinkCap : \E kind \in {"Lost", "End"} : BreakStream(n, kind)
  BY <1>6, BreakStreamKeeps
<1>7. CASE \E n \in 0 .. MaxLog : PowerCut(n) BY <1>7, PowerCutKeeps
<1>8. CASE UNCHANGED vars BY <1>8, StutterKeeps
<1> QED BY <1>1, <1>2, <1>3, <1>4, <1>5, <1>6, <1>7, <1>8 DEF Next

\* The view shown is the log up to its version, once its era is the log's.
LEMMA ShowsTheLogHolds == IInv => ShowsTheLog
<1> SUFFICES ASSUME IInv PROVE ShowsTheLog OBVIOUS
<1> USE DEF IInv
<1>1. TypeOK
  <2>1. /\ floor \in Nat /\ Len(log) \in Nat /\ stream.cursor \in Nat /\ state.version \in Nat
        /\ versions \in Nat /\ heard \in Nat /\ MaxLog \in Nat
        /\ stream.phase \in {"none", "viewing", "live"}
        /\ held.mode \in {"reducible", "records"}
    BY Fields, FollowerAssumption
  <2> QED BY <2>1 DEF TypeOK, Bounded
<1>2. ViewIsTheLog
  <2>1. state.snapshot.held => state.version = Len(state.snapshot.doc) BY DEF Lengths
  <2>2. ASSUME state.snapshot.held, held.era = cuts PROVE IsPrefix(state.snapshot.doc, log)
    <3>1. Prefix(state.snapshot.doc) BY <2>2 DEF Eras, HeldCurrent
    <3>2. state.snapshot \in Snapshots /\ log \in Documents BY Fields
    <3>3. state.snapshot.doc \in Documents BY <3>2 DEF Snapshots
    <3> QED BY <3>1, <3>2, <3>3, PrefixIsPrefix
  <2> QED BY <2>1, <2>2 DEF ViewIsTheLog
<1>3. VersionNamesView
  <2>1. versions \in Nat /\ state.version \in Nat /\ cuts \in Nat BY Fields
  <2>2. versions > state.version => cuts > 0
    <3>1. cuts = 0 => versions <= state.version BY DEF Forward
    <3> QED BY <2>1, <3>1
  <2> QED BY <2>2 DEF VersionNamesView, Forward
<1> QED BY <1>1, <1>2, <1>3 DEF ShowsTheLog

\* The consumer is told of every version shown.
LEMMA EventsAreCompleteHolds == IInv => EventsAreComplete
<1> SUFFICES ASSUME IInv PROVE EventsAreComplete OBVIOUS
<1> USE DEF IInv
<1>1. NoSilentJump BY DEF Covered
<1>2. EventsCoverTheView
  <2>1. state.version \in Nat /\ held.cursor \in Nat /\ Reach \in Nat BY Fields, EndIsNat
  <2>2. state.version <= held.cursor BY DEF Forward
  <2>3. CASE task.phase = "emitting"
    BY <2>3 DEF Covered, EventsCoverTheView, End
  <2>4. CASE task.phase = "stopped" BY <2>4 DEF EventsCoverTheView
  <2>5. CASE task.phase \notin {"emitting", "stopped"}
    <3>1. held.cursor <= Reach BY <2>5 DEF Covered
    <3>2. state.version <= Reach BY <2>1, <2>2, <3>1
    <3> QED BY <3>2 DEF Reach, End, EventsCoverTheView
  <2> QED BY <2>3, <2>4, <2>5
<1> QED BY <1>1, <1>2 DEF EventsAreComplete

\* follower.rs, fold, adopt and publish: what a follower shows is the log up to the
\* version it shows, across gaps, replays, reads, lost streams and power cuts.
THEOREM ShownHolds == Spec => []ShowsTheLog
<1>1. Init => IInv BY InitHolds
<1>2. IInv /\ [Next]_vars => IInv' BY NextKeeps
<1>3. IInv => ShowsTheLog BY ShowsTheLogHolds
<1> QED BY <1>1, <1>2, <1>3, PTL DEF Spec

\* follower.rs, emit: a consumer is told of every version it is shown, however full its
\* queue was.
THEOREM EventsHold == Spec => []EventsAreComplete
<1>1. Init => IInv BY InitHolds
<1>2. IInv /\ [Next]_vars => IInv' BY NextKeeps
<1>3. IInv => EventsAreComplete BY EventsAreCompleteHolds
<1> QED BY <1>1, <1>2, <1>3, PTL DEF Spec
=============================================================================
