-------------------------- MODULE LogActor_answers --------------------------
(***************************************************************************)
(* What clients and subscribers are told is the log: what the ring holds   *)
(* and the watermark announces, what an acknowledgement, a failure and a   *)
(* view say, and that the actor implements Feed.                           *)
(***************************************************************************)
EXTENDS LogActor_proofs, LogActorFeed

-----------------------------------------------------------------------------
(* The ring, as facts about sequences. *)

\* Records added above the end of the log leave the ring what it was.
LEMMA SpansLonger ==
    ASSUME NEW rg, NEW log \in Seq(Record), NEW t \in Seq(Record), NEW end,
           Spans(rg, log, end)
    PROVE  Spans(rg, log \o t, end)
  <1>1. /\ Len(log \o t) = Len(log) + Len(t) /\ Len(log) \in Nat /\ Len(t) \in Nat
        /\ \A v \in 1..Len(log) : (log \o t)[v] = log[v]
    OBVIOUS
  <1>. HIDE <1>1
  <1>. DEFINE more == log \o t
  <1>2. \A v \in 1..Len(log) : v \in 1..Len(more) /\ more[v] = log[v]
    BY <1>1
  <1>. HIDE DEF more
  <1>3. Spans(rg, more, end)
    BY <1>2 DEF Spans
  <1>. QED
    BY <1>3 DEF more

\* Ring::push of the entries that follow the end of the ring: the ring has no
\* hole and ends where the entries do, however many entries had to go.
LEMMA SpansPush ==
    ASSUME NEW rg \in Seq(Entry), NEW es \in Seq(Entry), NEW log \in Seq(Record),
           NEW end \in Nat, Spans(rg, log, end),
           \A i \in 1..Len(es) : es[i].version = end + i /\ Mirrors(log, es[i])
    PROVE  Spans(RingPush(rg, es), log, end + Len(es))
  <1>. DEFINE all == rg \o es
              top == end + Len(es)
  <1>1. /\ all \in Seq(Entry) /\ Len(all) = Len(rg) + Len(es)
        /\ Len(rg) \in Nat /\ Len(es) \in Nat
        /\ \A i \in 1..Len(rg) : all[i] = rg[i]
        /\ \A i \in 1..Len(es) : all[Len(rg) + i] = es[i]
    OBVIOUS
  <1>2. RingPush(rg, es) =
           IF Len(all) <= RingCapacity THEN all
           ELSE SubSeq(all, Len(all) - RingCapacity + 1, Len(all))
    BY DEF RingPush
  <1>3. top \in Nat /\ top = end + Len(es)
    BY <1>1
  <1>. HIDE DEF all, top
  <1>4. Spans(all, log, top)
    <2>. SUFFICES ASSUME NEW i \in 1..Len(all)
                  PROVE  /\ all[i].version = top - Len(all) + i
                         /\ all[i].version \in 1..Len(log)
                         /\ all[i].patch = log[all[i].version].patch
      BY DEF Spans
    <2>1. CASE i \in 1..Len(rg)
      <3>1. /\ rg[i].version = end - Len(rg) + i /\ rg[i].version \in 1..Len(log)
            /\ rg[i].patch = log[rg[i].version].patch
        BY <2>1 DEF Spans
      <3>2. end - Len(rg) + i = top - Len(all) + i
        BY <1>1, <1>3
      <3>. QED
        BY <1>1, <2>1, <3>1, <3>2
    <2>2. CASE i \notin 1..Len(rg)
      <3>1. i - Len(rg) \in 1..Len(es) /\ i = Len(rg) + (i - Len(rg))
        BY <1>1, <2>2
      <3>2. all[i] = es[i - Len(rg)]
        BY <1>1, <3>1
      <3>3. /\ all[i].version = end + (i - Len(rg)) /\ Mirrors(log, all[i])
        BY <3>1, <3>2
      <3>4. end + (i - Len(rg)) = top - Len(all) + i
        BY <1>1, <1>3
      <3>. QED
        BY <3>3, <3>4 DEF Mirrors
    <2>. QED
      BY <2>1, <2>2
  <1>5. CASE Len(all) <= RingCapacity
    BY <1>2, <1>3, <1>4, <1>5
  <1>6. CASE ~(Len(all) <= RingCapacity)
    <2>. DEFINE k == Len(all) - RingCapacity
                cut == SubSeq(all, k + 1, Len(all))
    <2>1. /\ k \in Nat /\ k <= Len(all) /\ Len(all) \in Nat
          /\ Len(all) - k = RingCapacity /\ RingCapacity \in Nat \ {0}
      BY <1>1, <1>6, RingCapacityAssumption
    <2>2. RingPush(rg, es) = cut
      BY <1>2, <1>6
    <2>. HIDE DEF k
    <2>3. /\ Len(cut) = Len(all) - k
          /\ \A i \in 1..(Len(all) - k) : cut[i] = all[k + i]
      BY <1>1, <2>1
    <2>. HIDE DEF cut
    <2>4. Spans(cut, log, top)
      <3>. SUFFICES ASSUME NEW i \in 1..Len(cut)
                    PROVE  /\ cut[i].version = top - Len(cut) + i
                           /\ cut[i].version \in 1..Len(log)
                           /\ cut[i].patch = log[cut[i].version].patch
        BY DEF Spans
      <3>1. k + i \in 1..Len(all) /\ cut[i] = all[k + i]
        BY <2>1, <2>3
      <3>2. top - Len(all) + (k + i) = top - Len(cut) + i
        BY <1>3, <2>1, <2>3
      <3>. QED
        BY <1>4, <3>1, <3>2 DEF Spans
    <2>. QED
      BY <1>3, <2>2, <2>4
  <1>. QED
    BY <1>5, <1>6

-----------------------------------------------------------------------------
(* The ring and the watermark follow the log. *)

\* A step that changes neither the ring nor what is still to be announced.
LEMMA FannedStage ==
    ASSUME FannedOut, UNCHANGED <<ring, published, stored>>,
           Serving' <=> Serving, Unannounced' = Unannounced, RingEnd' = RingEnd
    PROVE  FannedOut'
  <1>1. Spans(ring, stored, RingEnd)'
    BY DEF FannedOut
  <1>. QED
    BY <1>1 DEF FannedOut

Settled == Points \ {"sync", "assign", "announce"}

\* A step between two places where everything written is announced.
LEMMA FannedSettled ==
    ASSUME FannedOut, UNCHANGED <<ring, published, stored>>,
           pc \in Settled, pc' \in Settled, Serving' <=> Serving
    PROVE  FannedOut'
  <1>1. Unannounced' = Unannounced /\ RingEnd' = RingEnd
    BY DEF Settled, Unannounced, RingEnd
  <1>. QED
    BY <1>1, FannedStage

\* A step that leaves the log, the ring and the place alone.
LEMMA FannedSame ==
    ASSUME FannedOut, UNCHANGED <<ring, published, stored, pc, records>>
    PROVE  FannedOut'
  <1>1. Unannounced' = Unannounced /\ RingEnd' = RingEnd /\ (Serving' <=> Serving)
    BY DEF Unannounced, RingEnd, Serving
  <1>. QED
    BY <1>1, FannedStage

\* A commit that failed or ended leaves everything announced.
LEMMA FannedRestart ==
    ASSUME FannedOut, UNCHANGED <<ring, published, stored>>, Restarted,
           pc \in {"drain", "fold", "write", "acknowledge"}
    PROVE  FannedOut'
  <1>1. pc' \in {"drain", "fold"}
    BY DEF Restarted
  <1>2. pc \in Settled /\ pc' \in Settled /\ (Serving' <=> Serving)
    BY <1>1 DEF Settled, Points, Serving
  <1>. QED
    BY <1>2, FannedSettled

\* Every action keeps the ring a window of the log that ends at the watermark.
LEMMA FannedNext ==
    ASSUME "sync" \notin Faults, AckInv, FannedOut, [Next]_vars
    PROVE  FannedOut'
  <1>1. TypeInv /\ Agreement /\ Minted
    BY DEF AckInv, IInv, TypeInv
  <1>2. /\ stored \in Seq(Record) /\ records \in Seq(Record) /\ entries \in Seq(Entry)
        /\ Len(stored) \in Nat /\ Len(records) \in Nat /\ ring \in Seq(Entry)
        /\ published \in Nat /\ pc \in Points
    BY <1>1, CommitFacts DEF TypeInv, TypeOK, SharedTypes, ActorTypes
  <1>3. ASSUME NEW r \in Req, NEW c \in Commands, Submit(r, c)
        PROVE  FannedOut'
    BY <1>3, FannedSame DEF Submit, commitVars, storeVars, sharedVars
  <1>4. CASE Receive \/ Gather \/ Gathered \/ Drained
    BY <1>4, FannedSettled
       DEF Receive, Gather, Gathered, Take, Drained, storeVars, sharedVars, Settled,
           Points, Serving
  <1>5. CASE DrainAppend \/ AnswerView
    BY <1>5, FannedSame
       DEF DrainAppend, AnswerView, commitVars, storeVars, sharedVars
  <1>6. CASE Flush
    <2>1. /\ Restarted /\ UNCHANGED <<ring, published, stored>> /\ pc = "drain"
      BY <1>6, Restarting DEF Flush, storeVars, sharedVars
    <2>. QED
      BY <2>1, FannedRestart
  <1>7. CASE AnswerCheckpoint
    BY <1>7, FannedSame DEF AnswerCheckpoint, Checkpoint, CheckpointRefused,
                            CheckpointLate, commitVars, sharedVars
  <1>8. CASE FoldPatch \/ NextJob
    BY <1>8, FannedSettled
       DEF FoldPatch, NextJob, InBatch, storeVars, sharedVars, Settled, Points, Serving
  <1>9. CASE RejectPatch \/ WriteFails
    <2>1. /\ Restarted /\ UNCHANGED <<ring, published, stored>> /\ pc \in {"fold", "write"}
      BY <1>9, Restarting DEF RejectPatch, WriteFails, InBatch, storeVars, sharedVars
    <2>. QED
      BY <2>1, FannedRestart
  <1>10. CASE Folded
    <2>1. /\ pc = "fold" /\ UNCHANGED <<ring, published, stored, records>>
          /\ pc' = IF records = <<>> THEN "assign" ELSE "write"
      BY <1>10 DEF Folded, commitVars, storeVars, sharedVars
    <2>2. Unannounced' = Unannounced /\ RingEnd' = RingEnd /\ (Serving' <=> Serving)
      <3>1. CASE records = <<>>
        BY <2>1, <3>1 DEF Unannounced, RingEnd, Serving
      <3>2. CASE records # <<>>
        BY <2>1, <3>2 DEF Unannounced, RingEnd, Serving
      <3>. QED
        BY <3>1, <3>2
    <2>. QED
      BY <2>1, <2>2, FannedStage
  <1>11. CASE Write
    <2>1. /\ pc = "write" /\ pc' \in {"sync", "assign"} /\ stored' = stored \o records
          /\ UNCHANGED <<ring, published, records>>
      BY <1>11 DEF Write, commitVars, sharedVars
    <2>2. /\ Len(stored') = Len(stored) + Len(records) /\ published = Len(stored)
          /\ Spans(ring, stored, published)
      BY <1>2, <2>1 DEF FannedOut, Serving, Unannounced, RingEnd
    <2>3. /\ Spans(ring, stored', published) /\ Serving'
          /\ RingEnd' = published /\ Unannounced' = Len(records)
      BY <1>2, <2>1, <2>2, SpansLonger DEF Serving, RingEnd, Unannounced
    <2>4. Spans(ring, stored, RingEnd)'
      BY <2>1, <2>3
    <2>. QED
      BY <1>2, <2>1, <2>2, <2>3, <2>4 DEF FannedOut
  <1>12. CASE Sync
    <2>1. /\ pc = "sync" /\ pc' = "assign" /\ UNCHANGED <<ring, published, stored, records>>
      BY <1>12 DEF Sync, commitVars, sharedVars
    <2>2. Unannounced' = Unannounced /\ RingEnd' = RingEnd /\ (Serving' <=> Serving)
      BY <2>1 DEF Unannounced, RingEnd, Serving
    <2>. QED
      BY <2>1, <2>2, FannedStage
  <1>13. CASE SyncFails
    BY <1>13 DEF SyncFails, Fault
  <1>14. CASE Assign \/ NextShare
    BY <1>14, FannedSame DEF Assign, NextShare, storeVars, sharedVars
  <1>15. CASE Push
    <2>1. /\ pc = "assign" /\ at.job > Len(jobs) /\ ring' = RingPush(ring, entries)
          /\ pc' = IF entries = <<>> THEN "acknowledge" ELSE "announce"
          /\ UNCHANGED <<published, stored, records>>
      BY <1>15 DEF Push, storeVars
    <2>0. Rest = <<>>
      <3>1. TypeInv /\ Laid
        BY DEF AckInv, IInv, TypeInv
      <3>. QED
        BY <2>1, <3>1, RestDone
    <2>2. /\ Climbs(stored, Len(stored) - Len(records), last, Rest, entries)
          /\ published = Len(stored) - Len(records) /\ Spans(ring, stored, published)
      BY <1>1, <2>1 DEF Minted, Committing, Log, FannedOut, Serving, Unannounced, RingEnd
    <2>3. last = Len(stored)
      BY <2>0, <2>2, ClimbsEnd
    <2>4. Len(entries) = Len(records) /\ published + Len(entries) = Len(stored)
      <3>1. last = (Len(stored) - Len(records)) + Len(entries)
        BY <2>2 DEF Climbs
      <3>2. Len(entries) \in Nat
        BY <1>2
      <3>3. /\ published = Len(stored) - Len(records)
            /\ Len(stored) \in Nat /\ Len(records) \in Nat
        BY <1>2, <2>2
      <3>. QED
        BY <2>3, <3>1, <3>2, <3>3
    <2>5. \A i \in 1..Len(entries) :
             entries[i].version = published + i /\ Mirrors(stored, entries[i])
      BY <2>2 DEF Climbs
    <2>6. Spans(RingPush(ring, entries), stored, published + Len(entries))
      BY <1>2, <2>2, <2>5, SpansPush
    <2>7. /\ Spans(ring', stored', Len(stored')) /\ Serving'
          /\ RingEnd' = Len(stored') /\ published' = Len(stored') - Unannounced'
      <3>1. CASE entries = <<>>
        <4>1. Len(records) = 0 /\ pc' = "acknowledge"
          BY <2>1, <2>4, <3>1
        <4>. QED
          BY <1>2, <2>1, <2>2, <2>4, <2>6, <4>1 DEF Serving, RingEnd, Unannounced
      <3>2. CASE entries # <<>>
        BY <1>2, <2>1, <2>2, <2>4, <2>6, <3>2 DEF Serving, RingEnd, Unannounced
      <3>. QED
        BY <3>1, <3>2
    <2>. QED
      BY <2>7 DEF FannedOut
  <1>16. CASE Announce
    <2>1. /\ pc = "announce" /\ pc' \in {"checkpoint", "floor"} /\ published' = watermark
          /\ UNCHANGED <<ring, stored>>
      BY <1>16 DEF Announce, storeVars
    <2>2. watermark = Len(stored)
      BY <1>1, <2>1 DEF Agreement
    <2>3. Spans(ring, stored, Len(stored))
      BY <2>1 DEF FannedOut, RingEnd
    <2>4. Serving' /\ RingEnd' = Len(stored) /\ Unannounced' = 0
      BY <2>1, <2>2 DEF Serving, RingEnd, Unannounced
    <2>. QED
      BY <1>2, <2>1, <2>2, <2>3, <2>4 DEF FannedOut
  <1>17. CASE AutoCheckpoint \/ PublishFloor
    <2>1. /\ pc \in {"checkpoint", "floor"} /\ pc' \in {"floor", "acknowledge"}
          /\ UNCHANGED <<ring, published, stored>>
      BY <1>17 DEF AutoCheckpoint, PublishFloor, Checkpoint, CheckpointRefused,
                   CheckpointLate, storeVars, sharedVars
    <2>. QED
      BY <2>1, FannedSettled DEF Settled, Points, Serving
  <1>18. CASE Acknowledge
    <2>1. pc = "acknowledge" /\ UNCHANGED <<ring, published, stored>>
      BY <1>18 DEF Acknowledge, storeVars, sharedVars
    <2>2. CASE Len(jobs) > 1
      BY <1>18, <2>1, <2>2, FannedSame DEF Acknowledge
    <2>3. CASE ~(Len(jobs) > 1)
      <3>1. Restarted
        BY <1>18, <2>3, Restarting DEF Acknowledge
      <3>. QED
        BY <2>1, <3>1, FannedRestart
    <2>. QED
      BY <2>2, <2>3
  <1>19. ASSUME NEW kind \in CrashKinds, Crash(kind)
         PROVE  FannedOut'
    BY <1>19 DEF Crash, FannedOut, Serving, Spans
  <1>20. CASE Load \/ LoadFails \/ Replay
    <2>1. ~Serving /\ ~Serving' /\ UNCHANGED <<ring, published, stored>>
      BY <1>20 DEF Load, LoadFails, Replay, Serving, storeVars, sharedVars
    <2>2. ring' = <<>>
      BY <2>1 DEF FannedOut
    <2>. QED
      BY <2>1, <2>2 DEF FannedOut, Spans
  <1>21. CASE Recovered
    <2>1. /\ pc = "replay" /\ pc' = "idle" /\ published' = Version
          /\ UNCHANGED <<ring, stored>> /\ Version >= Len(stored)
      BY <1>21 DEF Recovered, storeVars
    <2>2. ring' = <<>>
      BY <2>1 DEF FannedOut, Serving
    <2>3. Version = Len(stored)
      <3>1. Version <= Len(stored) /\ Version \in Nat
        BY <1>1, <2>1, MemTypes DEF Agreement, TypeInv, TypeOK
      <3>. QED
        BY <1>2, <2>1, <3>1
    <2>4. Spans(ring, stored, RingEnd)'
      BY <2>2 DEF Spans
    <2>. QED
      BY <1>2, <2>1, <2>2, <2>3, <2>4 DEF FannedOut, Serving, Unannounced
  <1>22. CASE Refuse
    BY <1>22, FannedSame DEF Refuse, commitVars, storeVars, sharedVars
  <1>23. CASE Quiet \/ UNCHANGED vars
    BY <1>23, FannedSame DEF Quiet, vars, commitVars, storeVars, sharedVars
  <1>. QED
    BY <1>3, <1>4, <1>5, <1>6, <1>7, <1>8, <1>9, <1>10, <1>11, <1>12, <1>13, <1>14,
       <1>15, <1>16, <1>17, <1>18, <1>19, <1>20, <1>21, <1>22, <1>23
       DEF Next, Actor, Drain, Fold, Store, Publish, Open

\* The watermark subscribers read never goes back while the log is served, and a
\* recovered log starts it at its end.
LEMMA WatermarkClimbs ==
    ASSUME AckInv, FannedOut, [Next]_vars, Serving'
    PROVE  /\ Serving => published <= published'
           /\ ~Serving => published' = Len(stored)
  <1>1. TypeInv /\ Agreement
    BY DEF AckInv, IInv, TypeInv
  <1>2. published \in Nat /\ Len(stored) \in Nat /\ Len(records) \in Nat
    BY <1>1, CommitFacts DEF TypeInv, TypeOK, SharedTypes
  <1>3. CASE published' = published /\ Serving
    BY <1>2, <1>3
  <1>4. ASSUME NEW r \in Req, NEW c \in Commands, Submit(r, c), ~Serving
        PROVE  FALSE
    BY <1>4 DEF Submit, Serving
  <1>5. ASSUME NEW r \in Req, NEW c \in Commands, Submit(r, c), Serving
        PROVE  published' = published
    BY <1>5 DEF Submit, sharedVars
  <1>6. CASE Receive \/ Gather \/ Gathered \/ Drain
    BY <1>3, <1>6 DEF Receive, Gather, Take, Gathered, Drain, DrainAppend, Flush, Drained,
       AnswerView, AnswerCheckpoint, Reading, sharedVars, Serving
  <1>7. CASE Fold \/ Store
    BY <1>3, <1>7 DEF Fold, FoldPatch, NextJob, RejectPatch, Folded, InBatch, Store,
       Write, WriteFails, Sync, SyncFails, sharedVars, Serving
  <1>8. CASE Assign \/ NextShare \/ Push \/ AutoCheckpoint \/ PublishFloor \/ Acknowledge
    BY <1>3, <1>8 DEF Assign, NextShare, Push, AutoCheckpoint, PublishFloor, Acknowledge, sharedVars,
       Serving
  <1>9. CASE Announce
    <2>1. pc = "announce" /\ published' = watermark
      BY <1>9 DEF Announce
    <2>2. watermark = Len(stored)
      BY <1>1, <2>1 DEF Agreement
    <2>3. Serving /\ published = Len(stored) - Len(records)
      BY <2>1 DEF Serving, FannedOut, Unannounced
    <2>. QED
      BY <1>2, <2>1, <2>2, <2>3
  <1>10. CASE Recovered
    <2>1. pc = "replay" /\ published' = Version /\ Version >= Len(stored)
      BY <1>10 DEF Recovered
    <2>2. Version <= Len(stored) /\ Version \in Nat
      BY <1>1, <2>1, MemTypes DEF Agreement, TypeInv, TypeOK
    <2>. QED
      BY <1>2, <2>1, <2>2 DEF Serving
  <1>11. CASE Replay \/ Refuse \/ Load \/ LoadFails \/ \E kind \in CrashKinds : Crash(kind)
    BY <1>11 DEF Replay, Refuse, Load, LoadFails, Crash, Serving
  <1>12. CASE Quiet \/ UNCHANGED vars
    BY <1>2, <1>12 DEF Quiet, vars, sharedVars, Serving
  <1>. QED
    BY <1>3, <1>4, <1>5, <1>6, <1>7, <1>8, <1>9, <1>10, <1>11, <1>12
       DEF Next, Actor, Publish, Open

\* A version is acknowledged after the watermark has passed it, and the watermark stays.
LEMMA PublishedNext ==
    ASSUME AckInv, FannedOut, AckIsPublished, [Next]_vars
    PROVE  AckIsPublished'
  <1>. SUFFICES ASSUME NEW r \in Req, Acked(r)', Serving',
                       cmd'[r].durability = Durable \/ cuts' = 0,
                       NEW v \in reply'[r].versions
                PROVE  v <= published'
    BY DEF AckIsPublished
  <1>1. TypeInv /\ Allotted /\ AcksSurvive /\ Surviving
    BY LogSurvives DEF AckInv, IInv, TypeInv
  <1>2. published \in Nat /\ published' \in Nat /\ Len(stored) \in Nat
    <2>1. TypeInv'
      BY TypeNext DEF AckInv
    <2>. QED
      BY <1>1, <2>1, CommitFacts DEF TypeInv, TypeOK, SharedTypes
  <1>3. CASE NewAck(r)
    <2>1. /\ pc = "acknowledge" /\ v \in Head(acks)
      BY <1>3 DEF NewAck, Reply
    <2>2. 1 \in DOMAIN acks /\ acks[1] = Head(acks)
      <3>1. jobs # <<>> /\ jobs \in Seq(Req) /\ acks \in Seq(SUBSET Nat) /\ Len(acks) = Len(jobs)
        BY <1>1, <2>1 DEF TypeInv, TypeOK, CommitTypes, Bookkeeping, Committing
      <3>. QED
        BY <3>1
    <2>5. v \in 1..Len(stored)
      BY <1>1, <2>1, <2>2 DEF Allotted, Committing
    <2>6. Serving /\ published = Len(stored)
      BY <1>2, <2>1 DEF Serving, FannedOut, Unannounced
    <2>7. published <= published'
      BY <2>6, WatermarkClimbs
    <2>. QED
      BY <1>2, <2>5, <2>6, <2>7
  <1>4. CASE Acked(r) /\ reply'[r] = reply[r] /\ cmd'[r] = cmd[r]
    <2>1. cmd[r].durability = Durable \/ cuts = 0
      BY <1>1, <1>4 DEF Surviving
    <2>2. v \in 1..Len(stored)
      BY <1>1, <1>4, <2>1 DEF AcksSurvive, Recorded
    <2>3. CASE Serving
      <3>1. v <= published
        BY <1>4, <2>1, <2>3 DEF AckIsPublished
      <3>2. published <= published'
        BY <2>3, WatermarkClimbs
      <3>. QED
        BY <1>2, <2>2, <3>1, <3>2
    <2>4. CASE ~Serving
      <3>1. published' = Len(stored)
        BY <2>4, WatermarkClimbs
      <3>. QED
        BY <2>2, <3>1
    <2>. QED
      BY <2>3, <2>4
  <1>. QED
    BY <1>1, <1>3, <1>4, AcksAreKept

\* RingInv holds initially.
LEMMA RingInvInit == Init => RingInv
  <1>. SUFFICES ASSUME Init PROVE RingInv
    OBVIOUS
  <1>1. AckInv
    BY AckInvInit
  <1>2. FannedOut
    BY DEF Init, FannedOut, Serving, Unannounced, Spans
  <1>3. AckIsPublished
    BY DEF Init, AckIsPublished, Acked, Failure, Reply
  <1>. QED
    BY <1>1, <1>2, <1>3 DEF RingInv

\* RingInv is preserved by every step, unless a flush fails.
LEMMA RingInvNext == "sync" \notin Faults /\ RingInv /\ [Next]_vars => RingInv'
  BY AckInvNext, FannedNext, PublishedNext DEF RingInv

\* What RingInv says of the ring is what subscribers rely on.
LEMMA RingInvSuffices == RingInv => SubscribersSeeTheLog
  <1>. SUFFICES ASSUME RingInv PROVE SubscribersSeeTheLog
    OBVIOUS
  <1>1. /\ TypeInv /\ FannedOut /\ AckIsPublished
    BY DEF RingInv, AckInv, IInv, TypeInv
  <1>2. /\ ring \in Seq(Entry) /\ Len(ring) \in Nat /\ Len(stored) \in Nat
        /\ published \in Nat /\ RingEnd \in Nat /\ DOMAIN ring = 1..Len(ring)
    <2>1. ring \in Seq(Entry) /\ Len(stored) \in Nat /\ published \in Nat
      BY <1>1, CommitFacts DEF TypeInv, TypeOK, SharedTypes
    <2>. QED
      BY <2>1 DEF RingEnd
  <1>3. \A i \in 1..Len(ring) :
           /\ ring[i].version = RingEnd - Len(ring) + i
           /\ ring[i].version \in 1..Len(stored)
           /\ ring[i].patch = stored[ring[i].version].patch
    BY <1>1 DEF FannedOut, Spans
  <1>4. RingHasNoHole
    <2>. SUFFICES ASSUME NEW i \in DOMAIN ring
                  PROVE  ring[i].version = ring[1].version + i - 1
      BY DEF RingHasNoHole
    <2>1. i \in 1..Len(ring) /\ 1 \in 1..Len(ring)
      BY <1>2
    <2>2. /\ ring[i].version = RingEnd - Len(ring) + i
          /\ ring[1].version = RingEnd - Len(ring) + 1
      BY <1>3, <2>1
    <2>. QED
      BY <1>2, <2>2
  <1>5. ring # <<>> /\ pc # "announce" => ring[Len(ring)].version = published
    <2>. SUFFICES ASSUME ring # <<>>, pc # "announce"
                  PROVE  ring[Len(ring)].version = published
      OBVIOUS
    <2>1. Len(ring) \in 1..Len(ring)
      BY <1>2
    <2>2. ring[Len(ring)].version = RingEnd - Len(ring) + Len(ring)
      BY <1>3, <2>1
    <2>. QED
      BY <1>2, <2>2 DEF RingEnd
  <1>6. Serving /\ pc \in {"idle", "gather", "drain"} => published = Len(stored)
    BY <1>1, <1>2 DEF FannedOut, Unannounced
  <1>. QED
    BY <1>1, <1>2, <1>3, <1>4, <1>5, <1>6 DEF SubscribersSeeTheLog, RingMirrorsLog

\* Fan-out, as actor.rs promises it: unless a sync fails, stream tasks read a ring
\* without holes that carries the log's own patches and ends at the watermark,
\* and a version is announced before anyone hears it acknowledged.
THEOREM SubscribersFollowLog ==
    ASSUME "sync" \notin Faults
    PROVE  Spec => []SubscribersSeeTheLog
  <1>1. RingInv /\ [Next]_vars => RingInv'
    BY RingInvNext
  <1>. QED
    BY <1>1, RingInvInit, RingInvSuffices, PTL DEF Spec

-----------------------------------------------------------------------------
(* The line of waiting commands, as facts about sequences. *)

\* The sequence t is s without its k-th element.
Without(s, t, k) ==
    /\ k \in 1..Len(s) /\ Len(t) = Len(s) - 1
    /\ \A i \in 1..Len(t) : t[i] = IF i < k THEN s[i] ELSE s[i + 1]

\* A sequence of one element.
LEMMA Unit ==
    ASSUME NEW S, NEW s \in Seq(S)
    PROVE  <<>> \o s = s /\ s \o <<>> = s
  OBVIOUS

\* Moving the head of one queue to the end of the one before it.
LEMMA Moved ==
    ASSUME NEW S, NEW a \in Seq(S), NEW b \in Seq(S), NEW c \in Seq(S), b # <<>>
    PROVE  /\ Append(a, Head(b)) \o Tail(b) = a \o b
           /\ Append(a, Head(b)) \o (Tail(b) \o c) = a \o (b \o c)
           /\ <<Head(b)>> \o (Tail(b) \o c) = b \o c
  <1>1. b = <<Head(b)>> \o Tail(b)
    OBVIOUS
  <1>2. Append(a, Head(b)) = a \o <<Head(b)>>
    BY Ends
  <1>3. Head(b) \in S /\ Tail(b) \in Seq(S) /\ <<Head(b)>> \in Seq(S)
    BY Ends
  <1>4. (a \o <<Head(b)>>) \o Tail(b) = a \o (<<Head(b)>> \o Tail(b))
    BY <1>3
  <1>5. <<Head(b)>> \o (Tail(b) \o c) = (<<Head(b)>> \o Tail(b)) \o c
    BY <1>3
  <1>6. (a \o <<Head(b)>>) \o (Tail(b) \o c) = a \o (<<Head(b)>> \o (Tail(b) \o c))
    BY <1>3
  <1>. QED
    BY <1>1, <1>2, <1>4, <1>5, <1>6

\* Taking the head out of a queue, with or without one before it.
LEMMA Removed ==
    ASSUME NEW S, NEW a \in Seq(S), NEW b \in Seq(S), NEW c \in Seq(S), b # <<>>
    PROVE  /\ Without(b \o c, Tail(b) \o c, 1) /\ (b \o c)[1] = Head(b)
           /\ Without(a \o (b \o c), a \o (Tail(b) \o c), Len(a) + 1)
           /\ (a \o (b \o c))[Len(a) + 1] = Head(b)
  <1>1. /\ Len(b) \in Nat \ {0} /\ Tail(b) \in Seq(S) /\ Len(Tail(b)) = Len(b) - 1
        /\ Head(b) = b[1]
    BY Ends
  <1>2. \A i \in 1..Len(Tail(b)) : Tail(b)[i] = b[i + 1]
    BY HeadTailProperties
  <1>. DEFINE s == b \o c
              t == Tail(b) \o c
  <1>3. /\ s \in Seq(S) /\ t \in Seq(S)
        /\ Len(s) = Len(b) + Len(c) /\ Len(t) = Len(b) - 1 + Len(c) /\ Len(c) \in Nat
        /\ \A i \in 1..Len(b) : s[i] = b[i]
        /\ \A i \in 1..Len(c) : s[Len(b) + i] = c[i]
        /\ \A i \in 1..Len(Tail(b)) : t[i] = Tail(b)[i]
        /\ \A i \in 1..Len(c) : t[Len(Tail(b)) + i] = c[i]
    BY <1>1
  <1>. HIDE DEF s, t
  <1>4. ASSUME NEW i \in 1..Len(t)
        PROVE  t[i] = s[i + 1]
    <2>1. CASE i \in 1..Len(Tail(b))
      <3>1. i + 1 \in 1..Len(b)
        BY <1>1, <2>1
      <3>. QED
        BY <1>2, <1>3, <2>1, <3>1
    <2>2. CASE i \notin 1..Len(Tail(b))
      <3>. DEFINE j == i - Len(Tail(b))
      <3>1. j \in 1..Len(c) /\ i = Len(Tail(b)) + j /\ i + 1 = Len(b) + j
        BY <1>1, <1>3, <2>2
      <3>. HIDE DEF j
      <3>. QED
        BY <1>3, <3>1
    <2>. QED
      BY <2>1, <2>2
  <1>5. Without(s, t, 1) /\ s[1] = Head(b)
    BY <1>1, <1>3, <1>4 DEF Without
  <1>. DEFINE u == a \o s
              w == a \o t
  <1>6. /\ Len(u) = Len(a) + Len(s) /\ Len(w) = Len(a) + Len(t) /\ Len(a) \in Nat
        /\ Len(s) \in Nat /\ Len(t) = Len(s) - 1
        /\ \A i \in 1..Len(a) : u[i] = a[i] /\ w[i] = a[i]
        /\ \A i \in 1..Len(s) : u[Len(a) + i] = s[i]
        /\ \A i \in 1..Len(t) : w[Len(a) + i] = t[i]
    <2>1. s \in Seq(S) /\ t \in Seq(S)
      BY <1>3
    <2>2. /\ Len(u) = Len(a) + Len(s) /\ \A i \in 1..Len(a) : u[i] = a[i]
          /\ \A i \in 1..Len(s) : u[Len(a) + i] = s[i]
      BY <2>1
    <2>3. /\ Len(w) = Len(a) + Len(t) /\ \A i \in 1..Len(a) : w[i] = a[i]
          /\ \A i \in 1..Len(t) : w[Len(a) + i] = t[i]
      BY <2>1
    <2>4. Len(s) \in Nat /\ Len(t) = Len(s) - 1 /\ Len(a) \in Nat
      BY <1>1, <1>3, <2>1
    <2>. QED
      BY <2>2, <2>3, <2>4
  <1>. HIDE DEF u, w
  <1>7. ASSUME NEW i \in 1..Len(w)
        PROVE  w[i] = IF i < Len(a) + 1 THEN u[i] ELSE u[i + 1]
    <2>1. CASE i \in 1..Len(a)
      <3>1. i < Len(a) + 1
        BY <1>6, <2>1
      <3>. QED
        BY <1>6, <2>1, <3>1
    <2>2. CASE i \notin 1..Len(a)
      <3>. DEFINE j == i - Len(a)
      <3>1. /\ j \in 1..Len(t) /\ j + 1 \in 1..Len(s) /\ ~(i < Len(a) + 1)
            /\ i = Len(a) + j /\ i + 1 = Len(a) + (j + 1)
        BY <1>6, <2>2
      <3>. HIDE DEF j
      <3>2. w[i] = t[j] /\ u[i + 1] = s[j + 1]
        BY <1>6, <3>1
      <3>. QED
        BY <1>4, <3>1, <3>2
    <2>. QED
      BY <2>1, <2>2
  <1>8. Len(a) + 1 \in 1..Len(u) /\ Len(w) = Len(u) - 1
    BY <1>1, <1>3, <1>6
  <1>9. Without(u, w, Len(a) + 1)
    BY <1>7, <1>8 DEF Without
  <1>10. u[Len(a) + 1] = Head(b)
    <2>1. 1 \in 1..Len(s)
      BY <1>1, <1>3
    <2>. QED
      BY <1>5, <1>6, <2>1
  <1>. QED
    BY <1>5, <1>9, <1>10 DEF s, t, u, w

-----------------------------------------------------------------------------
(* Where commands wait. *)

\* The queues of the line, and their types.
LEMMA LineTypes ==
    ASSUME TypeInv
    PROVE  /\ jobs \in Seq(Req) /\ solo \in Seq(Req) /\ batch \in Seq(Req)
           /\ queue \in Seq(Req) /\ inbox \in Seq(Req)
           /\ queue \o inbox \in Seq(Req) /\ batch \o (queue \o inbox) \in Seq(Req)
           /\ solo \o (batch \o (queue \o inbox)) \in Seq(Req)
           /\ Line \in Seq(Req)
  <1>1. /\ jobs \in Seq(Req) /\ solo \in Seq(Req) /\ batch \in Seq(Req)
        /\ queue \in Seq(Req) /\ inbox \in Seq(Req)
    BY DEF TypeInv, TypeOK, ActorTypes, CommitTypes
  <1>2. queue \o inbox \in Seq(Req)
    BY <1>1
  <1>3. batch \o (queue \o inbox) \in Seq(Req)
    BY <1>1, <1>2
  <1>4. solo \o (batch \o (queue \o inbox)) \in Seq(Req)
    BY <1>1, <1>3
  <1>5. jobs \o (solo \o (batch \o (queue \o inbox))) \in Seq(Req)
    BY <1>1, <1>4
  <1>. QED
    BY <1>1, <1>2, <1>3, <1>4, <1>5 DEF Line

\* The two ways the code asks whether a batch has several requests.
LEMMA MoreThanOne == \A n \in Nat \ {0} : n > 1 <=> n # 1
  OBVIOUS

\* What a commit that begins or ends does with the queues of its jobs.
LEMMA PlacedRestart ==
    ASSUME TypeInv, Placed, pc \in Committing, batch' = batch, queue' = queue,
           \/ Len(jobs) = 1 /\ Proceed
           \/ \E code : Isolate(code)
    PROVE  Placed'
  <1>1. batch = <<>> /\ solo \in Seq(Req)
    BY LineTypes DEF Placed
  <1>2. CASE Proceed
    <2>1. CASE solo # <<>>
      <3>1. pc' = "fold" /\ jobs' = <<Head(solo)>>
        BY <1>2, <2>1 DEF Proceed, Begin
      <3>2. Len(jobs') = 1
        BY <3>1
      <3>. QED
        BY <1>1, <3>1, <3>2 DEF Placed, Committing
    <2>2. CASE solo = <<>>
      BY <1>1, <1>2, <2>2 DEF Proceed, Placed, Committing
    <2>. QED
      BY <2>1, <2>2
  <1>3. ASSUME NEW code, Isolate(code), ~Proceed
        PROVE  Placed'
    <2>1. pc' = "fold" /\ jobs' = <<Head(jobs)>>
      BY <1>3 DEF Isolate, Begin
    <2>2. Len(jobs') = 1
      BY <2>1
    <2>. QED
      BY <1>1, <2>1, <2>2 DEF Placed, Committing
  <1>. QED
    BY <1>2, <1>3

\* Every action keeps the commands where the actor is.
LEMMA PlacedNext == IInv /\ Placed /\ [Next]_vars => Placed'
  <1>. SUFFICES ASSUME IInv, Placed, [Next]_vars PROVE Placed'
    OBVIOUS
  <1>1. TypeInv
    BY DEF IInv, TypeInv
  <1>2. ASSUME UNCHANGED <<pc, jobs, solo, batch, queue>>
        PROVE  Placed'
    BY <1>2 DEF Placed
  <1>3. ASSUME UNCHANGED <<jobs, solo, batch, queue>>, pc \in Committing, pc' \in Committing
        PROVE  Placed'
    BY <1>3 DEF Placed, Committing
  <1>4. ASSUME NEW r \in Req, NEW c \in Commands, Submit(r, c)
        PROVE  Placed'
    BY <1>2, <1>4 DEF Submit, actorVars, commitVars
  <1>5. CASE Receive \/ Gather \/ Gathered
    BY <1>5 DEF Receive, Gather, Take, Gathered, commitVars, Placed, Committing
  <1>6. CASE DrainAppend
    BY <1>6 DEF DrainAppend, commitVars, Placed, Committing
  <1>7. CASE AnswerView \/ AnswerCheckpoint
    BY <1>7 DEF AnswerView, AnswerCheckpoint, Reading, commitVars, Placed, Committing
  <1>8. CASE Flush
    <2>1. pc = "drain" /\ pc' = "fold" /\ jobs' = batch /\ batch' = <<>> /\ solo' = solo
      BY <1>8 DEF Flush, Begin
    <2>. QED
      BY <2>1 DEF Placed, Committing
  <1>9. CASE Drained
    BY <1>9 DEF Drained, actorVars, commitVars, Placed, Committing
  <1>10. CASE FoldPatch \/ NextJob
    BY <1>2, <1>10 DEF FoldPatch, NextJob, actorVars
  <1>11. CASE RejectPatch \/ WriteFails \/ SyncFails
    <2>1. /\ pc \in Committing /\ batch' = batch /\ queue' = queue
          /\ \E code : Isolate(code)
      BY <1>11 DEF RejectPatch, WriteFails, SyncFails, InBatch, Committing
    <2>. QED
      BY <1>1, <2>1, PlacedRestart
  <1>12. CASE Folded \/ Write \/ Sync
    BY <1>3, <1>12 DEF Folded, Write, Sync, actorVars, commitVars, Committing
  <1>13. CASE Assign \/ NextShare \/ Push \/ Announce \/ AutoCheckpoint \/ PublishFloor
    BY <1>3, <1>13 DEF Assign, NextShare, Push, Announce, AutoCheckpoint, PublishFloor, actorVars,
       commitVars, Committing
  <1>14. CASE Acknowledge
    <2>1. pc = "acknowledge" /\ batch' = batch /\ queue' = queue
      BY <1>14 DEF Acknowledge
    <2>2. Len(jobs) \in Nat \ {0}
      <3>1. jobs \in Seq(Req) /\ jobs # <<>>
        BY <1>1, <2>1, LineTypes DEF TypeInv, Bookkeeping, Committing
      <3>. QED
        BY <3>1, Ends
    <2>3. CASE Len(jobs) > 1
      <3>1. pc' = pc /\ solo' = solo /\ jobs' = Tail(jobs)
        BY <1>14, <2>3 DEF Acknowledge
      <3>2. solo = <<>>
        <4>1. Len(jobs) # 1
          BY <2>2, <2>3, MoreThanOne
        <4>. QED
          BY <4>1 DEF Placed
      <3>. QED
        BY <2>1, <3>1, <3>2 DEF Placed, Committing
    <2>4. CASE ~(Len(jobs) > 1)
      <3>1. Len(jobs) = 1
        BY <2>2, <2>4
      <3>2. Proceed
        BY <1>14, <2>4 DEF Acknowledge
      <3>. QED
        BY <1>1, <2>1, <3>1, <3>2, PlacedRestart DEF Committing
    <2>. QED
      BY <2>3, <2>4
  <1>15. ASSUME NEW kind \in CrashKinds, Crash(kind)
         PROVE  Placed'
    BY <1>15 DEF Crash, Placed, Committing
  <1>16. CASE Load \/ LoadFails \/ Replay
    BY <1>16 DEF Load, LoadFails, Replay, actorVars, commitVars, Placed, Committing
  <1>17. CASE Recovered
    BY <1>17 DEF Recovered, Placed, Committing
  <1>18. CASE Refuse \/ Quiet \/ UNCHANGED vars
    BY <1>2, <1>18 DEF Refuse, Quiet, vars, actorVars, commitVars
  <1>. QED
    BY <1>4, <1>5, <1>6, <1>7, <1>8, <1>9, <1>10, <1>11, <1>12, <1>13, <1>14, <1>15,
       <1>16, <1>17, <1>18 DEF Next, Actor, Drain, Fold, Store, Publish, Open

-----------------------------------------------------------------------------
(* What a step does to the line: nobody moves, one joins at the end, one     *)
(* leaves with an answer, or everybody is lost.                              *)

Stays == Line' = Line /\ UNCHANGED <<ahead, reply>>

Joins(r) ==
    /\ reply[r].status = "unsent" /\ Line' = Append(Line, r)
    /\ ahead' = [ahead EXCEPT ![r] = Sent]
    /\ reply' = [reply EXCEPT ![r] = Failure("queued")]

IsAnswer(rep) ==
    /\ rep.status \notin {"unsent", "queued"}
    /\ rep.status # "ok" => rep.versions = {}

Leaves(k, rep) ==
    /\ Without(Line, Line', k) /\ IsAnswer(rep)
    /\ ahead' = ahead /\ reply' = [reply EXCEPT ![Line[k]] = rep]

AllLost ==
    /\ Line' = <<>> /\ ahead' = ahead
    /\ reply' = [r \in Req |-> IF reply[r].status = "queued" THEN Failure("lost")
                               ELSE reply[r]]

\* A failure answers its request.
LEMMA FailureIsAnswer ==
    ASSUME NEW code, code \notin {"unsent", "queued", "ok"}
    PROVE  IsAnswer(Failure(code))
  BY DEF IsAnswer, Failure, Reply

\* So does a reply that is in order.
LEMMA ReplyIsAnswer ==
    ASSUME NEW vs, NEW n, NEW s
    PROVE  IsAnswer(Reply("ok", vs, n, s))
  BY DEF IsAnswer, Reply

\* The last job of a commit leaves, and the next one of an isolated batch moves up.
LEMMA LineProceed ==
    ASSUME TypeInv, jobs # <<>>, Len(jobs) = 1, Proceed, UNCHANGED <<batch, queue, inbox>>
    PROVE  Without(Line, Line', 1) /\ Line[1] = Head(jobs)
  <1>. DEFINE tail == batch \o (queue \o inbox)
              rest == solo \o tail
  <1>1. /\ jobs \in Seq(Req) /\ solo \in Seq(Req) /\ tail \in Seq(Req)
        /\ rest \in Seq(Req) /\ Line = jobs \o rest
    BY LineTypes DEF Line
  <1>2. Line' = jobs' \o (solo' \o tail)
    BY DEF Line
  <1>. HIDE DEF tail
  <1>3. Without(jobs \o rest, Tail(jobs) \o rest, 1) /\ (jobs \o rest)[1] = Head(jobs)
    BY <1>1, Removed
  <1>4. Tail(jobs) = <<>>
    <2>1. Tail(jobs) \in Seq(Req) /\ Len(Tail(jobs)) = Len(jobs) - 1
      BY <1>1, Ends
    <2>2. Len(Tail(jobs)) = 0
      BY <2>1
    <2>. QED
      BY <2>1, <2>2, EmptySeq
  <1>5. Tail(jobs) \o rest = rest
    BY <1>1, <1>4, Unit
  <1>6. Line' = rest
    <2>1. CASE solo # <<>>
      <3>1. jobs' = <<Head(solo)>> /\ solo' = Tail(solo)
        BY <2>1 DEF Proceed, Begin
      <3>2. <<Head(solo)>> \o (Tail(solo) \o tail) = solo \o tail
        BY <1>1, <2>1, Moved
      <3>. QED
        BY <1>2, <3>1, <3>2
    <2>2. CASE solo = <<>>
      <3>1. jobs' = <<>> /\ solo' = solo
        BY <2>2 DEF Proceed
      <3>2. <<>> \o (solo \o tail) = solo \o tail
        BY <1>1, Unit
      <3>. QED
        BY <1>2, <3>1, <3>2
    <2>. QED
      BY <2>1, <2>2
  <1>. QED
    BY <1>1, <1>3, <1>5, <1>6

\* A batch that fails: its only job leaves with the failure, or all of them stay
\* in line to be committed one by one.
LEMMA LineIsolate ==
    ASSUME TypeInv, Placed, pc \in Committing, NEW code, Isolate(code),
           code \notin {"unsent", "queued", "ok"}, ahead' = ahead,
           UNCHANGED <<batch, queue, inbox>>
    PROVE  Stays \/ (Leaves(1, Failure(code)) /\ Line[1] = jobs[1])
  <1>1. jobs \in Seq(Req) /\ jobs # <<>> /\ Len(jobs) \in Nat \ {0} /\ Head(jobs) = jobs[1]
    <2>1. jobs \in Seq(Req) /\ jobs # <<>>
      BY LineTypes DEF TypeInv, Bookkeeping
    <2>. QED
      BY <2>1, Ends
  <1>2. CASE Len(jobs) = 1
    <2>1. Proceed /\ reply' = [reply EXCEPT ![jobs[1]] = Failure(code)]
      BY <1>2 DEF Isolate
    <2>2. Without(Line, Line', 1) /\ Line[1] = Head(jobs)
      BY <1>1, <1>2, <2>1, LineProceed
    <2>. QED
      BY <1>1, <2>1, <2>2, FailureIsAnswer DEF Leaves
  <1>3. CASE Len(jobs) # 1
    <2>1. /\ jobs' = <<Head(jobs)>> /\ solo' = Tail(jobs) /\ reply' = reply
      BY <1>3 DEF Isolate, Begin
    <2>2. solo = <<>>
      BY <1>3 DEF Placed
    <2>. DEFINE tail == batch \o (queue \o inbox)
    <2>3. tail \in Seq(Req) /\ Line = jobs \o (solo \o tail)
      BY LineTypes DEF Line
    <2>4. Line' = <<Head(jobs)>> \o (Tail(jobs) \o tail)
      BY <2>1 DEF Line
    <2>. HIDE DEF tail
    <2>5. Line = jobs \o tail
      BY <2>2, <2>3, Unit
    <2>6. Line' = jobs \o tail
      BY <1>1, <2>3, <2>4, Moved
    <2>. QED
      BY <2>1, <2>5, <2>6 DEF Stays
  <1>. QED
    BY <1>2, <1>3

\* A read, or a command the actor refuses, leaves from the front.
LEMMA LineRead ==
    ASSUME TypeInv, jobs = <<>>, solo = <<>>, batch = <<>>, queue # <<>>,
           queue' = Tail(queue), UNCHANGED <<jobs, solo, batch, inbox>>
    PROVE  Without(Line, Line', 1) /\ Line[1] = Head(queue)
  <1>1. queue \in Seq(Req) /\ inbox \in Seq(Req) /\ queue \o inbox \in Seq(Req)
    BY LineTypes
  <1>2. Tail(queue) \in Seq(Req) /\ Tail(queue) \o inbox \in Seq(Req)
    BY <1>1, Ends
  <1>3. Line = queue \o inbox
    BY <1>1, Unit DEF Line
  <1>4. Line' = Tail(queue) \o inbox
    BY <1>2, Unit DEF Line
  <1>. QED
    BY <1>1, <1>3, <1>4, Removed

\* A command moves from one queue of the line to the next.
LEMMA LineTake ==
    ASSUME TypeInv, Take, UNCHANGED jobs
    PROVE  Stays
  <1>1. queue \in Seq(Req) /\ inbox \in Seq(Req)
    BY LineTypes
  <1>2. /\ inbox # <<>> /\ inbox' = Tail(inbox) /\ queue' = Append(queue, Head(inbox))
        /\ UNCHANGED <<batch, solo, ahead, reply>>
    BY DEF Take, clientVars
  <1>3. Append(queue, Head(inbox)) \o Tail(inbox) = queue \o inbox
    BY <1>1, <1>2, Moved
  <1>. QED
    BY <1>2, <1>3 DEF Stays, Line

\* An append moves from the queue to the batch, or leaves refused.
LEMMA LineDrain ==
    ASSUME TypeInv, Placed, DrainAppend
    PROVE  Stays \/ \E k \in 1..Len(Line) : Leaves(k, Failure("rejected"))
  <1>1. /\ queue \in Seq(Req) /\ inbox \in Seq(Req) /\ batch \in Seq(Req)
        /\ batch \o (queue \o inbox) \in Seq(Req)
    BY LineTypes
  <1>2. /\ pc = "drain" /\ queue # <<>> /\ queue' = Tail(queue)
        /\ UNCHANGED <<jobs, solo, inbox, ahead>>
        /\ \/ batch' = Append(batch, Head(queue)) /\ reply' = reply
           \/ /\ batch' = batch
              /\ reply' = [reply EXCEPT ![Head(queue)] = Failure("rejected")]
    BY DEF DrainAppend, commitVars
  <1>3. jobs = <<>> /\ solo = <<>>
    BY <1>2 DEF Placed, Committing
  <1>4. Line = batch \o (queue \o inbox)
    BY <1>1, <1>3, Unit DEF Line
  <1>5. CASE batch' = Append(batch, Head(queue)) /\ reply' = reply
    <2>1. Append(batch, Head(queue)) \o (Tail(queue) \o inbox) = batch \o (queue \o inbox)
      <3>1. /\ queue \in Seq(Req) /\ inbox \in Seq(Req) /\ batch \in Seq(Req)
            /\ queue # <<>>
        BY <1>1, <1>2
      <3>. QED
        BY ONLY <3>1, Moved
    <2>. QED
      BY <1>2, <1>5, <2>1 DEF Stays, Line
  <1>6. CASE /\ batch' = batch
             /\ reply' = [reply EXCEPT ![Head(queue)] = Failure("rejected")]
    <2>1. Tail(queue) \in Seq(Req)
      BY <1>1, <1>2, Ends
    <2>2. batch \o (Tail(queue) \o inbox) \in Seq(Req)
      BY <1>1, <2>1
    <2>3. Line' = batch \o (Tail(queue) \o inbox)
      BY <1>2, <1>3, <1>6, <2>2, Unit DEF Line
    <2>4. /\ Without(Line, Line', Len(batch) + 1) /\ Line[Len(batch) + 1] = Head(queue)
      BY <1>1, <1>2, <1>4, <2>3, Removed
    <2>5. Leaves(Len(batch) + 1, Failure("rejected"))
      BY <1>2, <1>6, <2>4, FailureIsAnswer DEF Leaves
    <2>. QED
      BY <2>5 DEF Leaves, Without
  <1>. QED
    BY <1>2, <1>5, <1>6

\* A commit begins with the gathered appends, which are at the front of the line.
LEMMA LineFlush ==
    ASSUME TypeInv, Placed, Flush
    PROVE  Stays
  <1>. DEFINE tail == queue \o inbox
  <1>1. batch \in Seq(Req) /\ tail \in Seq(Req) /\ batch \o tail \in Seq(Req)
    BY LineTypes
  <1>2. /\ pc = "drain" /\ jobs' = batch /\ batch' = <<>>
        /\ UNCHANGED <<solo, queue, inbox, ahead, reply>>
    BY DEF Flush, Begin, clientVars
  <1>3. jobs = <<>> /\ solo = <<>>
    BY <1>2 DEF Placed, Committing
  <1>4. Line = jobs \o (solo \o (batch \o tail)) /\ Line' = jobs' \o (solo' \o (batch' \o tail))
    BY <1>2 DEF Line
  <1>. HIDE DEF tail
  <1>5. Line = batch \o tail
    BY <1>1, <1>3, <1>4, Unit
  <1>6. Line' = batch \o tail
    BY <1>1, <1>2, <1>3, <1>4, Unit
  <1>. QED
    BY <1>2, <1>5, <1>6 DEF Stays

\* One acknowledgement: the front of the line leaves.
LEMMA LineAcknowledge ==
    ASSUME TypeInv, Placed, Acknowledge
    PROVE  /\ Leaves(1, Reply("ok", Head(acks), claim, Zero))
           /\ Line[1] = Head(jobs)
  <1>1. /\ pc = "acknowledge" /\ UNCHANGED <<ahead, inbox, queue, batch>>
        /\ reply' = [reply EXCEPT ![Head(jobs)] =
                        Reply("ok", Head(acks), claim, Zero)]
    BY DEF Acknowledge
  <1>2. jobs \in Seq(Req) /\ jobs # <<>>
    BY <1>1, LineTypes DEF TypeInv, Bookkeeping, Committing
  <1>3. Len(jobs) \in Nat \ {0}
    BY <1>2, Ends
  <1>4. Without(Line, Line', 1) /\ Line[1] = Head(jobs)
    <2>1. CASE Len(jobs) > 1
      <3>. DEFINE rest == solo \o (batch \o (queue \o inbox))
      <3>1. rest \in Seq(Req) /\ Line = jobs \o rest
        BY LineTypes DEF Line
      <3>2. jobs' = Tail(jobs) /\ solo' = solo
        BY <2>1 DEF Acknowledge
      <3>3. Line' = Tail(jobs) \o rest
        BY <1>1, <3>2 DEF Line
      <3>. HIDE DEF rest
      <3>. QED
        BY <1>2, <3>1, <3>3, Removed
    <2>2. CASE ~(Len(jobs) > 1)
      <3>1. Len(jobs) = 1
        BY <1>3, <2>2, MoreThanOne
      <3>2. Proceed
        BY <2>2 DEF Acknowledge
      <3>. QED
        BY <1>1, <1>2, <3>1, <3>2, LineProceed
    <2>. QED
      BY <2>1, <2>2
  <1>. QED
    BY <1>1, <1>4, ReplyIsAnswer DEF Leaves

\* A view or a checkpoint is answered with nothing waiting ahead of it.
LEMMA LineAnswer ==
    ASSUME TypeInv, Placed, AnswerView \/ AnswerCheckpoint
    PROVE  (\E rep : Leaves(1, rep)) /\ Line[1] = Head(queue) /\ batch = <<>>
  <1>1. /\ pc = "drain" /\ queue # <<>> /\ batch = <<>> /\ queue' = Tail(queue)
        /\ UNCHANGED <<jobs, solo, batch, inbox, ahead>>
    BY DEF AnswerView, AnswerCheckpoint, Reading, commitVars
  <1>2. PICK rep : IsAnswer(rep) /\ reply' = [reply EXCEPT ![Head(queue)] = rep]
    <2>1. CASE AnswerView
      <3>. DEFINE r == Head(queue)
                  latest == cmd[r].kind = "view"
                  v == IF latest THEN Version ELSE cmd[r].at
                  ok == Reply("ok", {v}, synced,
                              IF Reducible THEN mem.states[v - mem.base + 1] ELSE Zero)
      <3>1. reply' = [reply EXCEPT ![r] = IF latest \/ Retained(v) THEN ok
                                          ELSE Failure("out_of_range")]
        BY <2>1 DEF AnswerView
      <3>2. IsAnswer(ok) /\ IsAnswer(Failure("out_of_range"))
        BY ReplyIsAnswer, FailureIsAnswer
      <3>. QED
        BY <3>1, <3>2
    <2>2. CASE AnswerCheckpoint
      <3>1. \/ reply' = [reply EXCEPT ![Head(queue)] = Reply("ok", {}, 0, Zero)]
            \/ reply' = [reply EXCEPT ![Head(queue)] = Failure("storage")]
        BY <2>2 DEF AnswerCheckpoint
      <3>. QED
        BY <3>1, ReplyIsAnswer, FailureIsAnswer
    <2>. QED
      BY <2>1, <2>2
  <1>3. jobs = <<>> /\ solo = <<>>
    BY <1>1 DEF Placed, Committing
  <1>4. Without(Line, Line', 1) /\ Line[1] = Head(queue)
    BY <1>1, <1>3, LineRead
  <1>. QED
    BY <1>1, <1>2, <1>4 DEF Leaves

\* Every step is one of the four.
LEMMA LineNext ==
    ASSUME TypeInv, Placed, [Next]_vars
    PROVE  \/ Stays \/ AllLost
           \/ \E r \in Req : Joins(r)
           \/ \E k \in 1..Len(Line) : \E rep : Leaves(k, rep)
  <1>1. ASSUME \E rep : Leaves(1, rep)
        PROVE  \E k \in 1..Len(Line) : \E rep : Leaves(k, rep)
    BY <1>1 DEF Leaves, Without
  <1>2. ASSUME UNCHANGED <<jobs, solo, batch, queue, inbox, ahead, reply>>
        PROVE  Stays
    BY <1>2 DEF Stays, Line
  <1>3. ASSUME NEW r \in Req, NEW c \in Commands, Submit(r, c)
        PROVE  Joins(r)
    <2>1. /\ reply[r].status = "unsent" /\ inbox' = Append(inbox, r)
          /\ reply' = [reply EXCEPT ![r] = Failure("queued")]
          /\ ahead' = [ahead EXCEPT ![r] = Sent]
          /\ UNCHANGED <<jobs, solo, batch, queue>>
      BY <1>3 DEF Submit, Sent, actorVars, commitVars
    <2>. DEFINE a == queue \o inbox
                b == batch \o a
                d == solo \o b
    <2>2. /\ a \in Seq(Req) /\ b \in Seq(Req) /\ d \in Seq(Req) /\ Line = jobs \o d
          /\ jobs \in Seq(Req) /\ solo \in Seq(Req) /\ batch \in Seq(Req)
          /\ queue \in Seq(Req) /\ inbox \in Seq(Req)
      BY LineTypes DEF Line
    <2>3. queue \o Append(inbox, r) = Append(a, r)
      BY <2>2
    <2>4. Line' = jobs \o (solo \o (batch \o Append(a, r)))
      BY <2>1, <2>3 DEF Line
    <2>. HIDE DEF a
    <2>5. batch \o Append(a, r) = Append(b, r)
      BY <2>2
    <2>. HIDE DEF b
    <2>6. solo \o Append(b, r) = Append(d, r)
      BY <2>2
    <2>. HIDE DEF d
    <2>7. jobs \o Append(d, r) = Append(jobs \o d, r)
      BY <2>2
    <2>. QED
      BY <2>1, <2>2, <2>4, <2>5, <2>6, <2>7 DEF Joins
  <1>4. CASE Receive \/ Gather
    BY <1>4, LineTake DEF Receive, Gather, Take, commitVars
  <1>5. CASE Gathered \/ Drained
    BY <1>2, <1>5 DEF Gathered, Drained, actorVars, commitVars, clientVars
  <1>6. CASE DrainAppend
    BY <1>6, LineDrain
  <1>7. CASE Flush
    BY <1>7, LineFlush
  <1>8. CASE AnswerView \/ AnswerCheckpoint
    BY <1>1, <1>8, LineAnswer
  <1>9. CASE FoldPatch \/ NextJob \/ Folded \/ Write \/ Sync
    BY <1>2, <1>9 DEF FoldPatch, NextJob, Folded, Write, Sync, actorVars, commitVars,
       clientVars
  <1>10. CASE RejectPatch \/ WriteFails \/ SyncFails
    <2>1. PICK code \in {"rejected", "storage"} :
             /\ Isolate(code) /\ pc \in Committing
             /\ UNCHANGED <<ahead, batch, queue, inbox>>
      BY <1>10 DEF RejectPatch, WriteFails, SyncFails, InBatch, Committing
    <2>2. Stays \/ Leaves(1, Failure(code))
      BY <2>1, LineIsolate
    <2>. QED
      BY <1>1, <2>2
  <1>11. CASE Assign \/ NextShare \/ Push \/ Announce \/ AutoCheckpoint \/ PublishFloor
    BY <1>2, <1>11 DEF Assign, NextShare, Push, Announce, AutoCheckpoint, PublishFloor, actorVars,
       commitVars, clientVars
  <1>12. CASE Acknowledge
    BY <1>1, <1>12, LineAcknowledge
  <1>13. ASSUME NEW kind \in CrashKinds, Crash(kind)
         PROVE  AllLost
    BY <1>13 DEF Crash, AllLost, Line
  <1>14. CASE Load \/ LoadFails \/ Replay \/ Recovered
    BY <1>2, <1>14 DEF Load, LoadFails, Replay, Recovered, actorVars, commitVars,
       clientVars
  <1>15. CASE Refuse
    <2>1. /\ pc = "refused" /\ inbox # <<>> /\ inbox' = Tail(inbox)
          /\ reply' = [reply EXCEPT ![Head(inbox)] = Failure("storage")]
          /\ UNCHANGED <<ahead, jobs, solo, batch, queue>>
      BY <1>15 DEF Refuse, actorVars, commitVars
    <2>2. jobs = <<>> /\ solo = <<>> /\ batch = <<>> /\ queue = <<>>
      BY <2>1 DEF Placed, Committing
    <2>3. inbox \in Seq(Req) /\ Tail(inbox) \in Seq(Req) /\ <<>> \in Seq(Req)
      BY <2>1, LineTypes, Ends
    <2>4. Line = inbox /\ Line' = Tail(inbox)
      BY <2>1, <2>2, <2>3, Unit DEF Line
    <2>5. /\ Without(inbox \o <<>>, Tail(inbox) \o <<>>, 1)
          /\ (inbox \o <<>>)[1] = Head(inbox)
      BY <2>1, <2>3, Removed
    <2>6. Without(Line, Line', 1) /\ Line[1] = Head(inbox)
      BY <2>3, <2>4, <2>5, Unit
    <2>7. Leaves(1, Failure("storage"))
      BY <2>1, <2>6, FailureIsAnswer DEF Leaves
    <2>. QED
      BY <1>1, <2>7
  <1>16. CASE Quiet \/ UNCHANGED vars
    BY <1>2, <1>16 DEF Quiet, vars, actorVars, commitVars, clientVars
  <1>. QED
    BY <1>3, <1>4, <1>5, <1>6, <1>7, <1>8, <1>9, <1>10, <1>11, <1>12, <1>13, <1>14,
       <1>15, <1>16 DEF Next, Actor, Drain, Fold, Store, Publish, Open

-----------------------------------------------------------------------------
(* The line stays in the order of sending. *)

\* Nobody is in line twice.
LEMMA LineDistinct ==
    ASSUME TypeInv, InOrder, NEW i \in 1..Len(Line), NEW j \in 1..Len(Line), i # j
    PROVE  Line[i] # Line[j]
  <1>1. Line \in Seq(Req) /\ Line[i] \in Req /\ Line[j] \in Req /\ Len(Line) \in Nat
    BY LineTypes
  <1>2. \A q \in Req : q \notin ahead[q]
    BY DEF InOrder
  <1>3. CASE i < j
    BY <1>1, <1>2, <1>3 DEF InOrder
  <1>4. CASE j < i
    BY <1>1, <1>2, <1>4 DEF InOrder
  <1>. QED
    BY <1>1, <1>3, <1>4

\* Who joins comes behind everybody sent before.
LEMMA OrderJoins ==
    ASSUME TypeInv, InOrder, NEW r \in Req, Joins(r)
    PROVE  InOrder'
  <1>1. /\ Line \in Seq(Req) /\ Len(Line) \in Nat /\ Len(Line') = Len(Line) + 1
        /\ \A i \in 1..Len(Line) : Line'[i] = Line[i] /\ Line[i] \in Req
        /\ Line'[Len(Line) + 1] = r
    BY LineTypes DEF Joins
  <1>2. /\ reply \in [Req -> ReplyType] /\ ahead \in [Req -> SUBSET Req]
    BY DEF TypeInv, TypeOK, ClientTypes, ReplyType
  <1>3. /\ reply[r].status = "unsent" /\ reply'[r].status = "queued"
        /\ \A q \in Req : q # r => reply'[q] = reply[q]
    BY <1>2 DEF Joins, Failure, Reply
  <1>4. ahead'[r] = Sent /\ \A q \in Req : q # r => ahead'[q] = ahead[q]
    BY <1>2 DEF Joins
  <1>5. r \notin Sent /\ Sent \subseteq Sent' /\ Sent \subseteq Req
    BY <1>3 DEF Sent
  <1>6. \A i \in 1..Len(Line) : reply[Line[i]].status = "queued"
    BY <1>1 DEF InOrder
  <1>7. \A i \in 1..Len(Line) : Line[i] # r /\ Line[i] \in Sent
    BY <1>1, <1>3, <1>6 DEF Sent
  <1>8. ASSUME NEW i \in 1..Len(Line'), NEW j \in 1..Len(Line'), i < j
        PROVE  Line'[i] \in ahead'[Line'[j]]
    <2>1. i \in 1..Len(Line) /\ Line'[i] = Line[i]
      BY <1>1, <1>8
    <2>2. CASE j \in 1..Len(Line)
      <3>1. Line'[j] = Line[j] /\ Line[j] # r /\ Line[j] \in Req
        BY <1>1, <1>7, <2>2
      <3>2. ahead'[Line[j]] = ahead[Line[j]]
        BY <1>4, <3>1
      <3>. QED
        BY <1>8, <2>1, <2>2, <3>1, <3>2 DEF InOrder
    <2>3. CASE j = Len(Line) + 1
      BY <1>1, <1>4, <1>7, <2>1, <2>3
    <2>. QED
      BY <1>1, <2>2, <2>3
  <1>9. ASSUME NEW q \in Req
        PROVE  reply'[q].status = "queued" <=> \E i \in 1..Len(Line') : Line'[i] = q
    <2>1. CASE q = r
      <3>1. Len(Line) + 1 \in 1..Len(Line')
        BY <1>1
      <3>. QED
        BY <1>1, <1>3, <2>1, <3>1
    <2>2. CASE q # r
      <3>1. reply'[q].status = "queued" <=> \E i \in 1..Len(Line) : Line[i] = q
        BY <1>3, <2>2 DEF InOrder
      <3>2. \A i \in 1..Len(Line') : i \in 1..Len(Line) \/ i = Len(Line) + 1
        BY <1>1
      <3>3. \A i \in 1..Len(Line) : i \in 1..Len(Line')
        BY <1>1
      <3>. QED
        BY <1>1, <2>2, <3>1, <3>2, <3>3
    <2>. QED
      BY <2>1, <2>2
  <1>10. ASSUME NEW q \in Req, NEW p \in Req, q \in ahead'[p]
         PROVE  q \in Sent' /\ p \notin ahead'[q]
    <2>1. CASE p = r
      <3>1. q \in Sent /\ q # r
        BY <1>4, <1>5, <1>10, <2>1
      <3>. QED
        BY <1>4, <1>5, <2>1, <3>1 DEF InOrder
    <2>2. CASE p # r
      <3>1. q \in ahead[p]
        BY <1>4, <1>10, <2>2
      <3>2. q \in Sent /\ p \notin ahead[q]
        BY <3>1 DEF InOrder
      <3>. QED
        BY <1>4, <1>5, <3>2
    <2>. QED
      BY <2>1, <2>2
  <1>. QED
    BY <1>8, <1>9, <1>10 DEF InOrder

\* Who leaves changes nothing among the others.
LEMMA OrderLeaves ==
    ASSUME TypeInv, InOrder, NEW k \in 1..Len(Line), NEW rep, Leaves(k, rep)
    PROVE  InOrder'
  <1>. DEFINE up(i) == IF i < k THEN i ELSE i + 1
  <1>1. /\ Line \in Seq(Req) /\ Len(Line) \in Nat /\ Len(Line') = Len(Line) - 1
        /\ \A i \in 1..Len(Line) : Line[i] \in Req
        /\ \A i \in 1..Len(Line') : Line'[i] = Line[up(i)]
    BY LineTypes DEF Leaves, Without
  <1>2. \A i \in 1..Len(Line') : up(i) \in 1..Len(Line) /\ up(i) # k
    BY <1>1
  <1>3. \A i, j \in 1..Len(Line') : i < j => up(i) < up(j)
    BY <1>1
  <1>4. ASSUME NEW i \in 1..Len(Line), i # k
        PROVE  \E j \in 1..Len(Line') : up(j) = i
    <2>1. CASE i < k
      <3>1. i \in 1..Len(Line') /\ up(i) = i
        BY <1>1, <2>1
      <3>. QED
        BY <3>1
    <2>2. CASE i > k
      <3>1. i - 1 \in 1..Len(Line') /\ up(i - 1) = i
        BY <1>1, <2>2
      <3>. QED
        BY <3>1
    <2>. QED
      BY <1>1, <1>4, <2>1, <2>2
  <1>5. reply \in [Req -> ReplyType] /\ Line[k] \in Req
    BY <1>1 DEF TypeInv, TypeOK, ClientTypes, ReplyType
  <1>6. /\ ahead' = ahead /\ reply'[Line[k]].status \notin {"queued", "unsent"}
        /\ \A q \in Req : q # Line[k] => reply'[q] = reply[q]
    BY <1>5 DEF Leaves, IsAnswer
  <1>7. \A i \in 1..Len(Line) : i # k => Line[i] # Line[k]
    BY LineDistinct
  <1>. HIDE DEF up
  <1>8. ASSUME NEW i \in 1..Len(Line'), NEW j \in 1..Len(Line'), i < j
        PROVE  Line'[i] \in ahead'[Line'[j]]
    <2>1. up(i) < up(j) /\ up(i) \in 1..Len(Line) /\ up(j) \in 1..Len(Line)
      BY <1>2, <1>3, <1>8
    <2>. QED
      BY <1>1, <1>6, <2>1 DEF InOrder
  <1>9. ASSUME NEW q \in Req
        PROVE  reply'[q].status = "queued" <=> \E i \in 1..Len(Line') : Line'[i] = q
    <2>1. CASE q = Line[k]
      BY <1>1, <1>2, <1>6, <1>7, <2>1
    <2>2. CASE q # Line[k]
      <3>1. reply'[q].status = "queued" <=> \E i \in 1..Len(Line) : Line[i] = q
        BY <1>6, <2>2 DEF InOrder
      <3>2. ASSUME NEW i \in 1..Len(Line), Line[i] = q
            PROVE  \E j \in 1..Len(Line') : Line'[j] = q
        <4>1. i # k
          BY <2>2, <3>2
        <4>2. PICK j \in 1..Len(Line') : up(j) = i
          BY <1>4, <4>1
        <4>. QED
          BY <1>1, <3>2, <4>2
      <3>3. ASSUME NEW j \in 1..Len(Line'), Line'[j] = q
            PROVE  \E i \in 1..Len(Line) : Line[i] = q
        BY <1>1, <1>2, <3>3
      <3>. QED
        BY <3>1, <3>2, <3>3
    <2>. QED
      BY <2>1, <2>2
  <1>10. Sent \subseteq Sent'
    BY <1>6 DEF Sent
  <1>. QED
    BY <1>6, <1>8, <1>9, <1>10 DEF InOrder

\* Every action keeps the line in order.
LEMMA OrderNext == IInv /\ Placed /\ InOrder /\ [Next]_vars => InOrder'
  <1>. SUFFICES ASSUME IInv, Placed, InOrder, [Next]_vars PROVE InOrder'
    OBVIOUS
  <1>1. TypeInv
    BY DEF IInv, TypeInv
  <1>2. CASE Stays
    <2>1. Sent' = Sent
      BY <1>2 DEF Stays, Sent
    <2>. QED
      BY <1>2, <2>1 DEF Stays, InOrder
  <1>3. CASE AllLost
    <2>1. Failure("lost").status = "lost"
      BY DEF Failure, Reply
    <2>2. \A r \in Req : reply'[r].status # "queued"
      BY <1>3, <2>1 DEF AllLost
    <2>3. Sent \subseteq Sent'
      BY <1>3, <2>1 DEF AllLost, Sent
    <2>4. Line' = <<>> /\ ahead' = ahead
      BY <1>3 DEF AllLost
    <2>5. 1..Len(Line') = {}
      BY <2>4
    <2>. QED
      BY <2>2, <2>3, <2>4, <2>5 DEF InOrder
  <1>. QED
    BY <1>1, <1>2, <1>3, LineNext, OrderJoins, OrderLeaves

\* An answer, once given, is never changed.
LEMMA AnswersStay ==
    ASSUME IInv, Placed, InOrder, [Next]_vars, NEW r \in Req,
           reply[r].status \notin {"unsent", "queued"}
    PROVE  reply'[r] = reply[r]
  <1>1. TypeInv /\ reply \in [Req -> ReplyType]
    BY DEF IInv, TypeInv, TypeOK, ClientTypes, ReplyType
  <1>2. ASSUME NEW k \in 1..Len(Line), NEW rep, Leaves(k, rep)
        PROVE  reply'[r] = reply[r]
    <2>1. Line[k] \in Req
      BY <1>1, LineTypes
    <2>2. Line[k] # r
      BY <2>1 DEF InOrder
    <2>. QED
      BY <1>1, <1>2, <2>2 DEF Leaves
  <1>3. ASSUME NEW q \in Req, Joins(q)
        PROVE  reply'[r] = reply[r]
    BY <1>1, <1>3 DEF Joins
  <1>. QED
    BY <1>1, <1>2, <1>3, LineNext DEF Stays, AllLost

\* Only an answer names versions.
LEMMA BlankNext == IInv /\ Placed /\ InOrder /\ Blank /\ [Next]_vars => Blank'
  <1>. SUFFICES ASSUME IInv, Placed, InOrder, Blank, [Next]_vars,
                       NEW r \in Req, reply'[r].status # "ok"
                PROVE  reply'[r].versions = {}
    BY DEF Blank
  <1>1. TypeInv /\ reply \in [Req -> ReplyType]
    BY DEF IInv, TypeInv, TypeOK, ClientTypes, ReplyType
  <1>2. \A code : Failure(code).versions = {}
    BY DEF Failure, Reply
  <1>3. CASE reply'[r] = reply[r]
    BY <1>3 DEF Blank
  <1>4. ASSUME NEW k \in 1..Len(Line), NEW rep, Leaves(k, rep)
        PROVE  reply'[r].versions = {}
    <2>1. reply'[r] = reply[r] \/ reply'[r] = rep
      BY <1>1, <1>4 DEF Leaves
    <2>. QED
      BY <1>3, <1>4, <2>1 DEF Leaves, IsAnswer
  <1>5. ASSUME NEW q \in Req, Joins(q)
        PROVE  reply'[r].versions = {}
    <2>1. reply'[r] = reply[r] \/ reply'[r] = Failure("queued")
      BY <1>1, <1>5 DEF Joins
    <2>. QED
      BY <1>2, <1>3, <2>1
  <1>6. CASE AllLost
    <2>1. reply'[r] = reply[r] \/ reply'[r] = Failure("lost")
      BY <1>6 DEF AllLost
    <2>. QED
      BY <1>2, <1>3, <2>1
  <1>. QED
    BY <1>1, <1>3, <1>4, <1>5, <1>6, LineNext DEF Stays

-----------------------------------------------------------------------------
(* Commits hold appends, and mint records for them only. *)

Appends == {r \in Sent : IsAppend(r)}

\* A sequence is one over any set its elements are in.
LEMMA SeqOver ==
    ASSUME NEW S, NEW T, NEW s \in Seq(S), \A i \in DOMAIN s : s[i] \in T
    PROVE  s \in Seq(T)
  OBVIOUS

\* The sequences of a commit hold appends that were sent.
LEMMA OwnTypes ==
    ASSUME TypeInv, OwnRecords
    PROVE  jobs \in Seq(Appends) /\ batch \in Seq(Appends) /\ solo \in Seq(Appends)
  <1>1. jobs \in Seq(Ready) /\ batch \in Seq(Ready) /\ solo \in Seq(Ready)
    BY DEF TypeInv, Bookkeeping
  <1>2. /\ \A i \in DOMAIN jobs : jobs[i] \in Appends
        /\ \A i \in DOMAIN batch : batch[i] \in Appends
        /\ \A i \in DOMAIN solo : solo[i] \in Appends
    BY <1>1 DEF OwnRecords, Appends, Ready
  <1>3. jobs \in Seq(Appends)
    BY <1>1, <1>2, SeqOver
  <1>4. batch \in Seq(Appends)
    BY <1>1, <1>2, SeqOver
  <1>5. solo \in Seq(Appends)
    BY <1>1, <1>2, SeqOver
  <1>. QED
    BY <1>3, <1>4, <1>5

\* What a step has to show to keep the records its own.
LEMMA OwnStep ==
    ASSUME jobs' \in Seq(Appends), batch' \in Seq(Appends), solo' \in Seq(Appends),
           \A r \in Sent : cmd'[r] = cmd[r],
           pc' \in {"fold", "write"} =>
              \A k \in DOMAIN records' : \E i \in DOMAIN jobs' : jobs'[i] = records'[k].req
    PROVE  OwnRecords'
  <1>1. \A r \in Appends : IsAppend(r)'
    BY DEF Appends, IsAppend
  <1>. QED
    BY <1>1 DEF OwnRecords

\* A commit that begins has no records.
LEMMA OwnRestart ==
    ASSUME TypeInv, OwnRecords, \A r \in Sent : cmd'[r] = cmd[r], batch' = batch,
           Restarted, Proceed \/ \E code : Isolate(code), jobs # <<>>
    PROVE  OwnRecords'
  <1>1. jobs \in Seq(Appends) /\ batch \in Seq(Appends) /\ solo \in Seq(Appends)
    BY OwnTypes
  <1>2. /\ \A s \in Seq(Appends) : s # <<>> =>
              <<Head(s)>> \in Seq(Appends) /\ Tail(s) \in Seq(Appends)
        /\ <<>> \in Seq(Appends)
    BY Ends
  <1>3. jobs' \in Seq(Appends) /\ solo' \in Seq(Appends)
    <2>1. CASE Proceed
      BY <1>1, <1>2, <2>1 DEF Proceed, Begin
    <2>2. ASSUME NEW code, Isolate(code), ~Proceed
          PROVE  jobs' \in Seq(Appends) /\ solo' \in Seq(Appends)
      <3>1. jobs' = <<Head(jobs)>> /\ solo' = Tail(jobs)
        BY <2>2 DEF Isolate, Begin
      <3>. QED
        BY <1>1, <1>2, <3>1
    <2>. QED
      BY <2>1, <2>2
  <1>4. pc' \in {"fold", "write"} => records' = <<>>
    BY DEF Restarted
  <1>. QED
    BY <1>1, <1>3, <1>4, OwnStep

\* Every action keeps the records of a commit its own.
LEMMA OwnNext == IInv /\ OwnRecords /\ [Next]_vars => OwnRecords'
  <1>. SUFFICES ASSUME IInv, OwnRecords, [Next]_vars PROVE OwnRecords'
    OBVIOUS
  <1>1. TypeInv
    BY DEF IInv, TypeInv
  <1>2. jobs \in Seq(Appends) /\ batch \in Seq(Appends) /\ solo \in Seq(Appends)
    BY <1>1, OwnTypes
  <1>3. \A r \in Sent : cmd'[r] = cmd[r]
    BY <1>1, CommandsKept
  <1>4. ASSUME UNCHANGED <<jobs, batch, solo, records, pc>>
        PROVE  OwnRecords'
    BY <1>2, <1>3, <1>4, OwnStep DEF OwnRecords
  <1>5. ASSUME UNCHANGED <<jobs, batch, solo>>, pc' \notin {"fold", "write"}
        PROVE  OwnRecords'
    BY <1>2, <1>3, <1>5, OwnStep
  <1>6. ASSUME pc \in Committing
        PROVE  jobs # <<>>
    BY <1>1, <1>6 DEF TypeInv, Bookkeeping
  <1>7. ASSUME NEW r \in Req, NEW c \in Commands, Submit(r, c)
        PROVE  OwnRecords'
    BY <1>4, <1>7 DEF Submit, actorVars, commitVars
  <1>8. CASE Receive \/ Gather \/ Gathered \/ Drained
    BY <1>5, <1>8 DEF Receive, Gather, Take, Gathered, Drained, actorVars, commitVars
  <1>9. CASE DrainAppend
    <2>1. /\ queue # <<>> /\ IsAppend(Head(queue)) /\ pc' = "drain"
          /\ batch' \in {batch, Append(batch, Head(queue))}
          /\ UNCHANGED <<jobs, solo>>
      BY <1>9 DEF DrainAppend, commitVars
    <2>2. Head(queue) \in Appends
      <3>1. queue \in Seq(Sent)
        BY <1>1 DEF TypeInv, Bookkeeping
      <3>2. Head(queue) \in Sent
        BY <2>1, <3>1, Ends
      <3>. QED
        BY <2>1, <3>2 DEF Appends
    <2>3. batch' \in Seq(Appends)
      BY <1>2, <2>1, <2>2
    <2>. QED
      BY <1>2, <1>3, <2>1, <2>3, OwnStep
  <1>10. CASE Flush
    <2>1. jobs' = batch /\ batch' = <<>> /\ solo' = solo /\ records' = <<>>
      BY <1>10 DEF Flush, Begin
    <2>2. <<>> \in Seq(Appends) /\ DOMAIN records' = {}
      BY <2>1
    <2>. QED
      BY <1>2, <1>3, <2>1, <2>2, OwnStep
  <1>11. CASE AnswerView \/ AnswerCheckpoint
    BY <1>4, <1>11 DEF AnswerView, AnswerCheckpoint, commitVars
  <1>12. CASE FoldPatch
    <2>. DEFINE rec == [version |-> Version + 1, patch |-> Patch, req |-> Job,
                        state |-> Apply[Patch][Current]]
    <2>1. /\ UNCHANGED <<jobs, batch, solo>> /\ pc = "fold" /\ at.job <= Len(jobs)
          /\ records' = IF Mints(Patch, Current) THEN Append(records, rec) ELSE records
      BY <1>12 DEF FoldPatch, InBatch, actorVars
    <2>2. records \in Seq(Record) /\ rec.req = jobs[at.job] /\ at.job \in 1..Len(jobs)
      BY <1>1, <2>1, CommitFacts DEF Job, TypeInv, TypeOK, CommitTypes
    <2>. HIDE DEF rec
    <2>3. \A k \in DOMAIN records' : \/ k \in DOMAIN records /\ records'[k] = records[k]
                                     \/ records'[k] = rec
      BY <2>1, <2>2
    <2>4. \A k \in DOMAIN records : \E i \in DOMAIN jobs : jobs[i] = records[k].req
      BY <2>1 DEF OwnRecords
    <2>5. at.job \in DOMAIN jobs
      BY <1>2, <2>2
    <2>6. \A k \in DOMAIN records' : \E i \in DOMAIN jobs' : jobs'[i] = records'[k].req
      BY <2>1, <2>2, <2>3, <2>4, <2>5
    <2>. QED
      BY <1>2, <1>3, <2>1, <2>6, OwnStep
  <1>13. CASE NextJob
    BY <1>4, <1>13 DEF NextJob, actorVars
  <1>14. CASE RejectPatch \/ WriteFails \/ SyncFails
    <2>1. (\E code : Isolate(code)) /\ batch' = batch /\ pc \in Committing
      BY <1>14 DEF RejectPatch, WriteFails, SyncFails, InBatch, Committing
    <2>. QED
      BY <1>1, <1>3, <1>6, <2>1, Restarting, OwnRestart
  <1>15. CASE Folded
    <2>1. UNCHANGED <<jobs, batch, solo, records>> /\ pc = "fold"
      BY <1>15 DEF Folded, actorVars, commitVars
    <2>. QED
      BY <1>2, <1>3, <2>1, OwnStep DEF OwnRecords
  <1>16. CASE Write \/ Sync
    BY <1>5, <1>16 DEF Write, Sync, actorVars, commitVars
  <1>17. CASE Assign \/ NextShare \/ Push \/ Announce \/ AutoCheckpoint \/ PublishFloor
    BY <1>5, <1>17 DEF Assign, NextShare, Push, Announce, AutoCheckpoint, PublishFloor, actorVars,
       commitVars
  <1>18. CASE Acknowledge
    <2>1. pc = "acknowledge" /\ batch' = batch /\ jobs # <<>>
      BY <1>6, <1>18 DEF Acknowledge, Committing
    <2>2. CASE Len(jobs) > 1
      <3>1. jobs' = Tail(jobs) /\ solo' = solo /\ pc' = pc
        BY <1>18, <2>2 DEF Acknowledge
      <3>2. Tail(jobs) \in Seq(Appends)
        BY <1>2, <2>1, Ends
      <3>. QED
        BY <1>2, <1>3, <2>1, <3>1, <3>2, OwnStep
    <2>3. CASE ~(Len(jobs) > 1)
      <3>1. Proceed
        BY <1>18, <2>3 DEF Acknowledge
      <3>. QED
        BY <1>1, <1>3, <2>1, <3>1, Restarting, OwnRestart
    <2>. QED
      BY <2>2, <2>3
  <1>19. ASSUME NEW kind \in CrashKinds, Crash(kind)
         PROVE  OwnRecords'
    BY <1>19 DEF Crash, OwnRecords
  <1>20. CASE Load \/ LoadFails \/ Replay \/ Recovered
    BY <1>5, <1>20 DEF Load, LoadFails, Replay, Recovered, actorVars, commitVars
  <1>21. CASE Refuse \/ Quiet \/ UNCHANGED vars
    BY <1>4, <1>21 DEF Refuse, Quiet, vars, actorVars, commitVars
  <1>. QED
    BY <1>7, <1>8, <1>9, <1>10, <1>11, <1>12, <1>13, <1>14, <1>15, <1>16, <1>17, <1>18,
       <1>19, <1>20, <1>21 DEF Next, Actor, Drain, Fold, Store, Publish, Open

-----------------------------------------------------------------------------
(* Every record of the log is accounted for. *)

Wrote == Committing \ {"fold", "write"}

\* The jobs of a commit have not been answered.
LEMMA JobsWait ==
    ASSUME TypeInv, InOrder, NEW i \in DOMAIN jobs
    PROVE  jobs[i] \in Req /\ reply[jobs[i]].status = "queued"
  <1>. DEFINE rest == solo \o (batch \o (queue \o inbox))
  <1>1. jobs \in Seq(Req) /\ rest \in Seq(Req) /\ Line = jobs \o rest
    BY LineTypes DEF Line
  <1>. HIDE DEF rest
  <1>2. i \in 1..Len(Line) /\ Line[i] = jobs[i] /\ jobs[i] \in Req
    BY <1>1
  <1>. QED
    BY <1>2 DEF InOrder

\* Each record carries the request that brought it.
LEMMA RecordReq ==
    ASSUME NEW s \in Seq(Record), NEW v \in 1..Len(s)
    PROVE  s[v].req \in Req
  <1>1. s[v] \in Record
    OBVIOUS
  <1>. QED
    BY <1>1 DEF Record

\* The i-th job of a commit is told of v, or will be: once the views are handed
\* out, every version above the last one seen goes to the job whose it is.
Told(i, v) == v \in acks[i] \/ (pc \in {"sync", "assign"} /\ v > last)
ToldNext(i, v) == v \in acks'[i] \/ (pc' \in {"sync", "assign"} /\ v > last')

\* A step that leaves the log alone and, if a commit that wrote is under way,
\* takes from none of its jobs what it is to be told.
LEMMA AccountedKeep ==
    ASSUME IInv, Placed, InOrder, Accounted, [Next]_vars, stored' = stored, residue' = <<>>,
           \/ pc \notin Wrote
           \/ /\ pc' \in Wrote /\ jobs' = jobs
              /\ \A v \in 1..Len(stored) : \A i \in DOMAIN jobs :
                    jobs[i] = stored[v].req /\ Told(i, v) =>
                       \E k \in DOMAIN jobs : jobs[k] = stored[v].req /\ ToldNext(k, v)
    PROVE  Accounted'
  <1>. SUFFICES ASSUME NEW v \in 1..Len(stored)
                PROVE  \/ reply'[stored[v].req].status = "lost"
                       \/ /\ reply'[stored[v].req].status = "ok"
                          /\ v \in reply'[stored[v].req].versions
                       \/ /\ pc' \in Wrote
                          /\ \E i \in DOMAIN jobs' : jobs'[i] = stored[v].req /\ ToldNext(i, v)
    BY DEF Accounted, Wrote, ToldNext
  <1>1. stored[v].req \in Req
    BY RecordReq DEF IInv, TypeOK, StoreTypes
  <1>2. CASE reply[stored[v].req].status \in {"lost", "ok"}
    <2>1. reply'[stored[v].req] = reply[stored[v].req]
      BY <1>1, <1>2, AnswersStay
    <2>2. reply[stored[v].req].status = "lost" \/ v \in reply[stored[v].req].versions
          \/ reply[stored[v].req].status = "queued"
      <3>1. ASSUME NEW i \in DOMAIN jobs, jobs[i] = stored[v].req
            PROVE  reply[stored[v].req].status = "queued"
        BY <3>1, JobsWait DEF IInv, TypeInv
      <3>. QED
        BY <3>1 DEF Accounted
    <2>. QED
      BY <1>2, <2>1, <2>2
  <1>3. CASE reply[stored[v].req].status \notin {"lost", "ok"}
    <2>1. pc \in Wrote /\ \E i \in DOMAIN jobs : jobs[i] = stored[v].req /\ Told(i, v)
      BY <1>3 DEF Accounted, Wrote, Told
    <2>. QED
      BY <2>1
  <1>. QED
    BY <1>2, <1>3

\* A step that leaves the commit alone.
LEMMA AccountedSame ==
    ASSUME IInv, Placed, InOrder, Accounted, [Next]_vars, stored' = stored, residue' = <<>>,
           pc' \in Wrote, UNCHANGED <<jobs, acks>>,
           \/ last' = last /\ (pc \in {"sync", "assign"} => pc' \in {"sync", "assign"})
           \/ last >= Len(stored)
    PROVE  Accounted'
  <1>1. TypeInv
    BY DEF IInv, TypeInv
  <1>2. last \in Nat /\ Len(stored) \in Nat
    BY <1>1, CommitFacts
  <1>3. ASSUME NEW v \in 1..Len(stored), NEW i \in DOMAIN jobs, Told(i, v)
        PROVE  ToldNext(i, v)
    BY <1>2, <1>3 DEF Told, ToldNext
  <1>. QED
    BY <1>3, AccountedKeep

\* Assign tells the job whose the next version is.
LEMMA AccountedAssign ==
    ASSUME IInv, Minted, Placed, InOrder, Accounted, [Next]_vars, Assign
    PROVE  Accounted'
  <1>1. TypeInv /\ Laid
    BY DEF IInv, TypeInv
  <1>2. /\ pc = "assign" /\ pc' = "assign" /\ UNCHANGED <<stored, residue, jobs>>
    BY DEF Assign, storeVars
  <1>3. residue' = <<>> /\ pc' \in Wrote
    BY <1>2 DEF Accounted, Wrote, Committing
  <1>4. CASE ~(Handed.version > last)
    <2>1. UNCHANGED <<acks, last>>
      BY <1>1, <1>4, AssignFacts
    <2>. QED
      BY <1>2, <1>3, <2>1, AccountedSame
  <1>5. CASE Handed.version > last
    <2>1. PICK j \in 1..Len(jobs) : j = at.job
      BY <1>1, AssignFacts
    <2>2. PICK w \in Nat : w = Handed.version
      BY <1>1, AssignFacts DEF Entry
    <2>3. acks' = [acks EXCEPT ![j] = @ \cup {w}] /\ last' = w
      BY <1>1, <1>5, <2>1, <2>2, AssignFacts
    <2>4. acks \in Seq(SUBSET Nat) /\ Len(acks) = Len(jobs) /\ DOMAIN jobs = 1..Len(acks)
      BY <1>1, <1>2 DEF TypeInv, TypeOK, CommitTypes, Bookkeeping, Committing
    <2>5. /\ acks'[j] = acks[j] \cup {w}
          /\ \A k \in 1..Len(acks) : k # j => acks'[k] = acks[k]
      <3>1. j \in 1..Len(acks)
        BY <2>4
      <3>. QED
        BY <2>3, <2>4, <3>1, AllotTypes
    <2>6. /\ Climbs(stored, Len(stored) - Len(records), last, Rest, entries)
          /\ Rest # <<>> /\ Head(Rest) = Handed /\ Handed.req = jobs[j]
      BY <1>1, <2>1, AssignFacts
    <2>7. Rest \in Seq(Entry) /\ last \in Nat
      BY <1>1, CommitFacts
    <2>8. w = last + 1 /\ stored[w].req = jobs[j]
      <3>1. Rest[1] = Handed /\ 1 \in 1..Len(Rest)
        BY <2>6, <2>7, Ends
      <3>2. Handed.version = last \/ (Handed.version = last + 1 /\ Mirrors(stored, Handed))
        BY <2>6, <3>1 DEF Climbs, Prev
      <3>3. w = last + 1 /\ Mirrors(stored, Handed)
        BY <1>5, <2>2, <2>7, <3>2
      <3>. QED
        BY <2>2, <2>6, <3>3 DEF Mirrors
    <2>9. ASSUME NEW v \in 1..Len(stored), NEW i \in DOMAIN jobs,
                 jobs[i] = stored[v].req, Told(i, v)
          PROVE  \E k \in DOMAIN jobs : jobs[k] = stored[v].req /\ ToldNext(k, v)
      <3>1. CASE v \in acks[i]
        <4>1. v \in acks'[i]
          BY <2>4, <2>5, <3>1
        <4>. QED
          BY <2>9, <4>1 DEF ToldNext
      <3>2. CASE v = w
        <4>1. v \in acks'[j] /\ jobs[j] = stored[v].req /\ j \in DOMAIN jobs
          BY <2>4, <2>5, <2>8, <3>2
        <4>. QED
          BY <4>1 DEF ToldNext
      <3>3. CASE v > last /\ v # w
        <4>1. v > last'
          BY <2>3, <2>7, <2>8, <3>3
        <4>. QED
          BY <1>2, <2>9, <4>1 DEF ToldNext
      <3>. QED
        BY <2>9, <3>1, <3>2, <3>3 DEF Told
    <2>. QED
      BY <1>2, <1>3, <2>9, AccountedKeep
  <1>. QED
    BY <1>4, <1>5

\* The records a write adds belong to its jobs.
LEMMA AccountedWrite ==
    ASSUME IInv, Placed, InOrder, OwnRecords, Accounted, [Next]_vars, Write
    PROVE  Accounted'
  <1>1. TypeInv
    BY DEF IInv, TypeInv
  <1>2. /\ pc = "write" /\ pc' \in {"sync", "assign"} /\ stored' = stored \o records
        /\ residue' = residue /\ UNCHANGED <<records, jobs, last>> /\ last = Len(stored)
    BY DEF Write, commitVars, IInv, Agreement
  <1>3. /\ stored \in Seq(Record) /\ records \in Seq(Record)
        /\ Len(stored) \in Nat /\ Len(records) \in Nat
    BY <1>1, CommitFacts
  <1>4. /\ Len(stored') = Len(stored) + Len(records)
        /\ \A v \in 1..Len(stored) : stored'[v] = stored[v]
        /\ \A k \in 1..Len(records) : stored'[Len(stored) + k] = records[k]
    BY <1>2, <1>3
  <1>5. ASSUME NEW v \in 1..Len(stored')
        PROVE  \/ reply'[stored'[v].req].status = "lost"
               \/ /\ reply'[stored'[v].req].status = "ok"
                  /\ v \in reply'[stored'[v].req].versions
               \/ /\ pc' \in Wrote
                  /\ \E i \in DOMAIN jobs' : jobs'[i] = stored'[v].req /\ ToldNext(i, v)
    <2>1. CASE v \in 1..Len(stored)
      <3>1. stored'[v] = stored[v] /\ stored[v].req \in Req
        BY <1>3, <1>4, <2>1, RecordReq
      <3>2. \/ reply[stored[v].req].status = "lost"
            \/ /\ reply[stored[v].req].status = "ok"
               /\ v \in reply[stored[v].req].versions
        BY <1>2, <2>1 DEF Accounted
      <3>3. reply'[stored[v].req] = reply[stored[v].req]
        BY <3>1, <3>2, AnswersStay
      <3>. QED
        BY <3>1, <3>2, <3>3
    <2>2. CASE v \notin 1..Len(stored)
      <3>. DEFINE k == v - Len(stored)
      <3>1. k \in 1..Len(records) /\ v = Len(stored) + k
        BY <1>3, <1>4, <2>2
      <3>2. v > last'
        BY <1>2, <1>3, <3>1
      <3>. HIDE DEF k
      <3>3. stored'[v] = records[k]
        BY <1>4, <3>1
      <3>4. PICK i \in DOMAIN jobs : jobs[i] = records[k].req
        BY <1>2, <1>3, <3>1 DEF OwnRecords
      <3>5. pc' \in Wrote
        BY <1>2 DEF Wrote, Committing
      <3>. QED
        BY <1>2, <3>2, <3>3, <3>4, <3>5 DEF ToldNext
    <2>. QED
      BY <2>1, <2>2
  <1>6. residue' = <<>>
    BY <1>2 DEF Accounted
  <1>. QED
    BY <1>5, <1>6 DEF Accounted, Wrote, ToldNext

\* An acknowledgement names every record its request brought.
LEMMA AccountedAck ==
    ASSUME IInv, Placed, InOrder, Accounted, [Next]_vars, Acknowledge
    PROVE  Accounted'
  <1>1. TypeInv
    BY DEF IInv, TypeInv
  <1>2. /\ pc = "acknowledge" /\ stored' = stored /\ residue' = residue
        /\ reply' = [reply EXCEPT ![Head(jobs)] = Reply("ok", Head(acks), claim, Zero)]
    BY DEF Acknowledge, storeVars
  <1>3. /\ jobs \in Seq(Req) /\ Len(jobs) \in Nat \ {0} /\ Head(jobs) = jobs[1]
        /\ Head(jobs) \in Req /\ Len(Tail(jobs)) = Len(jobs) - 1
        /\ \A i \in 1..Len(Tail(jobs)) : Tail(jobs)[i] = jobs[i + 1]
        /\ Tail(jobs) \in Seq(Req)
    <2>1. jobs \in Seq(Req) /\ jobs # <<>>
      BY <1>1, <1>2, LineTypes DEF TypeInv, Bookkeeping, Committing
    <2>. QED
      BY <2>1, Ends, HeadTailProperties
  <1>4. /\ reply'[Head(jobs)].status = "ok"
        /\ reply'[Head(jobs)].versions = Head(acks)
    BY <1>1, <1>2, <1>3 DEF Reply, TypeInv, TypeOK, ClientTypes
  <1>5. stored \in Seq(Record)
    BY <1>1, CommitFacts
  <1>6. /\ acks \in Seq(SUBSET Nat) /\ Len(acks) = Len(jobs) /\ Head(acks) = acks[1]
        /\ \A i \in 1..Len(Tail(jobs)) : Tail(acks)[i] = acks[i + 1]
    <2>1. acks \in Seq(SUBSET Nat) /\ Len(acks) = Len(jobs)
      BY <1>1, <1>2 DEF TypeInv, TypeOK, CommitTypes, Bookkeeping, Committing
    <2>2. acks # <<>>
      BY <1>3, <2>1
    <2>. QED
      BY <1>3, <2>1, <2>2, Ends, HeadTailProperties
  <1>7. ASSUME NEW v \in 1..Len(stored)
        PROVE  \/ reply'[stored[v].req].status = "lost"
               \/ /\ reply'[stored[v].req].status = "ok"
                  /\ v \in reply'[stored[v].req].versions
               \/ /\ pc' \in Wrote
                  /\ \E i \in DOMAIN jobs' : jobs'[i] = stored[v].req /\ v \in acks'[i]
    <2>1. stored[v].req \in Req
      BY <1>5, RecordReq
    <2>2. CASE \/ reply[stored[v].req].status = "lost"
               \/ /\ reply[stored[v].req].status = "ok"
                  /\ v \in reply[stored[v].req].versions
      <3>1. reply'[stored[v].req] = reply[stored[v].req]
        BY <2>1, <2>2, AnswersStay
      <3>. QED
        BY <2>2, <3>1
    <2>3. ASSUME NEW i \in 1..Len(jobs), jobs[i] = stored[v].req, v \in acks[i]
          PROVE  \/ /\ reply'[stored[v].req].status = "ok"
                    /\ v \in reply'[stored[v].req].versions
                 \/ /\ pc' \in Wrote
                    /\ \E k \in DOMAIN jobs' : jobs'[k] = stored[v].req /\ v \in acks'[k]
      <3>1. CASE i = 1
        BY <1>3, <1>4, <1>6, <2>3, <3>1
      <3>2. CASE i # 1
        <4>1. Len(jobs) > 1
          BY <1>3, <3>2
        <4>2. pc' = pc /\ jobs' = Tail(jobs) /\ acks' = Tail(acks)
          BY <4>1 DEF Acknowledge
        <4>3. i - 1 \in 1..Len(Tail(jobs)) /\ (i - 1) + 1 = i
          BY <1>3, <3>2
        <4>4. /\ Tail(jobs)[i - 1] = jobs[i] /\ Tail(acks)[i - 1] = acks[i]
              /\ i - 1 \in DOMAIN Tail(jobs)
          BY <1>3, <1>6, <4>3
        <4>5. pc' \in Wrote
          BY <1>2, <4>2 DEF Wrote, Committing
        <4>. QED
          BY <2>3, <4>2, <4>4, <4>5
      <3>. QED
        BY <3>1, <3>2
    <2>. QED
      BY <1>2, <1>3, <2>2, <2>3 DEF Accounted
  <1>8. residue' = <<>>
    BY <1>2 DEF Accounted
  <1>. QED
    BY <1>2, <1>7, <1>8 DEF Accounted, Wrote

\* A crash leaves records of requests it lost, and of nobody who was refused.
LEMMA AccountedCrash ==
    ASSUME IInv, Placed, InOrder, OwnRecords, Accounted, [Next]_vars,
           NEW kind \in CrashKinds, Crash(kind)
    PROVE  Accounted'
  <1>1. TypeInv /\ Backing
    BY DEF IInv, TypeInv
  <1>2. /\ residue' = <<>>
        /\ reply' = [r \in Req |-> IF reply[r].status = "queued" THEN Failure("lost")
                                   ELSE reply[r]]
    BY DEF Crash
  <1>3. /\ stored \in Seq(Record) /\ records \in Seq(Record)
        /\ Len(stored) \in Nat /\ Len(records) \in Nat /\ durable \in Nat
    BY <1>1, CommitFacts
  <1>. DEFINE flight == IF pc = "write" THEN records ELSE <<>>
              written == stored \o flight
  <1>4. PICK n \in Nat : n <= Len(written) /\ stored' = SubSeq(written, 1, n)
    <2>1. InFlight = flight
      BY DEF InFlight, Accounted
    <2>2. \E n \in (IF kind = "power" THEN durable ELSE Len(stored))..Len(written) :
             stored' = SubSeq(written, 1, n)
      BY <2>1 DEF Crash
    <2>. HIDE DEF written
    <2>. QED
      BY <1>3, <2>2
  <1>5. flight \in Seq(Record) /\ written \in Seq(Record) /\ Len(written) \in Nat
    BY <1>3
  <1>6. /\ Len(written) = Len(stored) + Len(flight) /\ Len(flight) \in Nat
        /\ \A v \in 1..Len(stored) : written[v] = stored[v]
        /\ \A k \in 1..Len(flight) : written[Len(stored) + k] = flight[k]
    BY <1>3, <1>5
  <1>7. ASSUME NEW k \in 1..Len(flight)
        PROVE  flight[k].req \in Req /\ reply[flight[k].req].status = "queued"
    <2>1. pc = "write" /\ flight = records
      BY <1>7
    <2>2. k \in DOMAIN records
      BY <1>3, <2>1
    <2>3. PICK i \in DOMAIN jobs : jobs[i] = records[k].req
      BY <2>1, <2>2 DEF OwnRecords
    <2>. QED
      BY <1>1, <2>1, <2>3, JobsWait
  <1>. HIDE DEF flight, written
  <1>8. Len(stored') = n /\ \A v \in 1..n : stored'[v] = written[v]
    BY <1>4, <1>5
  <1>9. Failure("lost").status = "lost"
    BY DEF Failure, Reply
  <1>10. ASSUME NEW v \in 1..Len(stored')
         PROVE  \/ reply'[stored'[v].req].status = "lost"
                \/ /\ reply'[stored'[v].req].status = "ok"
                   /\ v \in reply'[stored'[v].req].versions
    <2>1. v \in 1..Len(written) /\ stored'[v] = written[v]
      BY <1>4, <1>5, <1>8
    <2>2. CASE v \in 1..Len(stored)
      <3>1. stored'[v] = stored[v] /\ stored[v].req \in Req
        BY <1>3, <1>6, <2>1, <2>2, RecordReq
      <3>2. CASE reply[stored[v].req].status = "queued"
        BY <1>2, <1>9, <3>1, <3>2
      <3>3. CASE reply[stored[v].req].status # "queued"
        <4>1. reply'[stored[v].req] = reply[stored[v].req]
          BY <1>2, <3>1, <3>3
        <4>2. \A i \in DOMAIN jobs : jobs[i] # stored[v].req
          BY <1>1, <3>3, JobsWait
        <4>. QED
          BY <2>2, <3>1, <4>1, <4>2 DEF Accounted
      <3>. QED
        BY <3>2, <3>3
    <2>3. CASE v \notin 1..Len(stored)
      <3>. DEFINE k == v - Len(stored)
      <3>1. k \in 1..Len(flight) /\ v = Len(stored) + k
        BY <1>3, <1>6, <2>1, <2>3
      <3>. HIDE DEF k
      <3>2. stored'[v] = flight[k]
        BY <1>6, <2>1, <3>1
      <3>. QED
        BY <1>2, <1>7, <1>9, <3>1, <3>2
    <2>. QED
      BY <2>2, <2>3
  <1>. QED
    BY <1>2, <1>10 DEF Accounted

\* Every action accounts for every record.
LEMMA AccountedNext ==
    ASSUME "sync" \notin Faults, "cleanup" \notin Faults, IInv, Minted, Placed, InOrder,
           OwnRecords, Accounted, [Next]_vars
    PROVE  Accounted'
  <1>1. residue = <<>>
    BY DEF Accounted
  <1>2. ASSUME stored' = stored, residue' = residue, pc \notin Wrote
        PROVE  Accounted'
    BY <1>1, <1>2, AccountedKeep
  <1>3. ASSUME stored' = stored, residue' = residue, pc' \in Wrote,
               UNCHANGED <<jobs, acks, last>>,
               pc \in {"sync", "assign"} => pc' \in {"sync", "assign"}
        PROVE  Accounted'
    BY <1>1, <1>3, AccountedSame
  <1>4. ASSUME NEW r \in Req, NEW c \in Commands, Submit(r, c)
        PROVE  Accounted'
    <2>1. UNCHANGED <<stored, residue, pc, jobs, acks, last>>
      BY <1>4 DEF Submit, commitVars, storeVars
    <2>. QED
      BY <1>2, <1>3, <2>1
  <1>5. CASE Receive \/ Gather \/ Gathered \/ DrainAppend \/ Flush \/ Drained
    BY <1>2, <1>5 DEF Receive, Gather, Take, Gathered, DrainAppend, Flush, Drained,
       storeVars, Wrote, Committing
  <1>6. CASE AnswerView \/ AnswerCheckpoint
    BY <1>2, <1>6 DEF AnswerView, AnswerCheckpoint, Reading, Checkpoint,
       CheckpointRefused, CheckpointLate, storeVars, Wrote, Committing
  <1>7. CASE FoldPatch \/ NextJob \/ RejectPatch \/ Folded
    BY <1>2, <1>7 DEF FoldPatch, NextJob, RejectPatch, Folded, InBatch, storeVars, Wrote
  <1>8. CASE Write
    BY <1>8, AccountedWrite
  <1>9. CASE WriteFails
    <2>1. stored' = stored /\ residue' = residue /\ pc = "write"
      BY <1>9 DEF WriteFails, Fault
    <2>. QED
      BY <1>2, <2>1 DEF Wrote
  <1>10. CASE Sync
    BY <1>3, <1>10 DEF Sync, commitVars, Wrote, Committing
  <1>11. CASE SyncFails
    BY <1>11 DEF SyncFails, Fault
  <1>12. CASE NextShare \/ Announce \/ PublishFloor
    BY <1>3, <1>12 DEF NextShare, Announce, PublishFloor, commitVars, storeVars,
       Wrote, Committing
  <1>18. CASE Assign
    BY <1>18, AccountedAssign
  <1>19. CASE Push
    <2>1. TypeInv /\ Laid
      BY DEF IInv, TypeInv
    <2>2. /\ pc = "assign" /\ at.job > Len(jobs) /\ pc' \in Wrote
          /\ UNCHANGED <<stored, residue, jobs, acks>>
      BY <1>19 DEF Push, storeVars, Wrote, Committing
    <2>3. Climbs(stored, Len(stored) - Len(records), last, Rest, entries)
      BY <2>2 DEF Minted, Committing, Log
    <2>4. last = Len(stored)
      BY <2>1, <2>2, <2>3, RestDone, ClimbsEnd
    <2>5. Len(stored) \in Nat
      BY <2>1, CommitFacts
    <2>. QED
      BY <1>1, <2>2, <2>4, <2>5, AccountedSame
  <1>13. CASE AutoCheckpoint
    BY <1>3, <1>13 DEF AutoCheckpoint, Checkpoint, CheckpointRefused, CheckpointLate,
       commitVars, Wrote, Committing
  <1>14. CASE Acknowledge
    BY <1>14, AccountedAck
  <1>15. ASSUME NEW kind \in CrashKinds, Crash(kind)
         PROVE  Accounted'
    BY <1>15, AccountedCrash
  <1>16. CASE Load \/ LoadFails \/ Replay \/ Recovered \/ Refuse
    BY <1>2, <1>16 DEF Load, LoadFails, Replay, Recovered, Refuse, storeVars, Wrote,
       Committing
  <1>17. CASE Quiet \/ UNCHANGED vars
    <2>1. UNCHANGED <<stored, residue, pc, jobs, acks, last>>
      BY <1>17 DEF Quiet, vars, commitVars, storeVars
    <2>. QED
      BY <1>2, <1>3, <2>1
  <1>. QED
    BY <1>4, <1>5, <1>6, <1>7, <1>8, <1>9, <1>10, <1>11, <1>12, <1>13, <1>14, <1>15,
       <1>16, <1>17, <1>18, <1>19 DEF Next, Actor, Drain, Fold, Store, Publish, Open

-----------------------------------------------------------------------------
(* What a view shows. *)

\* A client sees a view because this step answers it, or has it already.
LEMMA ViewsAreKept ==
    ASSUME TypeInv, OwnRecords, [Next]_vars, NEW r \in Req, Viewed(r)'
    PROVE  \/ AnswerView /\ r = Head(queue)
           \/ Viewed(r) /\ reply'[r] = reply[r] /\ cmd'[r] = cmd[r]
  <1>. DEFINE Goal == Viewed(r) /\ reply'[r] = reply[r] /\ cmd'[r] = cmd[r]
  <1>1. reply \in [Req -> ReplyType] /\ cmd \in [Req -> Commands \cup {NoCommand}]
    BY DEF TypeInv, TypeOK, ClientTypes, ReplyType
  <1>2. ASSUME UNCHANGED <<cmd, reply>>
        PROVE  Goal
    BY <1>2 DEF Viewed
  <1>3. ASSUME NEW q, NEW rep,
               q # r \/ rep.status # "ok" \/ cmd[q].kind \notin {"view", "view_at"},
               reply' = [reply EXCEPT ![q] = rep], cmd' = cmd
        PROVE  Goal
    <2>1. CASE q = r
      <3>1. reply'[r] = rep
        BY <1>1, <1>3, <2>1
      <3>. QED
        BY <1>3, <2>1, <3>1 DEF Viewed
    <2>2. CASE q # r
      BY <1>1, <1>3, <2>2 DEF Viewed
    <2>. QED
      BY <2>1, <2>2
  <1>4. ASSUME NEW q, NEW code, code # "ok", reply' = [reply EXCEPT ![q] = Failure(code)],
               cmd' = cmd
        PROVE  Goal
    <2>1. Failure(code).status # "ok"
      BY <1>4 DEF Failure, Reply
    <2>. QED
      BY <1>3, <1>4, <2>1
  <1>5. ASSUME NEW code, code # "ok", Isolate(code), cmd' = cmd
        PROVE  Goal
    <2>1. UNCHANGED reply \/ reply' = [reply EXCEPT ![jobs[1]] = Failure(code)]
      BY <1>5, ClaimDropped
    <2>. QED
      BY <1>2, <1>4, <1>5, <2>1
  <1>6. ASSUME NEW q \in Req, NEW c \in Commands, Submit(q, c)
        PROVE  Goal
    <2>1. /\ reply' = [reply EXCEPT ![q] = Failure("queued")]
          /\ cmd' = [cmd EXCEPT ![q] = c]
      BY <1>6 DEF Submit
    <2>2. CASE q = r
      <3>1. reply'[r].status = "queued"
        BY <1>1, <2>1, <2>2 DEF Failure, Reply
      <3>. QED
        BY <3>1 DEF Viewed
    <2>3. CASE q # r
      BY <1>1, <2>1, <2>3 DEF Viewed
    <2>. QED
      BY <2>2, <2>3
  <1>7. CASE Receive \/ Gather \/ Gathered \/ Flush \/ Drained
    BY <1>2, <1>7 DEF Receive, Gather, Take, Gathered, Flush, Drained, clientVars
  <1>8. CASE DrainAppend
    BY <1>2, <1>4, <1>8 DEF DrainAppend
  <1>9. ASSUME AnswerView, r # Head(queue)
        PROVE  Goal
    <2>1. (\E rep : reply' = [reply EXCEPT ![Head(queue)] = rep]) /\ cmd' = cmd
      BY <1>9 DEF AnswerView
    <2>. QED
      BY <1>3, <1>9, <2>1
  <1>10. CASE AnswerCheckpoint
    <2>1. /\ \E rep : reply' = [reply EXCEPT ![Head(queue)] = rep]
          /\ cmd[Head(queue)].kind = "checkpoint" /\ cmd' = cmd
      BY <1>10 DEF AnswerCheckpoint, Reading
    <2>. QED
      BY <1>3, <2>1
  <1>11. CASE FoldPatch \/ NextJob \/ Folded \/ Write \/ Sync
    BY <1>2, <1>11 DEF FoldPatch, NextJob, Folded, Write, Sync, clientVars
  <1>12. CASE RejectPatch \/ WriteFails \/ SyncFails
    BY <1>5, <1>12 DEF RejectPatch, WriteFails, SyncFails
  <1>13. CASE Assign \/ NextShare \/ Push \/ Announce \/ AutoCheckpoint \/ PublishFloor
    BY <1>2, <1>13 DEF Assign, NextShare, Push, Announce, AutoCheckpoint, PublishFloor, clientVars
  <1>14. CASE Acknowledge
    <2>1. /\ \E rep : reply' = [reply EXCEPT ![Head(jobs)] = rep]
          /\ cmd' = cmd /\ pc = "acknowledge"
      BY <1>14 DEF Acknowledge
    <2>2. jobs \in Seq(Req) /\ jobs # <<>>
      BY <2>1, LineTypes DEF TypeInv, Bookkeeping, Committing
    <2>3. 1 \in DOMAIN jobs /\ Head(jobs) = jobs[1]
      BY <2>2
    <2>4. cmd[Head(jobs)].kind = "append"
      BY <2>3 DEF OwnRecords, IsAppend
    <2>. QED
      BY <1>3, <2>1, <2>4
  <1>15. ASSUME NEW kind \in CrashKinds, Crash(kind)
         PROVE  Goal
    <2>1. /\ cmd' = cmd
          /\ reply'[r] = IF reply[r].status = "queued" THEN Failure("lost") ELSE reply[r]
      BY <1>15 DEF Crash
    <2>2. Failure("lost").status # "ok"
      BY DEF Failure, Reply
    <2>. QED
      BY <2>1, <2>2 DEF Viewed
  <1>16. CASE Load \/ LoadFails \/ Replay \/ Recovered
    BY <1>2, <1>16 DEF Load, LoadFails, Replay, Recovered, clientVars
  <1>17. CASE Refuse
    BY <1>4, <1>17 DEF Refuse
  <1>18. CASE Quiet \/ UNCHANGED vars
    BY <1>2, <1>18 DEF Quiet, vars, clientVars
  <1>. QED
    BY <1>6, <1>7, <1>8, <1>9, <1>10, <1>11, <1>12, <1>13, <1>14, <1>15, <1>16, <1>17,
       <1>18 DEF Next, Actor, Drain, Fold, Store, Publish, Open

\* The version and the state a view is answered with are the log's.
LEMMA ViewAnswered ==
    ASSUME IInv, AnswerView, NEW r, r = Head(queue)
    PROVE  /\ r \in Req /\ UNCHANGED <<cmd, ahead, stored, cuts>>
           /\ cmd[r].kind = "view" => reply'[r].versions = {Len(stored)}
           /\ \A v \in reply'[r].versions :
                 v <= Len(stored) /\ (Reducible => reply'[r].state = StateAt(v))
  <1>1. TypeInv /\ Agreement
    BY DEF IInv, TypeInv
  <1>. DEFINE latest == cmd[r].kind = "view"
              v == IF latest THEN Version ELSE cmd[r].at
              ok == Reply("ok", {v}, synced,
                          IF Reducible THEN mem.states[v - mem.base + 1] ELSE Zero)
  <1>2. /\ pc = "drain" /\ queue # <<>> /\ cmd[r].kind \in {"view", "view_at"}
        /\ reply' = [reply EXCEPT ![r] = IF latest \/ Retained(v) THEN ok
                                          ELSE Failure("out_of_range")]
        /\ UNCHANGED <<cmd, ahead, stored, cuts>>
    BY DEF AnswerView, Reading, storeVars, faultVars
  <1>3. r \in Req
    BY <1>1, <1>2, LineTypes, Ends
  <1>4. /\ Version = Len(stored) /\ watermark = Len(stored) /\ Len(stored) \in Nat
        /\ \A n \in mem.base..Len(stored) :
              mem.states[n - mem.base + 1] = StateAt(n)
        /\ mem.base \in Nat /\ mem.base <= Len(stored)
    <2>1. \A n : StateAt(n) = After(stored, n)
      BY DEF StateAt, After
    <2>2. Holds(mem, stored, Len(stored)) /\ watermark = Len(stored)
      BY <1>1, <1>2 DEF Agreement, AtEnd
    <2>. QED
      BY <1>1, <2>1, <2>2, Facts DEF Holds, Version
  <1>5. reply'[r] = IF latest \/ Retained(v) THEN ok ELSE Failure("out_of_range")
    BY <1>1, <1>2, <1>3 DEF TypeInv, TypeOK, ClientTypes
  <1>6. v \in Nat
    <2>1. cmd[r] \in Commands \cup {NoCommand}
      BY <1>1, <1>3 DEF TypeInv, TypeOK, ClientTypes
    <2>2. cmd[r].at \in Nat
      BY <2>1, CommandsAssumption DEF NoCommand
    <2>. QED
      BY <1>4, <2>2
  <1>7. CASE latest \/ Retained(v)
    <2>1. v <= Len(stored) /\ (Reducible => mem.base <= v)
      BY <1>4, <1>6, <1>7 DEF Retained
    <2>2. Reducible => mem.states[v - mem.base + 1] = StateAt(v)
      BY <1>4, <1>6, <2>1
    <2>3. /\ reply'[r].versions = {v}
          /\ Reducible => reply'[r].state = mem.states[v - mem.base + 1]
      BY <1>5, <1>7 DEF Reply
    <2>4. latest => v = Len(stored)
      BY <1>4
    <2>. HIDE DEF v
    <2>. QED
      BY <1>2, <1>3, <2>1, <2>2, <2>3, <2>4
  <1>8. CASE ~(latest \/ Retained(v))
    <2>1. reply'[r].versions = {}
      BY <1>5, <1>8 DEF Failure, Reply
    <2>. QED
      BY <1>2, <1>3, <1>8, <2>1
  <1>. QED
    BY <1>7, <1>8

\* A step keeps every state of the log, unless the power was cut.
LEMMA StatesKept ==
    ASSUME IInv, [Next]_vars, cuts' = 0, NEW v \in Nat, v <= Len(stored)
    PROVE  v <= Len(stored') /\ StateAt(v)' = StateAt(v)
  <1>1. TypeInv /\ TypeInv' /\ Surviving
    BY TypeNext, LogSurvives DEF IInv, TypeInv
  <1>2. Len(stored) \in Nat /\ Len(stored') \in Nat
    BY <1>1 DEF TypeInv, TypeOK, StoreTypes
  <1>3. CASE v = 0
    BY <1>2, <1>3 DEF StateAt
  <1>4. CASE v # 0
    <2>1. v \in 1..Len(stored)
      BY <1>2, <1>4
    <2>2. v <= Len(stored') /\ stored'[v] = stored[v]
      BY <1>1, <2>1 DEF Surviving
    <2>. QED
      BY <1>4, <2>2 DEF StateAt
  <1>. QED
    BY <1>3, <1>4

\* Every action keeps the views true.
LEMMA RecordedViewsNext ==
    ASSUME IInv, OwnRecords, ViewsAreRecorded, [Next]_vars
    PROVE  ViewsAreRecorded'
  <1>. SUFFICES ASSUME NEW r \in Req, Viewed(r)', cuts' = 0, NEW v \in reply'[r].versions
                PROVE  /\ v <= Len(stored')
                       /\ Reducible => reply'[r].state = StateAt(v)'
    BY DEF ViewsAreRecorded
  <1>1. TypeInv /\ Surviving /\ TypeInv'
    BY TypeNext, LogSurvives DEF IInv, TypeInv
  <1>2. v \in Nat
    <2>1. reply' \in [Req -> ReplyType]
      BY <1>1 DEF TypeInv, TypeOK, ClientTypes, ReplyType
    <2>2. reply'[r].versions \subseteq Nat
      BY <2>1 DEF ReplyType
    <2>. QED
      BY <2>2
  <1>3. CASE AnswerView /\ r = Head(queue)
    <2>1. /\ stored' = stored /\ v <= Len(stored)
          /\ Reducible => reply'[r].state = StateAt(v)
      BY <1>3, ViewAnswered
    <2>2. StateAt(v)' = StateAt(v)
      BY <2>1 DEF StateAt
    <2>. QED
      BY <2>1, <2>2
  <1>4. CASE Viewed(r) /\ reply'[r] = reply[r] /\ cmd'[r] = cmd[r]
    <2>1. v <= Len(stored) /\ (Reducible => reply[r].state = StateAt(v))
      BY <1>1, <1>4 DEF ViewsAreRecorded, Surviving
    <2>2. v <= Len(stored') /\ StateAt(v)' = StateAt(v)
      BY <1>2, <2>1, StatesKept
    <2>. QED
      BY <1>4, <2>1, <2>2
  <1>. QED
    BY <1>1, <1>3, <1>4, ViewsAreKept
\* When a view is answered nobody sent ahead of it is still waiting.
LEMMA AheadAnswered ==
    ASSUME IInv, Placed, InOrder, AnswerView, NEW r \in Req, r = Head(queue),
           NEW q \in ahead[r]
    PROVE  q \in Req /\ q # r /\ reply[q].status \notin {"unsent", "queued"}
  <1>1. TypeInv
    BY DEF IInv, TypeInv
  <1>2. q \in Req
    BY <1>1 DEF TypeInv, TypeOK, ClientTypes
  <1>3. q \in Sent /\ r \notin ahead[q]
    BY <1>2 DEF InOrder
  <1>4. Line[1] = r /\ Line \in Seq(Req) /\ Len(Line) \in Nat
    BY <1>1, LineAnswer, LineTypes
  <1>5. ASSUME reply[q].status = "queued"
        PROVE  FALSE
    <2>1. PICK j \in 1..Len(Line) : Line[j] = q
      BY <1>2, <1>5 DEF InOrder
    <2>2. CASE j = 1
      BY <1>3, <1>4, <2>1, <2>2
    <2>3. CASE j # 1
      <3>1. 1 \in 1..Len(Line) /\ 1 < j
        BY <1>4, <2>1, <2>3
      <3>2. Line[1] \in ahead[Line[j]]
        BY <2>1, <3>1 DEF InOrder
      <3>. QED
        BY <1>3, <1>4, <2>1, <3>2
    <2>. QED
      BY <2>2, <2>3
  <1>. QED
    BY <1>2, <1>3, <1>5 DEF Sent

\* Every action keeps the reads behind the appends ahead of them.
LEMMA ReadsNext ==
    ASSUME IInv, AcksSurvive, Placed, InOrder, OwnRecords, Blank, ReadsSeeAppendsAhead,
           [Next]_vars
    PROVE  ReadsSeeAppendsAhead'
  <1>. SUFFICES ASSUME NEW r \in Req, Viewed(r)', cmd'[r].kind = "view",
                       NEW q \in ahead'[r], IsAppend(q)'
                PROVE  /\ reply'[q].status # "queued"
                       /\ cuts' = 0 => \A v \in reply'[q].versions,
                                          w \in reply'[r].versions : v <= w
    BY DEF ReadsSeeAppendsAhead
  <1>1. TypeInv /\ Surviving
    BY LogSurvives DEF IInv, TypeInv
  <1>2. CASE AnswerView /\ r = Head(queue)
    <2>1. UNCHANGED <<cmd, ahead, stored, cuts>> /\ reply'[r].versions = {Len(stored)}
      BY <1>2, ViewAnswered
    <2>2. q \in Req /\ q # r /\ reply[q].status \notin {"unsent", "queued"}
      BY <1>2, <2>1, AheadAnswered
    <2>3. reply'[q] = reply[q]
      BY <2>2, AnswersStay
    <2>4. ASSUME cuts = 0, NEW v \in reply[q].versions
          PROVE  v <= Len(stored)
      <3>1. Acked(q)
        BY <2>1, <2>2, <2>4 DEF Acked, IsAppend, Blank
      <3>2. v \in Recorded(q)
        BY <2>2, <2>4, <3>1 DEF AcksSurvive
      <3>. QED
        BY <3>2 DEF Recorded
    <2>. QED
      BY <2>1, <2>2, <2>3, <2>4
  <1>3. CASE Viewed(r) /\ reply'[r] = reply[r] /\ cmd'[r] = cmd[r]
    <2>1. ahead'[r] = ahead[r]
      <3>1. ASSUME NEW p \in Req, Joins(p)
            PROVE  ahead'[r] = ahead[r]
        <4>1. p # r
          BY <1>3, <3>1 DEF Joins, Viewed
        <4>. QED
          BY <1>1, <3>1, <4>1 DEF Joins, TypeInv, TypeOK, ClientTypes
      <3>. QED
        BY <1>1, <3>1, LineNext DEF Stays, AllLost, Leaves
    <2>2. q \in Req /\ q \in ahead[r]
      BY <1>1, <2>1 DEF TypeInv, TypeOK, ClientTypes
    <2>3. q \in Sent /\ cmd'[q] = cmd[q]
      BY <1>1, <2>2, CommandsKept DEF InOrder
    <2>4. /\ reply[q].status # "queued"
          /\ cuts = 0 => \A v \in reply[q].versions, w \in reply[r].versions : v <= w
      BY <1>3, <2>2, <2>3 DEF ReadsSeeAppendsAhead, IsAppend
    <2>5. reply'[q] = reply[q]
      BY <2>2, <2>3, <2>4, AnswersStay DEF Sent
    <2>. QED
      BY <1>1, <1>3, <2>4, <2>5 DEF Surviving
  <1>. QED
    BY <1>1, <1>2, <1>3, ViewsAreKept

-----------------------------------------------------------------------------
(* The theorem on answers. *)

\* AnswerInv holds initially.
LEMMA AnswerInvInit == Init => AnswerInv
  <1>. SUFFICES ASSUME Init PROVE AnswerInv
    OBVIOUS
  <1>1. /\ inbox = <<>> /\ queue = <<>> /\ batch = <<>> /\ jobs = <<>> /\ solo = <<>>
        /\ stored = <<>> /\ residue = <<>> /\ records = <<>> /\ pc = "idle"
        /\ \A r \in Req : ahead[r] = {}
        /\ \A r \in Req : reply[r].status = "unsent" /\ reply[r].versions = {}
    BY DEF Init, Failure, Reply
  <1>2. Line = <<>> /\ Len(Line) = 0
    BY <1>1 DEF Line
  <1>3. Placed
    BY <1>1 DEF Placed, Committing
  <1>4. InOrder
    BY <1>1, <1>2 DEF InOrder
  <1>5. OwnRecords /\ Accounted /\ Blank
    BY <1>1 DEF OwnRecords, Accounted, Blank
  <1>6. ReadsSeeAppendsAhead /\ ViewsAreRecorded
    BY <1>1 DEF ReadsSeeAppendsAhead, ViewsAreRecorded, Viewed
  <1>. QED
    BY <1>3, <1>4, <1>5, <1>6, AckInvInit DEF AnswerInv, ReadInv

\* ReadInv is preserved by every step.
LEMMA ReadInvNext == ReadInv /\ [Next]_vars => ReadInv'
  BY AckInvNext, PlacedNext, OrderNext, OwnNext, BlankNext, ReadsNext, RecordedViewsNext
     DEF ReadInv, AckInv

\* AnswerInv is preserved unless a flush or the cleanup of a write fails.
LEMMA AnswerInvNext ==
    "sync" \notin Faults /\ "cleanup" \notin Faults /\ AnswerInv /\ [Next]_vars => AnswerInv'
  BY ReadInvNext, AccountedNext DEF AnswerInv, ReadInv, AckInv

\* What AnswerInv accounts for is what clients are told.
LEMMA AnswerInvSuffices == AnswerInv => AnswersAreTrue
  <1>. SUFFICES ASSUME AnswerInv PROVE AnswersAreTrue
    OBVIOUS
  <1>1. TypeInv /\ InOrder /\ Accounted
    BY DEF AnswerInv, ReadInv, AckInv, IInv, TypeInv
  <1>2. ASSUME NEW r \in Req, NEW v \in Recorded(r), reply[r].status # "queued"
        PROVE  \/ reply[r].status = "lost"
               \/ reply[r].status = "ok" /\ v \in reply[r].versions
    <2>1. v \in 1..Len(stored) /\ stored[v].req = r
      BY DEF Recorded
    <2>2. \A i \in DOMAIN jobs : jobs[i] # r
      BY <1>1, <1>2, JobsWait
    <2>. QED
      BY <1>1, <2>1, <2>2 DEF Accounted
  <1>3. AckNamesAll
    BY <1>2 DEF AckNamesAll, Acked
  <1>4. FailedLeavesNothing
    BY <1>2 DEF FailedLeavesNothing
  <1>. QED
    BY <1>3, <1>4 DEF AnswersAreTrue, AnswerInv, ReadInv

\* Whatever fails, the flush and the cleanup of a failed write included, a view
\* is answered only after every append queued ahead of it (actor.rs, "a read must
\* observe the appends queued ahead of it"), includes what they were told was
\* done, and shows a recorded version and its state (log.rs, "nothing observable
\* ever exists that the write-ahead log has not already recorded").
THEOREM ReadsHold == Spec => [](ReadsSeeAppendsAhead /\ ViewsAreRecorded)
  <1>1. Init => ReadInv
    BY AnswerInvInit DEF AnswerInv
  <1>2. ReadInv => ReadsSeeAppendsAhead /\ ViewsAreRecorded
    BY DEF ReadInv
  <1>. QED
    BY <1>1, <1>2, ReadInvNext, PTL DEF Spec

\* What a client is told is true of the log, whatever the structure, the
\* commands, the batches and the crashes, as long as a failed append leaves
\* nothing behind: an acknowledgement names every version its request minted, a
\* failure leaves none, a view follows every append queued ahead of it
\* (actor.rs, "a read must observe the appends queued ahead of it") and shows a
\* recorded version and its state.  The two hypotheses exclude exactly the
\* failures that do leave records of a request that was told it failed: an
\* fsync that fails after the write, and a write whose cleanup fails as well.
THEOREM AnswersHold ==
    ASSUME "sync" \notin Faults, "cleanup" \notin Faults
    PROVE  Spec => []AnswersAreTrue
  <1>1. AnswerInv /\ [Next]_vars => AnswerInv'
    BY AnswerInvNext
  <1>2. Spec => []AnswerInv
    BY <1>1, AnswerInvInit, PTL DEF Spec
  <1>. QED
    BY <1>2, AnswerInvSuffices, PTL

-----------------------------------------------------------------------------
(* The actor implements Feed. *)

\* Two sequences of the same entries are the same.
LEMMA SameSeq ==
    ASSUME NEW S, NEW s \in Seq(S), NEW t \in Seq(S), Len(s) = Len(t),
           \A i \in 1..Len(s) : s[i] = t[i]
    PROVE  s = t
  OBVIOUS

\* What joining two sequences does to their entries.
LEMMA Joined ==
    ASSUME NEW S, NEW s \in Seq(S), NEW t \in Seq(S)
    PROVE  /\ s \o t \in Seq(S) /\ Len(s \o t) = Len(s) + Len(t)
           /\ Len(s) \in Nat /\ Len(t) \in Nat
           /\ \A i \in 1..Len(s) : (s \o t)[i] = s[i]
           /\ \A i \in 1..(Len(s) + Len(t)) : i > Len(s) =>
                 (s \o t)[i] = t[i - Len(s)] /\ i - Len(s) \in 1..Len(t)
  OBVIOUS

\* What cutting the front of a sequence does to its entries.
LEMMA CutFront ==
    ASSUME NEW S, NEW s \in Seq(S), NEW k \in Nat, k <= Len(s)
    PROVE  LET u == SubSeq(s, k + 1, Len(s)) IN
             /\ u \in Seq(S) /\ Len(u) = Len(s) - k /\ Len(s) - k \in Nat
             /\ \A i \in 1..(Len(s) - k) : u[i] = s[k + i] /\ k + i \in 1..Len(s)
  OBVIOUS

\* The patches of a log, record by record.
LEMMA PatchesSeq ==
    ASSUME NEW s \in Seq(Record)
    PROVE  /\ PatchesOf(s) \in Seq(Patches) /\ Len(PatchesOf(s)) = Len(s)
           /\ \A i \in 1..Len(s) : PatchesOf(s)[i] = s[i].patch
  <1>1. \A rec \in Record : rec.patch \in Patches
    BY DEF Record
  <1>2. \A i \in 1..Len(s) : s[i] \in Record
    OBVIOUS
  <1>. QED
    BY <1>1, <1>2 DEF PatchesOf

\* The patches of two logs joined.
LEMMA PatchesJoin ==
    ASSUME NEW s \in Seq(Record), NEW t \in Seq(Record)
    PROVE  PatchesOf(s \o t) = PatchesOf(s) \o PatchesOf(t)
  <1>. DEFINE u == s \o t
              p == PatchesOf(s)
              q == PatchesOf(t)
  <1>1. /\ u \in Seq(Record) /\ Len(u) = Len(s) + Len(t)
        /\ Len(s) \in Nat /\ Len(t) \in Nat
        /\ \A i \in 1..Len(s) : u[i] = s[i]
        /\ \A i \in 1..Len(u) : i > Len(s) => u[i] = t[i - Len(s)] /\ i - Len(s) \in 1..Len(t)
    BY Joined
  <1>2. /\ p \in Seq(Patches) /\ Len(p) = Len(s) /\ \A i \in 1..Len(s) : p[i] = s[i].patch
        /\ q \in Seq(Patches) /\ Len(q) = Len(t) /\ \A i \in 1..Len(t) : q[i] = t[i].patch
    BY PatchesSeq
  <1>. HIDE DEF u, p, q
  <1>3. /\ PatchesOf(u) \in Seq(Patches) /\ Len(PatchesOf(u)) = Len(u)
        /\ \A i \in 1..Len(u) : PatchesOf(u)[i] = u[i].patch
    BY <1>1, PatchesSeq
  <1>4. /\ p \o q \in Seq(Patches) /\ Len(p \o q) = Len(u)
        /\ \A i \in 1..Len(s) : (p \o q)[i] = p[i]
        /\ \A i \in 1..Len(u) : i > Len(s) => (p \o q)[i] = q[i - Len(s)]
    <2>1. p \in Seq(Patches) /\ q \in Seq(Patches) /\ Len(p) = Len(s) /\ Len(q) = Len(t)
      BY <1>2
    <2>2. /\ p \o q \in Seq(Patches) /\ Len(p \o q) = Len(p) + Len(q)
          /\ \A i \in 1..Len(p) : (p \o q)[i] = p[i]
          /\ \A i \in 1..(Len(p) + Len(q)) : i > Len(p) => (p \o q)[i] = q[i - Len(p)]
      BY <2>1, Joined
    <2>3. Len(u) = Len(s) + Len(t)
      BY <1>1
    <2>. QED
      BY <2>1, <2>2, <2>3
  <1>. DEFINE r == p \o q
  <1>. HIDE DEF r
  <1>5. \A i \in 1..Len(u) : PatchesOf(u)[i] = r[i]
    <2>. SUFFICES ASSUME NEW i \in 1..Len(u) PROVE PatchesOf(u)[i] = r[i]
      OBVIOUS
    <2>1. CASE i \in 1..Len(s)
      BY <1>1, <1>2, <1>3, <1>4, <2>1 DEF r
    <2>2. CASE i \notin 1..Len(s)
      <3>1. i > Len(s)
        BY <1>1, <2>2
      <3>2. u[i] = t[i - Len(s)] /\ i - Len(s) \in 1..Len(t) /\ r[i] = q[i - Len(s)]
        BY <1>1, <1>4, <3>1 DEF r
      <3>. QED
        BY <1>2, <1>3, <3>2
    <2>. QED
      BY <2>1, <2>2
  <1>6. PatchesOf(u) = r
    BY <1>3, <1>4, <1>5, SameSeq DEF r
  <1>. QED
    BY <1>6 DEF u, p, q, r

\* The patches of a log cut after n records.
LEMMA PatchesCut ==
    ASSUME NEW s \in Seq(Record), NEW n \in 0..Len(s)
    PROVE  /\ SubSeq(s, 1, n) \in Seq(Record) /\ Len(SubSeq(s, 1, n)) = n
           /\ PatchesOf(SubSeq(s, 1, n)) = SubSeq(PatchesOf(s), 1, n)
  <1>. DEFINE u == SubSeq(s, 1, n)
              p == PatchesOf(s)
              q == SubSeq(p, 1, n)
  <1>1. /\ u \in Seq(Record) /\ Len(u) = n /\ n \in Nat /\ Len(s) \in Nat
        /\ \A i \in 1..n : u[i] = s[i] /\ i \in 1..Len(s)
    OBVIOUS
  <1>2. p \in Seq(Patches) /\ Len(p) = Len(s) /\ \A i \in 1..Len(s) : p[i] = s[i].patch
    BY PatchesSeq
  <1>. HIDE DEF u, p
  <1>3. q \in Seq(Patches) /\ Len(q) = n /\ \A i \in 1..n : q[i] = p[i]
    BY <1>1, <1>2
  <1>4. /\ PatchesOf(u) \in Seq(Patches) /\ Len(PatchesOf(u)) = n
        /\ \A i \in 1..n : PatchesOf(u)[i] = u[i].patch
    BY <1>1, PatchesSeq
  <1>. HIDE DEF q
  <1>5. PatchesOf(u) = q
    BY <1>1, <1>2, <1>3, <1>4, SameSeq
  <1>. QED
    BY <1>1, <1>5 DEF u, p, q

\* What subscribers see of an entry of the ring.
Seen == [version : Nat, patch : Patches]

\* The ring as subscribers see it, entry by entry.
LEMMA ShownSeq ==
    ASSUME NEW s \in Seq(Entry)
    PROVE  /\ Shown(s) \in Seq(Seen) /\ Len(Shown(s)) = Len(s)
           /\ \A i \in 1..Len(s) : Shown(s)[i] = See(s[i])
  <1>1. \A e \in Entry : See(e) \in Seen
    BY DEF Entry, Seen, See
  <1>2. \A i \in 1..Len(s) : s[i] \in Entry
    OBVIOUS
  <1>. QED
    BY <1>1, <1>2 DEF Shown

\* What subscribers see of two rings joined.
LEMMA ShownJoin ==
    ASSUME NEW s \in Seq(Entry), NEW t \in Seq(Entry)
    PROVE  Shown(s \o t) = Shown(s) \o Shown(t)
  <1>. DEFINE u == s \o t
              p == Shown(s)
              q == Shown(t)
  <1>1. /\ u \in Seq(Entry) /\ Len(u) = Len(s) + Len(t)
        /\ Len(s) \in Nat /\ Len(t) \in Nat
        /\ \A i \in 1..Len(s) : u[i] = s[i]
        /\ \A i \in 1..Len(u) : i > Len(s) => u[i] = t[i - Len(s)] /\ i - Len(s) \in 1..Len(t)
    BY Joined
  <1>2. /\ p \in Seq(Seen) /\ Len(p) = Len(s) /\ \A i \in 1..Len(s) : p[i] = See(s[i])
        /\ q \in Seq(Seen) /\ Len(q) = Len(t) /\ \A i \in 1..Len(t) : q[i] = See(t[i])
    BY ShownSeq
  <1>. HIDE DEF u, p, q
  <1>3. /\ Shown(u) \in Seq(Seen) /\ Len(Shown(u)) = Len(u)
        /\ \A i \in 1..Len(u) : Shown(u)[i] = See(u[i])
    BY <1>1, ShownSeq
  <1>4. /\ p \o q \in Seq(Seen) /\ Len(p \o q) = Len(u)
        /\ \A i \in 1..Len(s) : (p \o q)[i] = p[i]
        /\ \A i \in 1..Len(u) : i > Len(s) => (p \o q)[i] = q[i - Len(s)]
    <2>1. p \in Seq(Seen) /\ q \in Seq(Seen) /\ Len(p) = Len(s) /\ Len(q) = Len(t)
      BY <1>2
    <2>2. /\ p \o q \in Seq(Seen) /\ Len(p \o q) = Len(p) + Len(q)
          /\ \A i \in 1..Len(p) : (p \o q)[i] = p[i]
          /\ \A i \in 1..(Len(p) + Len(q)) : i > Len(p) => (p \o q)[i] = q[i - Len(p)]
      BY <2>1, Joined
    <2>3. Len(u) = Len(s) + Len(t)
      BY <1>1
    <2>. QED
      BY <2>1, <2>2, <2>3
  <1>. DEFINE r == p \o q
  <1>. HIDE DEF r
  <1>5. \A i \in 1..Len(u) : Shown(u)[i] = r[i]
    <2>. SUFFICES ASSUME NEW i \in 1..Len(u) PROVE Shown(u)[i] = r[i]
      OBVIOUS
    <2>1. CASE i \in 1..Len(s)
      BY <1>1, <1>2, <1>3, <1>4, <2>1 DEF r
    <2>2. CASE i \notin 1..Len(s)
      <3>1. i > Len(s)
        BY <1>1, <2>2
      <3>2. u[i] = t[i - Len(s)] /\ i - Len(s) \in 1..Len(t) /\ r[i] = q[i - Len(s)]
        BY <1>1, <1>4, <3>1 DEF r
      <3>. QED
        BY <1>2, <1>3, <3>2
    <2>. QED
      BY <2>1, <2>2
  <1>6. Shown(u) = r
    BY <1>3, <1>4, <1>5, SameSeq DEF r
  <1>. QED
    BY <1>6 DEF u, p, q, r

\* What subscribers see of a ring whose front is cut off.
LEMMA ShownCut ==
    ASSUME NEW s \in Seq(Entry), NEW k \in Nat, k <= Len(s)
    PROVE  Shown(SubSeq(s, k + 1, Len(s))) = SubSeq(Shown(s), k + 1, Len(s))
  <1>. DEFINE u == SubSeq(s, k + 1, Len(s))
              p == Shown(s)
              q == SubSeq(p, k + 1, Len(s))
  <1>1. /\ u \in Seq(Entry) /\ Len(u) = Len(s) - k /\ Len(s) - k \in Nat /\ Len(s) \in Nat
        /\ \A i \in 1..(Len(s) - k) : u[i] = s[k + i] /\ k + i \in 1..Len(s)
    BY CutFront
  <1>2. p \in Seq(Seen) /\ Len(p) = Len(s) /\ \A i \in 1..Len(s) : p[i] = See(s[i])
    BY ShownSeq
  <1>. HIDE DEF u, p
  <1>3. /\ q \in Seq(Seen) /\ Len(q) = Len(s) - k
        /\ \A i \in 1..(Len(s) - k) : q[i] = p[k + i]
    <2>1. p \in Seq(Seen) /\ Len(p) = Len(s)
      BY <1>2
    <2>. QED
      BY <1>1, <2>1, CutFront
  <1>4. /\ Shown(u) \in Seq(Seen) /\ Len(Shown(u)) = Len(s) - k
        /\ \A i \in 1..(Len(s) - k) : Shown(u)[i] = See(u[i])
    BY <1>1, ShownSeq
  <1>. HIDE DEF q
  <1>5. Shown(u) = q
    BY <1>1, <1>2, <1>3, <1>4, SameSeq
  <1>. QED
    BY <1>5 DEF u, p, q

\* A push into the ring is the same push of what subscribers see, and keeps the ring
\* within its capacity.
LEMMA ShownPush ==
    ASSUME NEW rg \in Seq(Entry), NEW es \in Seq(Entry)
    PROVE  /\ Shown(RingPush(rg, es)) = F!RingPush(Shown(rg), Shown(es))
           /\ Len(RingPush(rg, es)) <= RingCapacity
           /\ Len(rg) <= RingCapacity => RingPush(rg, <<>>) = rg
           /\ es # <<>> => RingPush(rg, es) # <<>>
  <1>. DEFINE all == rg \o es
              seen == Shown(rg) \o Shown(es)
  <1>1. /\ all \in Seq(Entry) /\ Len(all) \in Nat /\ Shown(all) = seen
        /\ Len(seen) = Len(all) /\ RingCapacity \in Nat \ {0}
    <2>1. all \in Seq(Entry) /\ Len(all) \in Nat
      OBVIOUS
    <2>2. Shown(all) = seen
      BY ShownJoin
    <2>. HIDE DEF all, seen
    <2>3. Len(Shown(all)) = Len(all)
      BY <2>1, ShownSeq
    <2>. QED
      BY <2>1, <2>2, <2>3, RingCapacityAssumption
  <1>2. RingPush(rg, es) =
           IF Len(all) <= RingCapacity THEN all
           ELSE SubSeq(all, Len(all) - RingCapacity + 1, Len(all))
    BY DEF RingPush
  <1>3. F!RingPush(Shown(rg), Shown(es)) =
           IF Len(seen) <= RingCapacity THEN seen
           ELSE SubSeq(seen, Len(seen) - RingCapacity + 1, Len(seen))
    BY DEF F!RingPush
  <1>4. Len(rg) <= RingCapacity => RingPush(rg, <<>>) = rg
    BY DEF RingPush
  <1>7. es # <<>> => Len(all) # 0
    OBVIOUS
  <1>. HIDE DEF all, seen
  <1>5. CASE Len(all) <= RingCapacity
    BY <1>1, <1>2, <1>3, <1>4, <1>5, <1>7
  <1>6. CASE ~(Len(all) <= RingCapacity)
    <2>. DEFINE k == Len(all) - RingCapacity
    <2>1. k \in Nat /\ k <= Len(all) /\ Len(all) - k = RingCapacity
      BY <1>1, <1>6
    <2>2. /\ RingPush(rg, es) = SubSeq(all, k + 1, Len(all))
          /\ F!RingPush(Shown(rg), Shown(es)) = SubSeq(seen, k + 1, Len(all))
      BY <1>1, <1>2, <1>3, <1>6
    <2>. HIDE DEF k
    <2>3. Len(SubSeq(all, k + 1, Len(all))) = Len(all) - k
      BY <1>1, <2>1
    <2>4. Shown(SubSeq(all, k + 1, Len(all))) = SubSeq(Shown(all), k + 1, Len(all))
      BY <1>1, <2>1, ShownCut
    <2>. DEFINE cut == SubSeq(all, k + 1, Len(all))
    <2>. HIDE DEF cut
    <2>5. Len(cut) = RingCapacity /\ cut # <<>>
      <3>1. Len(cut) = RingCapacity
        BY <2>1, <2>3 DEF cut
      <3>. QED
        BY <1>1, <3>1
    <2>6. Len(cut) <= RingCapacity
      BY <1>1, <2>5
    <2>7. Shown(cut) = F!RingPush(Shown(rg), Shown(es)) /\ RingPush(rg, es) = cut
      BY <1>1, <2>2, <2>4 DEF cut
    <2>. QED
      BY <1>4, <2>5, <2>6, <2>7
  <1>. QED
    BY <1>5, <1>6

\* Cutting two joined sequences in the first.
LEMMA CutAhead ==
    ASSUME NEW S, NEW s \in Seq(S), NEW t \in Seq(S), NEW n \in Nat, n <= Len(s)
    PROVE  SubSeq(s \o t, 1, n) = SubSeq(s, 1, n) \o <<>>
  <1>1. /\ SubSeq(s \o t, 1, n) \in Seq(S) /\ Len(SubSeq(s \o t, 1, n)) = n
        /\ \A i \in 1..n : SubSeq(s \o t, 1, n)[i] = s[i]
    OBVIOUS
  <1>2. /\ SubSeq(s, 1, n) \o <<>> \in Seq(S) /\ Len(SubSeq(s, 1, n) \o <<>>) = n
        /\ \A i \in 1..n : (SubSeq(s, 1, n) \o <<>>)[i] = s[i]
    OBVIOUS
  <1>. QED
    BY <1>1, <1>2, SameSeq

\* What is left when a sequence is cut after n entries.
LEMMA CutTypes ==
    ASSUME NEW S, NEW s \in Seq(S), NEW n \in 0..Len(s)
    PROVE  SubSeq(s, 1, n) \in [1..n -> S]
  <1>. DEFINE u == SubSeq(s, 1, n)
  <1>1. u \in Seq(S) /\ Len(u) = n
    OBVIOUS
  <1>. HIDE DEF u
  <1>2. u \in [1..n -> S]
    BY <1>1
  <1>. QED
    BY <1>2 DEF u

\* Cutting two joined sequences in the second.
LEMMA CutBehind ==
    ASSUME NEW S, NEW s \in Seq(S), NEW t \in Seq(S), NEW j \in 1..Len(t)
    PROVE  SubSeq(s \o t, 1, Len(s) + j) = SubSeq(s, 1, Len(s)) \o SubSeq(t, 1, j)
  <1>. DEFINE n == Len(s) + j
              u == SubSeq(s \o t, 1, n)
              v == SubSeq(t, 1, j)
              w == s \o v
  <1>1. SubSeq(s, 1, Len(s)) = s
    OBVIOUS
  <1>2. /\ Len(s) \in Nat /\ j \in Nat /\ Len(t) \in Nat /\ j <= Len(t)
        /\ u \in Seq(S) /\ Len(u) = n
        /\ \A i \in 1..n : u[i] = (s \o t)[i]
    OBVIOUS
  <1>3. v \in Seq(S) /\ Len(v) = j /\ \A i \in 1..j : v[i] = t[i]
    OBVIOUS
  <1>. HIDE DEF v
  <1>4. /\ w \in Seq(S) /\ Len(w) = n
        /\ \A i \in 1..Len(s) : w[i] = s[i]
        /\ \A i \in 1..n : i > Len(s) => w[i] = v[i - Len(s)] /\ i - Len(s) \in 1..j
    BY <1>2, <1>3, Joined
  <1>. HIDE DEF u, w
  <1>5. ASSUME NEW i \in 1..n PROVE u[i] = w[i]
    <2>1. CASE i \in 1..Len(s)
      BY <1>2, <1>4, <2>1, Joined
    <2>2. CASE i \notin 1..Len(s)
      <3>1. i > Len(s) /\ i \in 1..(Len(s) + Len(t))
        BY <1>2, <2>2
      <3>2. (s \o t)[i] = t[i - Len(s)]
        BY <3>1, Joined
      <3>. QED
        BY <1>2, <1>3, <1>4, <3>1, <3>2
    <2>. QED
      BY <2>1, <2>2
  <1>6. u = w
    BY <1>2, <1>4, <1>5, SameSeq
  <1>. QED
    BY <1>1, <1>6 DEF u, v, w

\* A step that changes nothing a subscriber can see.
LEMMA FeedStutters ==
    ASSUME UNCHANGED <<stored, ring, published, floor>>, Serving' <=> Serving
    PROVE  UNCHANGED F!feedVars
  BY DEF F!feedVars, Serving

\* The ring never holds more than its capacity, and what is announced is in it.
Fits == Len(ring) <= RingCapacity /\ (pc = "announce" => ring # <<>>)

\* RingPush trims to the capacity, and Push leaves a record to announce.
LEMMA FitsNext ==
    ASSUME TypeInv, Fits, [Next]_vars
    PROVE  Fits'
  <1>1. ring \in Seq(Entry) /\ entries \in Seq(Entry)
    BY DEF TypeInv, TypeOK, SharedTypes, CommitTypes
  <1>2. CASE Push
    BY <1>1, <1>2, ShownPush DEF Push, Fits
  <1>3. ASSUME NEW kind \in CrashKinds, Crash(kind)
        PROVE  Fits'
    BY <1>3, RingCapacityAssumption DEF Crash, Fits
  <1>4. ASSUME UNCHANGED ring, pc' # "announce" \/ pc' = pc
        PROVE  Fits'
    BY <1>4 DEF Fits
  <1>5. ASSUME NEW r \in Req, NEW c \in Commands, Submit(r, c)
        PROVE  Fits'
    BY <1>4, <1>5 DEF Submit, sharedVars
  <1>6. CASE Receive \/ Gather \/ Gathered \/ Drained \/ DrainAppend \/ AnswerView
    BY <1>4, <1>6
       DEF Receive, Gather, Take, Gathered, Drained, DrainAppend, AnswerView, sharedVars
  <1>7. CASE AnswerCheckpoint \/ FoldPatch \/ NextJob \/ Folded \/ Write \/ Sync
          \/ Assign \/ NextShare
    BY <1>4, <1>7
       DEF AnswerCheckpoint, FoldPatch, NextJob, Folded, Write, Sync, Assign, NextShare,
           sharedVars
  <1>8. CASE Announce \/ AutoCheckpoint \/ PublishFloor \/ Replay \/ Recovered \/ Refuse
    BY <1>4, <1>8
       DEF Announce, AutoCheckpoint, PublishFloor, Replay, Recovered, Refuse, sharedVars
  <1>9. CASE Flush \/ RejectPatch \/ WriteFails \/ SyncFails
    <2>1. Restarted /\ UNCHANGED ring
      BY <1>9, Restarting DEF Flush, RejectPatch, WriteFails, SyncFails, sharedVars
    <2>. QED
      BY <1>4, <2>1 DEF Restarted
  <1>10. CASE Acknowledge
    <2>1. (pc' = pc \/ Restarted) /\ UNCHANGED ring
      BY <1>10, Restarting DEF Acknowledge, sharedVars
    <2>. QED
      BY <1>4, <2>1 DEF Restarted
  <1>11. CASE Load \/ LoadFails \/ Quiet \/ UNCHANGED vars
    BY <1>4, <1>11 DEF Load, LoadFails, Quiet, vars, sharedVars
  <1>. QED
    BY <1>2, <1>3, <1>5, <1>6, <1>7, <1>8, <1>9, <1>10, <1>11
       DEF Next, Actor, Drain, Fold, Store, Publish, Open

\* Where nothing is in progress, the watermark is the end of the log and a
\* checkpoint may raise the floor up to there.
LEMMA FeedReclaims ==
    ASSUME AckInv, FannedOut, pc \in {"drain", "checkpoint"}, Reclaim \/ floor' = floor,
           UNCHANGED <<stored, ring, published>>, Serving'
    PROVE  F!ReclaimTo \/ UNCHANGED F!feedVars
  <1>1. TypeInv /\ Agreement
    BY DEF AckInv, IInv, TypeInv
  <1>2. /\ stored \in Seq(Record) /\ Len(stored) \in Nat /\ floor \in Nat
        /\ mem.base \in Nat /\ Version \in Nat
    BY <1>1, CommitFacts, MemTypes DEF TypeInv, TypeOK, StoreTypes
  <1>3. Serving /\ published = Len(stored)
    BY <1>2 DEF FannedOut, Serving, Unannounced
  <1>4. Version = Len(stored)
    BY <1>1 DEF Agreement, AtEnd, Committing, Holds, Version
  <1>5. Len(PatchesOf(stored)) = Len(stored)
    BY <1>2, PatchesSeq
  <1>6. CASE floor' = floor
    BY <1>3, <1>6, FeedStutters
  <1>7. CASE floor' # floor
    <2>1. floor' \in (floor + 1)..(Len(stored) + 1)
      <3>1. floor' \in floor..(Len(stored) + 1)
        BY <1>4, <1>7 DEF Reclaim
      <3>. QED
        BY <1>2, <1>7, <3>1
    <2>2. pc \notin {"down", "replay", "refused"} /\ pc' \notin {"down", "replay", "refused"}
      BY <1>3 DEF Serving
    <2>. QED
      BY <1>3, <1>5, <2>1, <2>2 DEF F!ReclaimTo, F!Between
  <1>. QED
    BY <1>6, <1>7

\* The batch is in the log before anyone can see it.
LEMMA FeedCommits ==
    ASSUME AckInv, FannedOut, InBounds, InBounds', Write
    PROVE  F!Commit
  <1>1. TypeInv /\ Bookkeeping
    BY DEF AckInv, IInv, TypeInv
  <1>2. /\ stored \in Seq(Record) /\ records \in Seq(Record)
        /\ Len(stored) \in Nat /\ Len(records) \in Nat
    BY <1>1, CommitFacts
  <1>3. /\ pc = "write" /\ pc' \in {"sync", "assign"} /\ stored' = stored \o records
        /\ UNCHANGED <<ring, published, floor>>
    BY DEF Write, sharedVars
  <1>4. published = Len(stored) /\ records # <<>>
    BY <1>1, <1>2, <1>3 DEF FannedOut, Serving, Unannounced, Bookkeeping
  <1>. DEFINE p == PatchesOf(stored)
              b == PatchesOf(records)
  <1>5. /\ Len(p) = Len(stored) /\ b \in Seq(Patches) /\ Len(b) = Len(records)
        /\ PatchesOf(stored') = p \o b
    BY <1>2, <1>3, PatchesSeq, PatchesJoin
  <1>6. Len(PatchesOf(stored')) = Len(stored')
    <2>1. stored' \in Seq(Record)
      BY <1>2, <1>3, Joined
    <2>. QED
      BY <2>1, PatchesSeq
  <1>7. Len(p \o b) <= MaxLog
    BY <1>5, <1>6 DEF InBounds
  <1>. HIDE DEF p, b
  <1>8. b \in Commits
    <2>1. Len(b) \in 1..MaxCommit
      BY <1>2, <1>4, <1>5, BoundsAssumption DEF InBounds
    <2>2. b \in [1..Len(b) -> Patches]
      BY <1>5
    <2>. QED
      BY <2>1, <2>2 DEF Commits
  <1>9. F!Between
    <2>. USE DEF p
    <2>. QED
      BY <1>3, <1>4, <1>5 DEF F!Between
  <1>. QED
    BY <1>3, <1>5, <1>7, <1>8, <1>9 DEF F!Commit, p

\* Actor::publish: the ring.
LEMMA FeedPushes ==
    ASSUME AckInv, FannedOut, Fits, Push
    PROVE  F!PushEntries \/ UNCHANGED F!feedVars
  <1>1. TypeInv /\ Agreement /\ Minted /\ Laid
    BY DEF AckInv, IInv, TypeInv
  <1>2. /\ stored \in Seq(Record) /\ records \in Seq(Record) /\ entries \in Seq(Entry)
        /\ Len(stored) \in Nat /\ Len(records) \in Nat /\ Len(entries) \in Nat
        /\ ring \in Seq(Entry) /\ published \in Nat
    BY <1>1, CommitFacts DEF TypeInv, TypeOK, SharedTypes
  <1>3. /\ pc = "assign" /\ Rest = <<>> /\ ring' = RingPush(ring, entries)
        /\ pc' \in {"acknowledge", "announce"}
        /\ UNCHANGED <<published, stored, floor>>
    BY <1>1, RestDone DEF Push, storeVars
  <1>4. /\ Climbs(stored, Len(stored) - Len(records), last, Rest, entries)
        /\ published = Len(stored) - Len(records) /\ Spans(ring, stored, published)
    BY <1>1, <1>3 DEF Minted, Committing, Log, FannedOut, Serving, Unannounced, RingEnd
  <1>5. /\ published + Len(entries) = Len(stored)
        /\ \A i \in 1..Len(entries) :
              entries[i].version = published + i /\ Mirrors(stored, entries[i])
    <2>1. last = Len(stored)
      BY <1>3, <1>4, ClimbsEnd
    <2>2. /\ last = (Len(stored) - Len(records)) + Len(entries)
          /\ \A i \in 1..Len(entries) :
                /\ entries[i].version = (Len(stored) - Len(records)) + i
                /\ Mirrors(stored, entries[i])
      BY <1>4 DEF Climbs
    <2>. QED
      BY <1>2, <1>4, <2>1, <2>2
  <1>6. Serving /\ Serving'
    BY <1>3 DEF Serving
  <1>7. CASE entries = <<>>
    <2>1. ring' = ring
      BY <1>2, <1>3, <1>7, ShownPush DEF Fits
    <2>. QED
      BY <1>3, <1>6, <2>1, FeedStutters
  <1>8. CASE entries # <<>>
    <2>. DEFINE p == PatchesOf(stored)
    <2>1. /\ Len(p) = Len(stored) /\ \A i \in 1..Len(stored) : p[i] = stored[i].patch
      BY <1>2, PatchesSeq
    <2>2. published < Len(p)
      BY <1>2, <1>5, <1>8, <2>1
    <2>3. ~F!Pushed
      <3>1. /\ Len(Shown(ring)) = Len(ring) /\ Shown(ring) \in Seq(Seen) /\ Len(ring) \in Nat
            /\ \A i \in 1..Len(ring) : Shown(ring)[i] = See(ring[i])
        BY <1>2, ShownSeq
      <3>2. SUFFICES ASSUME Shown(ring) # <<>> PROVE Shown(ring)[Len(ring)].version # Len(p)
        BY <3>1 DEF F!Pushed
      <3>3. Len(ring) \in 1..Len(ring)
        BY <3>1, <3>2
      <3>4. ring[Len(ring)].version = published - Len(ring) + Len(ring)
        BY <1>4, <3>3 DEF Spans
      <3>5. ring[Len(ring)].version = published
        BY <1>2, <3>1, <3>4
      <3>6. Shown(ring)[Len(ring)].version = published
        <4>1. Shown(ring)[Len(ring)] = See(ring[Len(ring)])
          BY <3>1, <3>3
        <4>2. See(ring[Len(ring)]).version = ring[Len(ring)].version
          BY DEF See
        <4>. QED
          BY <3>5, <4>1, <4>2
      <3>. QED
        BY <2>2, <3>6, <1>2, <2>1
    <2>. HIDE DEF p
    <2>4. Shown(entries) = F!EntriesBetween(published, Len(p))
      <3>. DEFINE es == F!EntriesBetween(published, Len(p))
                  n == Len(entries)
      <3>1. Len(p) - published = n
        BY <1>2, <1>5, <2>1
      <3>2. es = [i \in 1..n |-> [version |-> published + i, patch |-> p[published + i]]]
        BY <3>1 DEF F!EntriesBetween, p
      <3>3. /\ Shown(entries) = [i \in 1..n |-> See(entries[i])]
        <4>1. DOMAIN entries = 1..n
          BY <1>2
        <4>. QED
          BY <4>1 DEF Shown
      <3>4. ASSUME NEW i \in 1..n
            PROVE  See(entries[i]) = [version |-> published + i, patch |-> p[published + i]]
        <4>1. entries[i].version = published + i /\ Mirrors(stored, entries[i])
          BY <1>5
        <4>2. /\ entries[i].version \in 1..Len(stored)
              /\ stored[entries[i].version].patch = entries[i].patch
          BY <4>1 DEF Mirrors
        <4>. QED
          BY <2>1, <4>1, <4>2 DEF See
      <3>. HIDE DEF es, n
      <3>5. Shown(entries) = es
        BY <3>2, <3>3, <3>4
      <3>. QED
        BY <3>5 DEF es
    <2>5. Shown(ring') = F!RingPush(Shown(ring), Shown(entries))
      BY <1>2, <1>3, ShownPush
    <2>. QED
      BY <1>3, <1>6, <2>2, <2>3, <2>4, <2>5 DEF F!PushEntries, Serving, p
  <1>. QED
    BY <1>7, <1>8

\* Then the watermark.
LEMMA FeedAnnounces ==
    ASSUME AckInv, FannedOut, Fits, Announce
    PROVE  F!AnnounceWatermark \/ UNCHANGED F!feedVars
  <1>1. TypeInv /\ Agreement
    BY DEF AckInv, IInv, TypeInv
  <1>2. /\ stored \in Seq(Record) /\ Len(stored) \in Nat
        /\ ring \in Seq(Entry) /\ published \in Nat /\ records \in Seq(Record)
        /\ Len(records) \in Nat
    BY <1>1, CommitFacts DEF TypeInv, TypeOK, SharedTypes
  <1>3. /\ pc = "announce" /\ pc' \in {"checkpoint", "floor"} /\ published' = watermark
        /\ UNCHANGED <<ring, stored, floor>>
    BY DEF Announce, storeVars
  <1>4. watermark = Len(stored) /\ Spans(ring, stored, Len(stored)) /\ ring # <<>>
    BY <1>1, <1>3 DEF Agreement, FannedOut, RingEnd, Fits
  <1>5. /\ Len(PatchesOf(stored)) = Len(stored)
        /\ Len(Shown(ring)) = Len(ring) /\ Shown(ring) # <<>> /\ Len(ring) \in 1..Len(ring)
        /\ Shown(ring)[Len(ring)] = See(ring[Len(ring)])
    <2>1. Len(ring) \in 1..Len(ring)
      BY <1>2, <1>4
    <2>2. Len(Shown(ring)) = Len(ring) /\ Shown(ring)[Len(ring)] = See(ring[Len(ring)])
      BY <1>2, <2>1, ShownSeq
    <2>3. Shown(ring) # <<>>
      BY <2>1, <2>2
    <2>4. Len(PatchesOf(stored)) = Len(stored)
      BY <1>2, PatchesSeq
    <2>. QED
      BY <2>1, <2>2, <2>3, <2>4
  <1>6. ring[Len(ring)].version = Len(stored)
    <2>1. ring[Len(ring)].version = Len(stored) - Len(ring) + Len(ring)
      BY <1>4, <1>5 DEF Spans
    <2>. QED
      BY <1>2, <2>1
  <1>7. F!Pushed
    BY <1>5, <1>6 DEF F!Pushed, See
  <1>8. published <= Len(stored) /\ Serving /\ Serving'
    BY <1>2, <1>3 DEF FannedOut, Serving, Unannounced
  <1>9. CASE published = Len(stored)
    BY <1>3, <1>4, <1>8, <1>9, FeedStutters
  <1>10. CASE published # Len(stored)
    <2>1. published < Len(PatchesOf(stored))
      BY <1>2, <1>5, <1>8, <1>10
    <2>. QED
      BY <1>3, <1>4, <1>5, <1>7, <1>8, <2>1 DEF F!AnnounceWatermark, Serving
  <1>. QED
    BY <1>9, <1>10

\* A crash keeps the log above the floor up to some record, or all of it and a part of
\* the commit in progress.
LEMMA FeedStops ==
    ASSUME AckInv, FannedOut, InBounds, NEW kind \in CrashKinds, Crash(kind)
    PROVE  F!Stop
  <1>1. TypeInv /\ Backing
    BY DEF AckInv, IInv, TypeInv
  <1>2. /\ stored \in Seq(Record) /\ records \in Seq(Record) /\ residue \in Seq(Record)
        /\ Len(stored) \in Nat /\ floor \in Nat /\ durable \in Nat
        /\ header.version \in Nat
    BY <1>1, CommitFacts DEF TypeInv, TypeOK, StoreTypes
  <1>3. floor - 1 <= durable /\ durable <= Len(stored)
    BY <1>1, <1>2 DEF Backing
  <1>4. /\ InFlight \in Seq(Record) /\ Len(InFlight) \in Nat /\ Len(InFlight) <= MaxCommit
    BY <1>2, BoundsAssumption DEF InFlight, InBounds
  <1>. DEFINE fly == InFlight
              written == stored \o fly
              least == IF kind = "power" THEN durable ELSE Len(stored)
  <1>5. /\ pc' = "down" /\ ring' = <<>> /\ published' = 0 /\ floor' = floor
        /\ \E n \in least..Len(written) : stored' = SubSeq(written, 1, n)
    BY DEF Crash
  <1>6. PICK n \in least..Len(written) : stored' = SubSeq(written, 1, n)
    BY <1>5
  <1>7. Shown(ring') = <<>>
    BY <1>5 DEF Shown
  <1>8. Len(PatchesOf(stored)) = Len(stored) /\ PatchesOf(stored) \in Seq(Patches)
    BY <1>2, PatchesSeq
  <1>9. /\ written \in Seq(Record) /\ Len(written) = Len(stored) + Len(fly)
        /\ floor - 1 <= least /\ least <= Len(stored) /\ least \in Nat
    BY <1>2, <1>3, <1>4, Joined
  <1>. HIDE DEF fly, written, least
  <1>10. /\ n \in Nat /\ n <= Len(written) /\ least <= n /\ Len(written) \in Nat
         /\ n \in 0..Len(written)
    BY <1>2, <1>4, <1>6, <1>9
  <1>11. PatchesOf(stored') = SubSeq(PatchesOf(written), 1, n)
    BY <1>6, <1>9, <1>10, PatchesCut
  <1>12. PatchesOf(written) = PatchesOf(stored) \o PatchesOf(fly)
    BY <1>2, <1>4, PatchesJoin DEF fly, written
  <1>. DEFINE parts == Commits \cup {<<>>}
  <1>13. ASSUME NEW m \in (floor - 1)..Len(PatchesOf(stored)), NEW b \in parts,
                PatchesOf(stored') = SubSeq(PatchesOf(stored), 1, m) \o b
         PROVE  F!Stop
    <2>1. (pc \notin {"down", "replay", "refused"})' = FALSE
      BY <1>5
    <2>. QED
      BY <1>5, <1>7, <1>13, <2>1 DEF F!Stop
  <1>14. \A m \in (floor - 1)..Len(PatchesOf(stored)) : \A b \in parts :
            PatchesOf(stored') = SubSeq(PatchesOf(stored), 1, m) \o b => F!Stop
    BY <1>13
  <1>15. <<>> \in parts
    OBVIOUS
  <1>16. ASSUME NEW k \in 1..MaxCommit, NEW b \in [1..k -> Patches]
         PROVE  b \in parts
    BY DEF Commits
  <1>. HIDE DEF parts
  <1>17. CASE n <= Len(stored)
    <2>. DEFINE p == PatchesOf(stored)
                q == PatchesOf(fly)
    <2>1. q \in Seq(Patches) /\ Len(q) = Len(fly)
      BY <1>4, PatchesSeq DEF fly
    <2>. HIDE DEF p, q
    <2>2. p \in Seq(Patches) /\ Len(p) = Len(stored)
      BY <1>8 DEF p
    <2>3. SubSeq(p \o q, 1, n) = SubSeq(p, 1, n) \o <<>>
      BY <1>2, <1>10, <1>17, <2>1, <2>2, CutAhead
    <2>4. n \in (floor - 1)..Len(p)
      BY <1>2, <1>9, <1>10, <1>17, <2>2
    <2>5. PatchesOf(stored') = SubSeq(PatchesOf(stored), 1, n) \o <<>>
      BY <1>11, <1>12, <2>3 DEF p, q
    <2>6. n \in (floor - 1)..Len(PatchesOf(stored))
      BY <2>4 DEF p
    <2>. QED
      BY <1>14, <1>15, <2>5, <2>6
  <1>18. CASE ~(n <= Len(stored))
    <2>. DEFINE p == PatchesOf(stored)
                q == PatchesOf(fly)
                j == n - Len(stored)
    <2>1. q \in Seq(Patches) /\ Len(q) = Len(fly)
      BY <1>4, PatchesSeq DEF fly
    <2>. HIDE DEF p, q
    <2>2. p \in Seq(Patches) /\ Len(p) = Len(stored)
      BY <1>8 DEF p
    <2>3. Len(fly) \in Nat /\ Len(fly) <= MaxCommit
      BY <1>4 DEF fly
    <2>4. j \in 1..Len(fly) /\ n = Len(p) + j
      BY <1>2, <1>9, <1>10, <1>18, <2>2, <2>3
    <2>. HIDE DEF j
    <2>5. SubSeq(p \o q, 1, n) = SubSeq(p, 1, Len(p)) \o SubSeq(q, 1, j)
      <3>1. j \in 1..Len(q)
        BY <2>1, <2>4
      <3>2. SubSeq(p \o q, 1, Len(p) + j) = SubSeq(p, 1, Len(p)) \o SubSeq(q, 1, j)
        BY <2>1, <2>2, <3>1, CutBehind
      <3>. QED
        BY <2>4, <3>2
    <2>6. SubSeq(q, 1, j) \in [1..j -> Patches] /\ j \in 1..MaxCommit
      <3>1. j \in 1..MaxCommit /\ j \in 0..Len(q)
        BY <2>1, <2>3, <2>4, BoundsAssumption
      <3>. QED
        BY <2>1, <3>1, CutTypes
    <2>7. Len(p) \in (floor - 1)..Len(p)
      BY <1>2, <1>3, <2>2
    <2>8. PatchesOf(stored') = SubSeq(PatchesOf(stored), 1, Len(p)) \o SubSeq(q, 1, j)
      BY <1>11, <1>12, <2>5 DEF p, q
    <2>9. Len(p) \in (floor - 1)..Len(PatchesOf(stored))
      BY <2>7 DEF p
    <2>10. SubSeq(q, 1, j) \in parts
      BY <1>16, <2>6
    <2>. QED
      BY <1>14, <2>8, <2>9, <2>10
  <1>. QED
    BY <1>17, <1>18

\* Actor::new publishes what it recovered.
LEMMA FeedRestarts ==
    ASSUME AckInv, FannedOut, Recovered
    PROVE  F!Restart
  <1>1. TypeInv /\ Agreement
    BY DEF AckInv, IInv, TypeInv
  <1>2. stored \in Seq(Record) /\ Len(stored) \in Nat /\ Version \in Nat
    BY <1>1, CommitFacts, MemTypes DEF TypeInv, TypeOK
  <1>3. /\ pc = "replay" /\ pc' = "idle" /\ published' = Version /\ Version >= Len(stored)
        /\ UNCHANGED <<stored, ring, floor>>
    BY DEF Recovered, storeVars
  <1>4. Version = Len(stored)
    BY <1>1, <1>2, <1>3 DEF Agreement
  <1>5. Len(PatchesOf(stored)) = Len(stored)
    BY <1>2, PatchesSeq
  <1>. QED
    BY <1>3, <1>4, <1>5 DEF F!Restart

\* A log nobody has opened yet is an empty Feed.
LEMMA FeedInits == Init => F!FeedInit
  <1>. SUFFICES ASSUME Init PROVE F!FeedInit
    OBVIOUS
  <1>1. /\ stored = <<>> /\ ring = <<>> /\ published = 0 /\ floor = 1 /\ pc = "idle"
    BY DEF Init
  <1>2. PatchesOf(stored) = <<>> /\ Shown(ring) = <<>>
    BY <1>1 DEF PatchesOf, Shown
  <1>. QED
    BY <1>1, <1>2 DEF F!FeedInit

\* Every step of the actor, by its action: a step of Feed or none.
LEMMA FeedStep ==
    ASSUME "sync" \notin Faults, RingInv, Fits, InBounds, InBounds', [Next]_vars
    PROVE  [F!FeedNext]_(F!feedVars)
  <1>0. AckInv /\ FannedOut
    BY DEF RingInv
  <1>1. ASSUME UNCHANGED <<stored, ring, published, floor>>, Serving' <=> Serving
        PROVE  [F!FeedNext]_(F!feedVars)
    BY <1>1, FeedStutters
  <1>2. ASSUME NEW r \in Req, NEW c \in Commands, Submit(r, c)
        PROVE  [F!FeedNext]_(F!feedVars)
    BY <1>1, <1>2 DEF Submit, sharedVars, storeVars, Serving
  <1>3. CASE Receive \/ Gather \/ Gathered \/ Drained \/ DrainAppend \/ AnswerView
    BY <1>1, <1>3
       DEF Receive, Gather, Take, Gathered, Drained, DrainAppend, AnswerView, sharedVars,
           storeVars, Serving
  <1>4. CASE Flush
    <2>1. Restarted /\ pc = "drain" /\ UNCHANGED <<stored, ring, published, floor>>
      BY <1>4, Restarting DEF Flush, sharedVars, storeVars
    <2>. QED
      BY <1>1, <2>1 DEF Restarted, Serving
  <1>5. CASE RejectPatch \/ WriteFails
    <2>1. /\ Restarted /\ pc \in {"fold", "write"}
          /\ UNCHANGED <<stored, ring, published, floor>>
      BY <1>5, Restarting DEF RejectPatch, WriteFails, InBatch, sharedVars, storeVars
    <2>. QED
      BY <1>1, <2>1 DEF Restarted, Serving
  <1>6. CASE AnswerCheckpoint
    <2>1. /\ pc = "drain" /\ pc' = pc /\ UNCHANGED <<stored, ring, published>>
          /\ Reclaim \/ floor' = floor
      BY <1>6 DEF AnswerCheckpoint, Reading, Checkpoint, CheckpointRefused, CheckpointLate,
                  sharedVars
    <2>. QED
      BY <1>0, <2>1, FeedReclaims DEF Serving, F!FeedNext, F!FeedStep
  <1>7. CASE AutoCheckpoint
    <2>1. /\ pc = "checkpoint" /\ pc' = "floor" /\ UNCHANGED <<stored, ring, published>>
          /\ Reclaim \/ floor' = floor
      BY <1>7 DEF AutoCheckpoint, Checkpoint, CheckpointRefused, CheckpointLate, sharedVars
    <2>. QED
      BY <1>0, <2>1, FeedReclaims DEF Serving, F!FeedNext, F!FeedStep
  <1>8. CASE FoldPatch \/ NextJob \/ Folded \/ Sync \/ Assign \/ NextShare \/ PublishFloor
    BY <1>1, <1>8
       DEF FoldPatch, NextJob, InBatch, Folded, Sync, Assign, NextShare, PublishFloor,
           sharedVars, storeVars, Serving
  <1>9. CASE Write
    BY <1>0, <1>9, FeedCommits DEF F!FeedNext, F!FeedStep
  <1>10. CASE Push
    BY <1>0, <1>10, FeedPushes DEF F!FeedNext, F!FeedStep
  <1>11. CASE Announce
    BY <1>0, <1>11, FeedAnnounces DEF F!FeedNext, F!FeedStep
  <1>12. CASE SyncFails
    BY <1>12 DEF SyncFails, Fault
  <1>13. CASE Acknowledge
    <2>1. /\ pc = "acknowledge" /\ UNCHANGED <<stored, ring, published, floor>>
          /\ pc' = pc \/ Restarted
      BY <1>13, Restarting DEF Acknowledge, sharedVars, storeVars
    <2>. QED
      BY <1>1, <2>1 DEF Restarted, Serving
  <1>14. ASSUME NEW kind \in CrashKinds, Crash(kind)
         PROVE  [F!FeedNext]_(F!feedVars)
    BY <1>0, <1>14, FeedStops DEF F!FeedNext
  <1>15. CASE Load \/ LoadFails \/ Replay \/ Refuse
    BY <1>1, <1>15 DEF Load, LoadFails, Replay, Refuse, sharedVars, storeVars, Serving
  <1>16. CASE Recovered
    BY <1>0, <1>16, FeedRestarts DEF F!FeedNext
  <1>17. CASE Quiet \/ UNCHANGED vars
    BY <1>1, <1>17 DEF Quiet, vars, sharedVars, storeVars, Serving
  <1>. QED
    BY <1>2, <1>3, <1>4, <1>5, <1>6, <1>7, <1>8, <1>9, <1>10, <1>11, <1>12, <1>13, <1>14,
       <1>15, <1>16, <1>17 DEF Next, Actor, Drain, Fold, Store, Publish, Open

\* The actor implements Feed: whatever is batched, isolated, checkpointed, lost in a
\* crash and recovered, what a stream task can see changes only as Feed says
\* (actor.rs: commit, publish; ring.rs).  Flushes that fail are excluded: the records
\* of such a batch stay in the log and are never announced.
THEOREM FeedIsImplemented ==
    ASSUME "sync" \notin Faults
    PROVE  Spec /\ []InBounds => ImplementsFeed
  <1>1. Init => RingInv /\ Fits
    BY RingInvInit, RingCapacityAssumption DEF Init, Fits
  <1>2. RingInv /\ Fits /\ [Next]_vars => RingInv' /\ Fits'
    BY RingInvNext, FitsNext DEF RingInv, AckInv, IInv, TypeInv
  <1>3. RingInv /\ Fits /\ InBounds /\ InBounds' /\ [Next]_vars => [F!FeedNext]_(F!feedVars)
    BY FeedStep
  <1>4. Init => F!FeedInit
    BY FeedInits
  <1>. QED
    BY <1>1, <1>2, <1>3, <1>4, PTL DEF Spec, ImplementsFeed, F!FeedSpec
=============================================================================
