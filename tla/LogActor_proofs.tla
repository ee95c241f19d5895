-------------------------- MODULE LogActor_proofs --------------------------
(***************************************************************************)
(* LogActor keeps its types; memory, the log, the header and every claim   *)
(* of durability agree; and what an acknowledgement promises holds: for    *)
(* every set of requests, commands and states, every structure Apply       *)
(* describes, every limit, and any number of storage failures, crashes and *)
(* power cuts.                                                             *)
(***************************************************************************)
EXTENDS LogActor_inv, SequenceTheorems, TLAPS

-----------------------------------------------------------------------------
(* Type correctness.  TypeOK needs Bookkeeping: only decoded patches may be *)
(* folded, and only jobs that exist may be answered.                        *)

TypeInv == TypeOK /\ Bookkeeping

ReplyType == [status : Statuses, versions : SUBSET Nat, synced : Nat, state : States]

\* What each request carries is a command, whose patches form a sequence.
LEMMA CommandTypes ==
    ASSUME ClientTypes, NEW r \in Req
    PROVE  /\ cmd[r].patches \in Seq(Patches \cup Malformed)
           /\ cmd[r].at \in Nat
  <1>1. cmd[r] \in Commands \/ cmd[r] = NoCommand
    BY DEF ClientTypes
  <1>2. CASE cmd[r] \in Commands
    BY <1>2, CommandsAssumption
  <1>3. CASE cmd[r] = NoCommand
    BY <1>3 DEF NoCommand
  <1>. QED
    BY <1>1, <1>2, <1>3

\* Every answer is a reply.
LEMMA ReplyTypes ==
    /\ \A code \in Statuses, vs \in SUBSET Nat, n \in Nat, s \in States :
          Reply(code, vs, n, s) \in ReplyType
    /\ \A code \in Statuses : Failure(code) \in ReplyType
  BY DataAssumption DEF Failure, Reply, ReplyType

\* Pushing entries leaves a sequence of entries.
LEMMA RingPushType ==
    ASSUME NEW S, NEW r \in Seq(S), NEW b \in Seq(S)
    PROVE  RingPush(r, b) \in Seq(S)
  <1>1. r \o b \in Seq(S)
    OBVIOUS
  <1>2. CASE Len(r \o b) <= RingCapacity
    BY <1>1, <1>2, RingCapacityAssumption DEF RingPush
  <1>3. CASE ~(Len(r \o b) <= RingCapacity)
    BY <1>1, <1>3, SubSeqProperties, RingCapacityAssumption DEF RingPush
  <1>. QED
    BY <1>2, <1>3

\* A sequence over a set is one over any larger set.
LEMMA SeqInclusion ==
    ASSUME NEW S, NEW T, S \subseteq T, NEW s \in Seq(S)
    PROVE  s \in Seq(T)
  OBVIOUS

\* A sequence that has a length has an element.
LEMMA NonEmpty ==
    ASSUME NEW S, NEW s \in Seq(S), Len(s) # 0
    PROVE  s # <<>>
  BY EmptySeq

\* The ends of a non-empty sequence.
LEMMA Ends ==
    ASSUME NEW S, NEW s \in Seq(S), s # <<>>
    PROVE  /\ Len(s) \in Nat \ {0}
           /\ Head(s) \in S /\ Tail(s) \in Seq(S)
           /\ s[1] \in S /\ s[Len(s)] \in S /\ Head(s) = s[1]
           /\ Len(Tail(s)) = Len(s) - 1
  OBVIOUS

\* What is left of a sequence from a place on.
LEMMA FromOn ==
    ASSUME NEW S, NEW s \in Seq(S), NEW k \in Nat \ {0}
    PROVE  /\ SubSeq(s, k, Len(s)) \in Seq(S)
           /\ k = 1 => SubSeq(s, k, Len(s)) = s
           /\ k > Len(s) => SubSeq(s, k, Len(s)) = <<>>
           /\ k <= Len(s) => /\ SubSeq(s, k, Len(s)) # <<>>
                             /\ Head(SubSeq(s, k, Len(s))) = s[k]
                             /\ Tail(SubSeq(s, k, Len(s))) = SubSeq(s, k + 1, Len(s))
  <1>1. /\ Len(s) \in Nat
        /\ \A i \in k..Len(s) : s[i] \in S
    OBVIOUS
  <1>2. SubSeq(s, k, Len(s)) \in Seq(S)
    BY <1>1, SubSeqProperties
  <1>3. k = 1 => SubSeq(s, k, Len(s)) = s
    BY <1>1
  <1>4. k > Len(s) => SubSeq(s, k, Len(s)) = <<>>
    BY <1>1, <1>2
  <1>5. ASSUME k <= Len(s)
        PROVE  /\ SubSeq(s, k, Len(s)) # <<>>
               /\ Head(SubSeq(s, k, Len(s))) = s[k]
               /\ Tail(SubSeq(s, k, Len(s))) = SubSeq(s, k + 1, Len(s))
    <2>1. /\ Len(SubSeq(s, k, Len(s))) = Len(s) - k + 1
          /\ SubSeq(s, k, Len(s))[1] = s[k]
      BY <1>1, <1>5
    <2>2. SubSeq(s, k, Len(s)) # <<>>
      <3>1. Len(s) - k + 1 # 0
        BY <1>1, <1>5
      <3>. QED
        BY <1>2, <2>1, <3>1, NonEmpty
    <2>3. Tail(SubSeq(s, k, Len(s))) = SubSeq(s, k + 1, Len(s))
      BY <1>1, <1>5
    <2>. QED
      BY <1>2, <2>1, <2>2, <2>3, Ends
  <1>. QED
    BY <1>2, <1>3, <1>4, <1>5

\* The place moves on by a patch, a snapshot is put on the structure, and a
\* version goes into an allotment.
LEMMA PlaceTypes ==
    ASSUME NEW a \in [job : Nat \ {0}, patch : Nat \ {0}]
    PROVE  /\ [a EXCEPT !.patch = @ + 1] \in [job : Nat \ {0}, patch : Nat \ {0}]
           /\ [a EXCEPT !.patch = @ + 1].job = a.job
           /\ [a EXCEPT !.patch = @ + 1].patch = a.patch + 1
  OBVIOUS

LEMMA GrownTypes ==
    ASSUME NEW m \in [base : Nat, states : Seq(States)], NEW state \in States
    PROVE  /\ [m EXCEPT !.states = Append(@, state)] \in [base : Nat, states : Seq(States)]
           /\ [m EXCEPT !.states = Append(@, state)].states # <<>>
  <1>1. m.base \in Nat /\ m.states \in Seq(States) /\ Append(m.states, state) \in Seq(States)
    OBVIOUS
  <1>2. Len(Append(m.states, state)) # 0
    BY <1>1
  <1>3. Append(m.states, state) # <<>>
    BY <1>1, <1>2, NonEmpty
  <1>4. [m EXCEPT !.states = Append(@, state)]
           = [base |-> m.base, states |-> Append(m.states, state)]
    OBVIOUS
  <1>. QED
    BY <1>1, <1>3, <1>4

LEMMA AllotTypes ==
    ASSUME NEW a \in Seq(SUBSET Nat), NEW j \in 1..Len(a), NEW v \in Nat
    PROVE  /\ [a EXCEPT ![j] = @ \cup {v}] \in Seq(SUBSET Nat)
           /\ Len([a EXCEPT ![j] = @ \cup {v}]) = Len(a)
           /\ [a EXCEPT ![j] = @ \cup {v}][j] = a[j] \cup {v}
           /\ \A k \in 1..Len(a) : k # j => [a EXCEPT ![j] = @ \cup {v}][k] = a[k]
  <1>1. a[j] \in SUBSET Nat /\ a[j] \cup {v} \in SUBSET Nat /\ a[j] \cup {v} = a[j] \cup {v}
    OBVIOUS
  <1>. DEFINE w == a[j] \cup {v}
  <1>2. w \in SUBSET Nat /\ [a EXCEPT ![j] = @ \cup {v}] = [a EXCEPT ![j] = w]
    BY <1>1
  <1>. HIDE DEF w
  <1>3. /\ [a EXCEPT ![j] = w] \in Seq(SUBSET Nat) /\ Len([a EXCEPT ![j] = w]) = Len(a)
        /\ [a EXCEPT ![j] = w][j] = w
        /\ \A k \in 1..Len(a) : k # j => [a EXCEPT ![j] = w][k] = a[k]
    BY <1>2
  <1>. QED
    BY <1>2, <1>3 DEF w

\* The structure always has a current snapshot, and every version it retains has
\* a state.
LEMMA MemTypes ==
    ASSUME LogTypes
    PROVE  /\ Version \in Nat /\ Current \in States /\ mem.base \in Nat
           /\ mem.states \in Seq(States) /\ Len(mem.states) \in Nat \ {0}
           /\ mem.base <= Version /\ Len(mem.states) = Version - mem.base + 1
           /\ \A v \in mem.base..Version : mem.states[v - mem.base + 1] \in States
  <1>1. /\ mem.base \in Nat /\ mem.states \in Seq(States)
        /\ Len(mem.states) \in Nat \ {0}
    BY DEF LogTypes
  <1>2. Version \in Nat /\ Current \in States /\ mem.base <= Version
    BY <1>1 DEF Version, Current
  <1>3. Len(mem.states) = Version - mem.base + 1
    BY <1>1 DEF Version
  <1>4. ASSUME NEW v \in mem.base..Version
        PROVE  mem.states[v - mem.base + 1] \in States
    <2>1. v - mem.base + 1 \in 1..Len(mem.states)
      BY <1>1, <1>2, <1>3
    <2>. QED
      BY <1>1, <2>1
  <1>. QED
    BY <1>1, <1>2, <1>3, <1>4

\* Cutting the structure leaves a current snapshot.
LEMMA TruncateTypes ==
    ASSUME LogTypes, NEW n \in Nat
    PROVE  /\ Truncate(n) \in [base : Nat, states : Seq(States)]
           /\ Truncate(n).states # <<>>
  <1>1. /\ mem.base \in Nat /\ mem.states \in Seq(States) /\ Version \in Nat
        /\ Len(mem.states) = Version - mem.base + 1
    BY MemTypes
  <1>2. CASE n < mem.base \/ n >= Version
    BY <1>2 DEF Truncate, LogTypes
  <1>3. CASE ~(n < mem.base \/ n >= Version)
    <2>1. /\ SubSeq(mem.states, 1, n - mem.base + 1) \in Seq(States)
          /\ Len(SubSeq(mem.states, 1, n - mem.base + 1)) # 0
      BY <1>1, <1>3
    <2>2. Truncate(n) = [base |-> mem.base,
                         states |-> SubSeq(mem.states, 1, n - mem.base + 1)]
      BY <1>3 DEF Truncate, LogTypes
    <2>3. SubSeq(mem.states, 1, n - mem.base + 1) # <<>>
      BY <2>1, NonEmpty
    <2>. QED
      BY <1>1, <2>1, <2>2, <2>3
  <1>. QED
    BY <1>2, <1>3

\* The initial state has the types and the bookkeeping.
LEMMA TypeInit == Init => TypeInv
  BY DataAssumption DEF Init, TypeInv, TypeOK, ClientTypes, ActorTypes, CommitTypes, LogTypes,
         StoreTypes, SharedTypes, Bookkeeping, Sent, Ready, Failure, Reply, Statuses,
         Points, Committing, FirstPatch, Empty, NoCommand

\* A request once sent stays sent, and its command stays what it was.
LEMMA Monotone ==
    ASSUME TypeOK, [Next]_vars
    PROVE  Sent \subseteq Sent' /\ Ready \subseteq Ready'
  <1>. DEFINE Grows == \A r \in Req : reply[r].status # "unsent" =>
                          reply'[r].status # "unsent" /\ cmd'[r] = cmd[r]
  <1>1. SUFFICES Grows
    BY DEF Sent, Ready
  <1>2. ASSUME cmd' = cmd, NEW q, NEW code \in Statuses \ {"unsent"},
               reply' = [reply EXCEPT ![q] = Failure(code)]
        PROVE  Grows
    BY <1>2 DEF Failure, Reply, TypeOK, ClientTypes
  <1>3. ASSUME UNCHANGED <<cmd, reply>>
        PROVE  Grows
    BY <1>3
  <1>4. ASSUME NEW code \in Statuses \ {"unsent"}, cmd' = cmd, Isolate(code)
        PROVE  Grows
    BY <1>2, <1>3, <1>4 DEF Isolate, Failure, Reply, TypeOK, ClientTypes
  <1>5. ASSUME NEW r \in Req, NEW c \in Commands, Submit(r, c)
        PROVE  Grows
    BY <1>5 DEF Submit, Failure, Reply, TypeOK, ClientTypes
  <1>6. CASE DrainAppend
    BY <1>6 DEF DrainAppend, Failure, Reply, TypeOK, ClientTypes
  <1>7. CASE AnswerView
    BY <1>7 DEF AnswerView, Failure, Reply, TypeOK, ClientTypes
  <1>8. CASE AnswerCheckpoint
    <2>1. PICK rep \in {Reply("ok", {}, 0, Zero), Failure("storage")} :
             reply' = [reply EXCEPT ![Head(queue)] = rep] /\ cmd' = cmd
      BY <1>8 DEF AnswerCheckpoint
    <2>. QED
      BY <2>1 DEF Failure, Reply, TypeOK, ClientTypes
  <1>9. CASE RejectPatch \/ WriteFails \/ SyncFails
    BY <1>4, <1>9 DEF RejectPatch, WriteFails, SyncFails, Statuses
  <1>10. CASE Acknowledge
    BY <1>10 DEF Acknowledge, Reply, TypeOK, ClientTypes
  <1>11. ASSUME NEW kind \in CrashKinds, Crash(kind)
         PROVE  Grows
    BY <1>11 DEF Crash, Failure, Reply, TypeOK, ClientTypes
  <1>12. CASE Refuse
    BY <1>12 DEF Refuse, Failure, Reply, TypeOK, ClientTypes
  <1>13. CASE Receive \/ Gather \/ Gathered \/ Flush \/ Drained
    BY <1>3, <1>13 DEF Receive, Gather, Take, Gathered, Flush, Drained, clientVars
  <1>14. CASE FoldPatch \/ NextJob \/ Folded \/ Write \/ Sync
    BY <1>3, <1>14 DEF FoldPatch, NextJob, Folded, Write, Sync, clientVars
  <1>15. CASE Assign \/ NextShare \/ Push \/ Announce \/ AutoCheckpoint \/ PublishFloor
    BY <1>3, <1>15 DEF Assign, NextShare, Push, Announce, AutoCheckpoint, PublishFloor, clientVars
  <1>16. CASE Load \/ LoadFails \/ Replay \/ Recovered
    BY <1>3, <1>16 DEF Load, LoadFails, Replay, Recovered, clientVars
  <1>17. CASE Quiet \/ UNCHANGED vars
    BY <1>3, <1>17 DEF Quiet, vars, clientVars
  <1>. QED
    BY <1>5, <1>6, <1>7, <1>8, <1>9, <1>10, <1>11, <1>12, <1>13, <1>14, <1>15, <1>16,
       <1>17 DEF Next, Actor, Drain, Fold, Store, Publish, Open

\* Beginning a commit.
LEMMA BeginTypes ==
    ASSUME TypeInv, Ready \subseteq Ready', NEW js \in Seq(Ready), js # <<>>, Begin(js)
    PROVE  /\ CommitTypes' /\ pc' = "fold"
           /\ jobs' \in Seq(Ready') /\ jobs' # <<>> /\ Len(acks') = Len(jobs')
  <1>1. js \in Seq(Ready') /\ js \in Seq(Req)
    BY SeqInclusion DEF Ready, Sent
  <1>2. acks' = [i \in DOMAIN js |-> {}] /\ DOMAIN js = 1..Len(js) /\ Len(js) \in Nat
    BY DEF Begin
  <1>3. acks' \in Seq(SUBSET Nat) /\ Len(acks') = Len(js)
    BY <1>2
  <1>. QED
    BY <1>1, <1>3 DEF Begin, TypeInv, TypeOK, CommitTypes, LogTypes, FirstPatch

\* Ending one.
LEMMA ProceedTypes ==
    ASSUME TypeInv, Ready \subseteq Ready', Proceed
    PROVE  /\ CommitTypes' /\ pc' \in {"fold", "drain"}
           /\ solo' \in Seq(Req) /\ solo' \in Seq(Ready')
           /\ jobs' \in Seq(Ready') /\ (pc' = "fold" => jobs' # <<>> /\ Len(acks') = Len(jobs'))
  <1>1. solo \in Seq(Ready)
    BY DEF TypeInv, Bookkeeping
  <1>2. CASE solo # <<>>
    <2>1. /\ Tail(solo) \in Seq(Ready)
          /\ <<Head(solo)>> \in Seq(Ready) /\ <<Head(solo)>> # <<>>
      BY <1>1, <1>2, Ends
    <2>2. Begin(<<Head(solo)>>) /\ solo' = Tail(solo)
      BY <1>2 DEF Proceed
    <2>3. solo' \in Seq(Req) /\ solo' \in Seq(Ready')
      BY <2>1, <2>2, SeqInclusion DEF Ready, Sent
    <2>. QED
      BY <2>1, <2>2, <2>3, BeginTypes
  <1>3. CASE solo = <<>>
    BY <1>3 DEF Proceed, TypeInv, TypeOK, CommitTypes, LogTypes, FirstPatch
  <1>. QED
    BY <1>2, <1>3

\* A failed append, answered or tried again request by request.
LEMMA IsolateTypes ==
    ASSUME TypeInv, Ready \subseteq Ready', pc \in Committing,
           NEW code \in Statuses, Isolate(code)
    PROVE  /\ CommitTypes' /\ pc' \in {"fold", "drain"}
           /\ reply' \in [Req -> ReplyType]
           /\ solo' \in Seq(Req) /\ solo' \in Seq(Ready')
           /\ jobs' \in Seq(Ready') /\ (pc' = "fold" => jobs' # <<>> /\ Len(acks') = Len(jobs'))
  <1>1. jobs \in Seq(Ready) /\ jobs # <<>> /\ reply \in [Req -> ReplyType]
    BY DEF TypeInv, TypeOK, Bookkeeping, ClientTypes, ReplyType
  <1>2. CASE Len(jobs) = 1
    <2>1. reply' \in [Req -> ReplyType]
      BY <1>1, <1>2, ReplyTypes DEF Isolate
    <2>2. Proceed
      BY <1>2 DEF Isolate
    <2>. QED
      BY <2>1, <2>2, ProceedTypes
  <1>3. CASE Len(jobs) # 1
    <2>1. /\ Tail(jobs) \in Seq(Ready)
          /\ <<Head(jobs)>> \in Seq(Ready) /\ <<Head(jobs)>> # <<>>
      BY <1>1, Ends
    <2>2. Begin(<<Head(jobs)>>) /\ solo' = Tail(jobs) /\ reply' = reply
      BY <1>3 DEF Isolate
    <2>3. solo' \in Seq(Req) /\ solo' \in Seq(Ready')
      BY <2>1, <2>2, SeqInclusion DEF Ready, Sent
    <2>. QED
      BY <1>1, <2>1, <2>2, <2>3, BeginTypes
  <1>. QED
    BY <1>2, <1>3

\* The patch the fold is at, and what it makes of the current state.
LEMMA FoldingTypes ==
    ASSUME TypeInv, InBatch, Remaining
    PROVE  /\ Job \in Req /\ Patch \in Patches
           /\ Current \in States /\ Version \in Nat
           /\ Apply[Patch][Current] # Rejected => Apply[Patch][Current] \in States
  <1>1. at.job \in 1..Len(jobs) /\ at.patch \in Nat \ {0}
    BY DEF TypeInv, TypeOK, CommitTypes, InBatch
  <1>2. Job \in Ready
    BY <1>1 DEF TypeInv, Bookkeeping, Job
  <1>3. Job \in Req /\ cmd[Job].patches \in Seq(Patches)
    BY <1>2 DEF Ready, Sent
  <1>4. Patch \in Patches
    BY <1>1, <1>3 DEF Remaining, Patch
  <1>5. Current \in States /\ Version \in Nat
    BY MemTypes DEF TypeInv, TypeOK
  <1>. QED
    BY <1>3, <1>4, <1>5, DataAssumption

\* Every outcome of a checkpoint.
LEMMA CheckpointTypes ==
    ASSUME TypeOK, Checkpoint \/ CheckpointRefused \/ CheckpointLate
    PROVE  LogTypes' /\ StoreTypes' /\ faults' \in Nat
  <1>1. Version \in Nat /\ Current \in States
    BY MemTypes DEF TypeOK
  <1>2. /\ Len(stored) \in Nat /\ floor \in Nat /\ faults \in Nat /\ watermark \in Nat
        /\ durable \in Nat
    BY DEF TypeOK, StoreTypes, SharedTypes, LogTypes
  <1>3. CASE Checkpoint
    <2>1. floor' \in Nat
      BY <1>1, <1>2, <1>3 DEF Checkpoint, Reclaim
    <2>. QED
      BY <1>1, <1>2, <1>3, <2>1 DEF Checkpoint, TypeOK, LogTypes, StoreTypes
  <1>4. CASE CheckpointRefused
    BY <1>2, <1>4 DEF CheckpointRefused, Fault, TypeOK, LogTypes, StoreTypes, logVars
  <1>5. CASE CheckpointLate
    <2>1. floor' \in Nat
      BY <1>1, <1>2, <1>5 DEF CheckpointLate, Reclaim
    <2>. QED
      BY <1>1, <1>2, <1>5, <2>1
         DEF CheckpointLate, Fault, TypeOK, LogTypes, StoreTypes, logVars
  <1>. QED
    BY <1>3, <1>4, <1>5

\* The jobs of a commit carry decoded patches.
LEMMA JobTypes ==
    ASSUME TypeInv
    PROVE  /\ jobs \in Seq(Req) /\ Len(jobs) \in Nat /\ DOMAIN jobs = 1..Len(jobs)
           /\ \A j \in 1..Len(jobs) :
                 /\ jobs[j] \in Req /\ JobPatches(j) \in Seq(Patches)
                 /\ Len(JobPatches(j)) \in Nat
           /\ at.job \in Nat \ {0} /\ at.patch \in Nat \ {0} /\ offset \in Nat
           /\ views \in Seq(Entry) /\ Len(views) \in Nat
  <1>1. jobs \in Seq(Req) /\ jobs \in Seq(Ready)
    BY DEF TypeInv, TypeOK, CommitTypes, Bookkeeping
  <1>2. ASSUME NEW j \in 1..Len(jobs)
        PROVE  /\ jobs[j] \in Req /\ JobPatches(j) \in Seq(Patches)
               /\ Len(JobPatches(j)) \in Nat
    <2>1. jobs[j] \in Ready /\ jobs[j] \in Req
      BY <1>1
    <2>. QED
      BY <2>1 DEF Ready, JobPatches
  <1>. QED
    BY <1>1, <1>2 DEF TypeInv, TypeOK, CommitTypes

\* The view Assign is at is that of the patch it is at: the running offset has
\* not left the share of its job.
LEMMA NextView ==
    ASSUME TypeInv, Laid, pc = "assign", at.job <= Len(jobs), Remaining
    PROVE  /\ at.job \in 1..Len(jobs) /\ Job \in Req /\ Patch \in Patches
           /\ offset + at.patch \in 1..Len(views)
           /\ views[offset + at.patch] \in Entry
           /\ views[offset + at.patch].req = Job
           /\ views[offset + at.patch].patch = Patch
  <1>1. PICK j \in 1..Len(jobs) : j = at.job
    BY JobTypes
  <1>2. PICK i \in 1..Len(JobPatches(j)) : i = at.patch
    BY <1>1, JobTypes DEF Remaining, Job, JobPatches
  <1>3. PICK st \in Seq(Nat) : Spread(st, Len(jobs) + 1) /\ offset = st[at.job]
    BY DEF Laid
  <1>4. /\ j \in 1..(Len(jobs) + 1) /\ j + 1 \in 1..(Len(jobs) + 1) /\ j < Len(jobs) + 1
        /\ j <= Len(jobs)
    BY <1>1, JobTypes
  <1>5. /\ st[j] \in Nat /\ st[j + 1] = st[j] + Len(JobPatches(j)) /\ st[j + 1] <= Len(views)
    BY <1>3, <1>4 DEF Spread
  <1>6. st[j] + i \in 1..Len(views)
    <2>1. PICK c \in Nat : c = Len(JobPatches(j))
      BY JobTypes
    <2>2. PICK m \in Nat : m = Len(views)
      BY JobTypes
    <2>3. PICK b \in Nat : b = st[j]
      BY <1>5
    <2>4. i \in 1..c /\ b + c <= m
      BY <1>5, <2>1, <2>2, <2>3
    <2>5. b + i \in 1..m
      BY <2>4
    <2>. QED
      BY <2>2, <2>3, <2>5
  <1>7. /\ views[st[j] + i].req = jobs[j] /\ views[st[j] + i].patch = JobPatches(j)[i]
    <2>1. st[j] + i <= Len(views)
      BY <1>5, <1>6, JobTypes
    <2>. QED
      BY <1>3, <1>4, <2>1 DEF Spread
  <1>8. jobs[j] \in Req /\ JobPatches(j)[i] \in Patches
    BY JobTypes
  <1>9. offset + at.patch = st[j] + i
    BY <1>1, <1>2, <1>3
  <1>10. Job = jobs[j] /\ Patch = JobPatches(j)[i]
    BY <1>1, <1>2 DEF Job, Patch, JobPatches
  <1>11. views[st[j] + i] \in Entry
    BY <1>6, JobTypes
  <1>. QED
    BY <1>1, <1>6, <1>7, <1>8, <1>9, <1>10, <1>11

\* Every step keeps the types and the bookkeeping.  Two actions need the rest of
\* the invariant: the snapshot AnswerView names has to be one memory holds, and
\* the view Assign is at has to exist.
LEMMA TypeNext == IInv /\ [Next]_vars => TypeInv'
  <1>. SUFFICES ASSUME TypeInv, Agreement, Laid, [Next]_vars PROVE TypeInv'
    BY DEF IInv, TypeInv
  <1>1. Sent \subseteq Sent' /\ Ready \subseteq Ready'
    BY Monotone DEF TypeInv
  <1>2. /\ inbox \in Seq(Sent') /\ queue \in Seq(Sent')
        /\ batch \in Seq(Ready') /\ jobs \in Seq(Ready') /\ solo \in Seq(Ready')
    BY <1>1, SeqInclusion DEF TypeInv, Bookkeeping
  <1>. USE DEF TypeInv, TypeOK
  <1>3. ASSUME NEW r \in Req, NEW c \in Commands, Submit(r, c)
        PROVE  TypeInv'
    <2>1. CommitTypes' /\ LogTypes' /\ StoreTypes' /\ SharedTypes'
      BY <1>3 DEF Submit, CommitTypes, LogTypes, StoreTypes, SharedTypes, commitVars,
                  logVars, storeVars, sharedVars, faultVars
    <2>2. ClientTypes'
      BY <1>3, ReplyTypes DEF Submit, ClientTypes, ReplyType, Statuses
    <2>3. ActorTypes'
      BY <1>3 DEF Submit, ActorTypes, actorVars
    <2>4. r \in Sent'
      BY <1>3 DEF Submit, Sent, ClientTypes, Failure, Reply
    <2>5. Bookkeeping'
      BY <1>2, <1>3, <2>4 DEF Submit, Bookkeeping, actorVars, commitVars
    <2>. QED
      BY <2>1, <2>2, <2>3, <2>5
  <1>4. CASE Receive \/ Gather
    <2>1. Take /\ pc' = "gather"
      BY <1>4 DEF Receive, Gather
    <2>2. /\ Head(inbox) \in Sent' /\ Tail(inbox) \in Seq(Sent')
          /\ Head(inbox) \in Req /\ Tail(inbox) \in Seq(Req)
      BY <1>2, <2>1, Ends DEF Take, ActorTypes
    <2>3. ClientTypes' /\ CommitTypes' /\ LogTypes' /\ StoreTypes' /\ SharedTypes'
      BY <2>1 DEF Take, ClientTypes, CommitTypes, LogTypes, StoreTypes, SharedTypes,
                  clientVars, commitVars, logVars, storeVars, sharedVars, faultVars
    <2>4. ActorTypes'
      BY <2>1, <2>2, CommandTypes DEF Take, ActorTypes, Points
    <2>5. Bookkeeping'
      BY <1>2, <2>1, <2>2 DEF Take, Bookkeeping, commitVars, Committing
    <2>. QED
      BY <2>3, <2>4, <2>5
  <1>5. CASE Gathered \/ Drained
    <2>1. ClientTypes' /\ CommitTypes' /\ LogTypes' /\ StoreTypes' /\ SharedTypes'
      BY <1>5 DEF Gathered, Drained, ClientTypes, CommitTypes, LogTypes, StoreTypes,
                  SharedTypes, clientVars, commitVars, logVars, storeVars, sharedVars,
                  faultVars
    <2>2. ActorTypes'
      BY <1>5 DEF Gathered, Drained, ActorTypes, actorVars, Points
    <2>3. Bookkeeping'
      BY <1>2, <1>5 DEF Gathered, Drained, Bookkeeping, actorVars, commitVars, Committing
    <2>. QED
      BY <2>1, <2>2, <2>3
  <1>6. CASE DrainAppend
    <2>1. CommitTypes' /\ LogTypes' /\ StoreTypes' /\ SharedTypes'
      BY <1>6 DEF DrainAppend, CommitTypes, LogTypes, StoreTypes, SharedTypes,
                  commitVars, logVars, storeVars, sharedVars, faultVars
    <2>2. /\ Head(queue) \in Sent /\ Head(queue) \in Req
          /\ Tail(queue) \in Seq(Sent') /\ Tail(queue) \in Seq(Req)
      BY <1>2, <1>6, Ends DEF DrainAppend, ActorTypes, Bookkeeping
    <2>3. ClientTypes'
      BY <1>6, ReplyTypes DEF DrainAppend, ClientTypes, ReplyType, Statuses
    <2>4. ActorTypes'
      BY <1>6, <2>2 DEF DrainAppend, ActorTypes
    <2>5. (\A i \in DOMAIN cmd[Head(queue)].patches :
             cmd[Head(queue)].patches[i] \in Patches) => Head(queue) \in Ready'
      <3>1. cmd[Head(queue)].patches \in Seq(Patches \cup Malformed)
        BY <2>2, CommandTypes
      <3>. QED
        BY <1>1, <2>2, <3>1 DEF Ready
    <2>6. Bookkeeping'
      BY <1>2, <1>6, <2>2, <2>5 DEF DrainAppend, Bookkeeping, commitVars
    <2>. QED
      BY <2>1, <2>3, <2>4, <2>6
  <1>7. CASE Flush
    <2>1. ClientTypes' /\ LogTypes' /\ StoreTypes' /\ SharedTypes'
      BY <1>7 DEF Flush, ClientTypes, LogTypes, StoreTypes, SharedTypes, clientVars,
                  logVars, storeVars, sharedVars, faultVars
    <2>2. /\ CommitTypes' /\ pc' = "fold" /\ jobs' \in Seq(Ready') /\ jobs' # <<>>
          /\ Len(acks') = Len(jobs')
      BY <1>1, <1>7, BeginTypes DEF Flush, Bookkeeping
    <2>3. ActorTypes'
      BY <1>7, <2>2 DEF Flush, ActorTypes, Points
    <2>4. Bookkeeping'
      BY <1>2, <1>7, <2>2 DEF Flush, Bookkeeping
    <2>. QED
      BY <2>1, <2>2, <2>3, <2>4
  <1>8. CASE AnswerView
    <2>1. CommitTypes' /\ LogTypes' /\ StoreTypes' /\ SharedTypes'
      BY <1>8 DEF AnswerView, CommitTypes, LogTypes, StoreTypes, SharedTypes,
                  commitVars, logVars, storeVars, sharedVars, faultVars
    <2>2. /\ Head(queue) \in Req /\ Tail(queue) \in Seq(Sent')
          /\ Tail(queue) \in Seq(Req)
      BY <1>2, <1>8, Ends DEF AnswerView, Reading, ActorTypes
    <2>3. ActorTypes' /\ Bookkeeping'
      BY <1>2, <1>8, <2>2 DEF AnswerView, Reading, ActorTypes, Bookkeeping, commitVars
    <2>4. ClientTypes'
      <3>. DEFINE r == Head(queue)
                  latest == cmd[r].kind = "view"
                  v == IF latest THEN Version ELSE cmd[r].at
                  state == IF Reducible THEN mem.states[v - mem.base + 1] ELSE Zero
      <3>1. v \in Nat /\ synced \in Nat
        BY <2>2, CommandTypes, MemTypes DEF LogTypes
      <3>2. latest \/ Retained(v) => state \in States
        <4>1. Version = Len(stored) /\ watermark = Len(stored)
          BY <1>8 DEF AnswerView, Reading, Agreement, AtEnd, Holds, Version
        <4>2. ASSUME latest \/ Retained(v), Reducible
              PROVE  v \in mem.base..Version
          <5>1. CASE latest
            BY <5>1, MemTypes
          <5>2. CASE ~latest
            BY <3>1, <4>1, <4>2, <5>2, MemTypes DEF Retained
          <5>. QED
            BY <5>1, <5>2
        <4>. QED
          BY <4>2, MemTypes, DataAssumption
      <3>3. (IF latest \/ Retained(v) THEN Reply("ok", {v}, synced, state)
             ELSE Failure("out_of_range")) \in ReplyType
        BY <3>1, <3>2, ReplyTypes DEF Statuses
      <3>. QED
        BY <1>8, <2>2, <3>3 DEF AnswerView, ClientTypes, ReplyType
    <2>. QED
      BY <2>1, <2>3, <2>4
  <1>9. CASE AnswerCheckpoint
    <2>1. CommitTypes'
      BY <1>9 DEF AnswerCheckpoint, CommitTypes, commitVars
    <2>2. Checkpoint \/ CheckpointRefused \/ CheckpointLate
      BY <1>9 DEF AnswerCheckpoint
    <2>3. LogTypes' /\ StoreTypes' /\ SharedTypes'
      BY <1>9, <2>2, CheckpointTypes DEF AnswerCheckpoint, SharedTypes, sharedVars
    <2>4. /\ Head(queue) \in Req /\ Tail(queue) \in Seq(Sent')
          /\ Tail(queue) \in Seq(Req)
      BY <1>2, <1>9, Ends DEF AnswerCheckpoint, Reading, ActorTypes
    <2>5. ActorTypes' /\ Bookkeeping'
      BY <1>2, <1>9, <2>4
         DEF AnswerCheckpoint, Reading, ActorTypes, Bookkeeping, commitVars, LogTypes
    <2>6. ClientTypes'
      <3>1. PICK rep \in {Reply("ok", {}, 0, Zero), Failure("storage")} :
               reply' = [reply EXCEPT ![Head(queue)] = rep]
        BY <1>9 DEF AnswerCheckpoint
      <3>2. rep \in ReplyType
        BY <3>1, ReplyTypes, DataAssumption DEF Statuses
      <3>. QED
        BY <1>9, <2>4, <3>1, <3>2 DEF AnswerCheckpoint, ClientTypes, ReplyType
    <2>. QED
      BY <2>1, <2>3, <2>5, <2>6
  <1>10. CASE FoldPatch
    <2>1. ClientTypes' /\ ActorTypes' /\ StoreTypes' /\ SharedTypes'
      BY <1>10 DEF FoldPatch, ClientTypes, ActorTypes, StoreTypes, SharedTypes,
                   clientVars, actorVars, storeVars, sharedVars, faultVars
    <2>2. /\ Job \in Req /\ Patch \in Patches /\ Current \in States /\ Version \in Nat
          /\ Apply[Patch][Current] \in States
      BY <1>10, FoldingTypes DEF FoldPatch
    <2>. DEFINE mints == Mints(Patch, Current)
                next == Apply[Patch][Current]
                version == IF mints THEN Version + 1 ELSE Version
                view == [version |-> version, patch |-> Patch, req |-> Job]
                record == [version |-> version, patch |-> Patch, req |-> Job,
                           state |-> next]
    <2>3. view \in Entry /\ record \in Record
      BY <2>2 DEF Entry, Record
    <2>4. /\ mem' = IF mints THEN [mem EXCEPT !.states = Append(@, next)] ELSE mem
          /\ records' = IF mints THEN Append(records, record) ELSE records
          /\ views' = Append(views, view)
          /\ at' = [at EXCEPT !.patch = @ + 1]
          /\ UNCHANGED <<jobs, last, offset, acks, entries, claim, watermark, synced>>
      BY <1>10 DEF FoldPatch
    <2>. HIDE DEF mints, next, view, record
    <2>5. CommitTypes'
      <3>1. Append(records, record) \in Seq(Record) /\ Append(views, view) \in Seq(Entry)
        BY <2>3 DEF CommitTypes
      <3>2. [at EXCEPT !.patch = @ + 1] \in [job : Nat \ {0}, patch : Nat \ {0}]
        BY PlaceTypes DEF CommitTypes
      <3>. QED
        BY <2>4, <3>1, <3>2 DEF CommitTypes
    <2>6. LogTypes'
      <3>1. /\ [mem EXCEPT !.states = Append(@, next)] \in [base : Nat, states : Seq(States)]
            /\ [mem EXCEPT !.states = Append(@, next)].states # <<>>
        BY <2>2, GrownTypes DEF LogTypes, next
      <3>. QED
        BY <2>4, <3>1 DEF LogTypes
    <2>7. Bookkeeping'
      BY <1>2, <1>10 DEF FoldPatch, InBatch, Bookkeeping, actorVars
    <2>. QED
      BY <2>1, <2>5, <2>6, <2>7
  <1>11. CASE NextJob
    <2>1. ClientTypes' /\ ActorTypes' /\ LogTypes' /\ StoreTypes' /\ SharedTypes'
      BY <1>11 DEF NextJob, ClientTypes, ActorTypes, LogTypes, StoreTypes, SharedTypes,
                   clientVars, actorVars, logVars, storeVars, sharedVars, faultVars
    <2>2. CommitTypes' /\ Bookkeeping'
      BY <1>2, <1>11 DEF NextJob, CommitTypes, Bookkeeping, actorVars
    <2>. QED
      BY <2>1, <2>2
  <1>12. CASE RejectPatch
    <2>1. StoreTypes' /\ SharedTypes'
      BY <1>12 DEF RejectPatch, StoreTypes, SharedTypes, storeVars, sharedVars, faultVars
    <2>2. /\ CommitTypes' /\ pc' \in {"fold", "drain"}
          /\ reply' \in [Req -> ReplyType]
          /\ solo' \in Seq(Req) /\ solo' \in Seq(Ready')
          /\ jobs' \in Seq(Ready') /\ (pc' = "fold" => jobs' # <<>> /\ Len(acks') = Len(jobs'))
      BY <1>1, <1>12, IsolateTypes DEF RejectPatch, InBatch, Committing, Statuses
    <2>3. ClientTypes' /\ ActorTypes' /\ Bookkeeping'
      BY <1>2, <1>12, <2>2 DEF RejectPatch, ClientTypes, ActorTypes, Bookkeeping,
                               ReplyType, Points, Committing
    <2>4. LogTypes'
      BY <1>12, TruncateTypes DEF RejectPatch, LogTypes, CommitTypes
    <2>. QED
      BY <2>1, <2>2, <2>3, <2>4
  <1>13. CASE Folded
    <2>1. /\ ClientTypes' /\ CommitTypes' /\ LogTypes' /\ StoreTypes' /\ SharedTypes'
      BY <1>13 DEF Folded, ClientTypes, CommitTypes, LogTypes, StoreTypes, SharedTypes,
                   FirstPatch, clientVars, logVars, storeVars, sharedVars, faultVars
    <2>2. ActorTypes' /\ Bookkeeping'
      BY <1>2, <1>13 DEF Folded, ActorTypes, Bookkeeping, actorVars, Points, Committing
    <2>. QED
      BY <2>1, <2>2
  <1>14. CASE Write
    <2>1. ClientTypes' /\ CommitTypes' /\ SharedTypes'
      BY <1>14 DEF Write, ClientTypes, CommitTypes, SharedTypes, clientVars, commitVars,
                   sharedVars, faultVars
    <2>2. records \in Seq(Record) /\ records # <<>>
      BY <1>14 DEF Write, Bookkeeping, CommitTypes
    <2>3. records[Len(records)] \in Record
      BY <2>2
    <2>4. LogTypes' /\ StoreTypes'
      BY <1>14, <2>2, <2>3 DEF Write, LogTypes, StoreTypes, Record
    <2>5. ActorTypes' /\ Bookkeeping'
      BY <1>2, <1>14 DEF Write, ActorTypes, Bookkeeping, actorVars, commitVars, Points,
                         Committing
    <2>. QED
      BY <2>1, <2>4, <2>5
  <1>15. CASE WriteFails
    <2>1. /\ CommitTypes' /\ pc' \in {"fold", "drain"}
          /\ reply' \in [Req -> ReplyType]
          /\ solo' \in Seq(Req) /\ solo' \in Seq(Ready')
          /\ jobs' \in Seq(Ready') /\ (pc' = "fold" => jobs' # <<>> /\ Len(acks') = Len(jobs'))
      BY <1>1, <1>15, IsolateTypes DEF WriteFails, Committing, Statuses
    <2>2. ClientTypes' /\ ActorTypes' /\ Bookkeeping'
      BY <1>2, <1>15, <2>1 DEF WriteFails, ClientTypes, ActorTypes, Bookkeeping,
                               ReplyType, Points, Committing
    <2>3. LogTypes'
      BY <1>15, TruncateTypes DEF WriteFails, LogTypes, CommitTypes
    <2>4. StoreTypes' /\ SharedTypes'
      BY <1>15 DEF WriteFails, Fault, StoreTypes, SharedTypes, CommitTypes, sharedVars
    <2>. QED
      BY <2>1, <2>2, <2>3, <2>4
  <1>16. CASE Sync
    <2>1. ClientTypes' /\ CommitTypes' /\ SharedTypes'
      BY <1>16 DEF Sync, ClientTypes, CommitTypes, SharedTypes, clientVars, commitVars,
                   sharedVars, faultVars
    <2>2. LogTypes' /\ StoreTypes'
      BY <1>16 DEF Sync, LogTypes, StoreTypes
    <2>3. ActorTypes' /\ Bookkeeping'
      BY <1>2, <1>16 DEF Sync, ActorTypes, Bookkeeping, actorVars, commitVars, Points,
                         Committing
    <2>. QED
      BY <2>1, <2>2, <2>3
  <1>17. CASE SyncFails
    <2>1. LogTypes' /\ StoreTypes' /\ SharedTypes'
      BY <1>17 DEF SyncFails, Fault, LogTypes, StoreTypes, SharedTypes, logVars,
                   storeVars, sharedVars
    <2>2. /\ CommitTypes' /\ pc' \in {"fold", "drain"}
          /\ reply' \in [Req -> ReplyType]
          /\ solo' \in Seq(Req) /\ solo' \in Seq(Ready')
          /\ jobs' \in Seq(Ready') /\ (pc' = "fold" => jobs' # <<>> /\ Len(acks') = Len(jobs'))
      BY <1>1, <1>17, IsolateTypes DEF SyncFails, Committing, Statuses
    <2>3. ClientTypes' /\ ActorTypes' /\ Bookkeeping'
      BY <1>2, <1>17, <2>2 DEF SyncFails, ClientTypes, ActorTypes, Bookkeeping,
                               ReplyType, Points, Committing
    <2>. QED
      BY <2>1, <2>2, <2>3
  <1>18. CASE Assign
    <2>1. ClientTypes' /\ ActorTypes' /\ LogTypes' /\ StoreTypes' /\ SharedTypes'
      BY <1>18 DEF Assign, ClientTypes, ActorTypes, LogTypes, StoreTypes, SharedTypes,
                   clientVars, actorVars, logVars, storeVars, sharedVars, faultVars
    <2>. DEFINE version == views[offset + at.patch].version
                entry == [version |-> version, patch |-> Patch, req |-> Job]
    <2>2. /\ at' = [at EXCEPT !.patch = @ + 1]
          /\ UNCHANGED <<jobs, views, records, offset, claim>>
          /\ \/ UNCHANGED <<acks, entries, last>>
             \/ /\ acks' = [acks EXCEPT ![at.job] = @ \cup {version}]
                /\ entries' = Append(entries, entry) /\ last' = version
      BY <1>18 DEF Assign
    <2>3. version \in Nat /\ entry \in Entry
      <3>1. /\ views[offset + at.patch] \in Entry
            /\ Job \in Req /\ Patch \in Patches
        BY <1>18, NextView DEF Assign
      <3>. QED
        BY <3>1 DEF Entry
    <2>6. at.job \in 1..Len(acks)
      BY <1>18, NextView DEF Assign, Bookkeeping, Committing
    <2>. HIDE DEF version, entry
    <2>4. CommitTypes'
      <3>1. [at EXCEPT !.patch = @ + 1] \in [job : Nat \ {0}, patch : Nat \ {0}]
        BY PlaceTypes DEF CommitTypes
      <3>2. [acks EXCEPT ![at.job] = @ \cup {version}] \in Seq(SUBSET Nat)
        BY <2>3, <2>6, AllotTypes DEF CommitTypes
      <3>3. Append(entries, entry) \in Seq(Entry)
        BY <2>3 DEF CommitTypes
      <3>. QED
        BY <2>2, <2>3, <3>1, <3>2, <3>3 DEF CommitTypes
    <2>5. Bookkeeping'
      <3>1. Len(acks') = Len(acks)
        BY <2>2, <2>3, <2>6, AllotTypes DEF CommitTypes
      <3>. QED
        BY <1>2, <1>18, <3>1 DEF Assign, Bookkeeping, actorVars, Committing
    <2>. QED
      BY <2>1, <2>4, <2>5
  <1>30. CASE NextShare
    <2>1. ClientTypes' /\ ActorTypes' /\ LogTypes' /\ StoreTypes' /\ SharedTypes'
      BY <1>30 DEF NextShare, ClientTypes, ActorTypes, LogTypes, StoreTypes, SharedTypes,
                   clientVars, actorVars, logVars, storeVars, sharedVars, faultVars
    <2>2. Len(cmd[Job].patches) \in Nat
      <3>1. at.job \in 1..Len(jobs)
        BY <1>30, JobTypes DEF NextShare
      <3>. QED
        BY <3>1, JobTypes DEF Job, JobPatches
    <2>3. CommitTypes'
      BY <1>30, <2>2 DEF NextShare, CommitTypes
    <2>4. Bookkeeping'
      BY <1>2, <1>30 DEF NextShare, Bookkeeping, actorVars, Committing
    <2>. QED
      BY <2>1, <2>3, <2>4
  <1>19. CASE Push
    <2>1. ClientTypes' /\ LogTypes' /\ StoreTypes'
      BY <1>19 DEF Push, ClientTypes, LogTypes, StoreTypes, clientVars, logVars, storeVars
    <2>2. CommitTypes' /\ ActorTypes'
      BY <1>19 DEF Push, CommitTypes, ActorTypes, LogTypes, actorVars, Points
    <2>3. SharedTypes'
      BY <1>19, RingPushType DEF Push, SharedTypes, CommitTypes, faultVars
    <2>4. Bookkeeping'
      BY <1>2, <1>19 DEF Push, Bookkeeping, actorVars, Committing
    <2>. QED
      BY <2>1, <2>2, <2>3, <2>4
  <1>20. CASE Announce \/ PublishFloor
    <2>1. ClientTypes' /\ CommitTypes' /\ LogTypes' /\ StoreTypes'
      BY <1>20 DEF Announce, PublishFloor, ClientTypes, CommitTypes, LogTypes,
                   StoreTypes, clientVars, commitVars, logVars, storeVars
    <2>2. SharedTypes'
      BY <1>20 DEF Announce, PublishFloor, SharedTypes, LogTypes, StoreTypes, faultVars
    <2>3. ActorTypes' /\ Bookkeeping'
      BY <1>2, <1>20 DEF Announce, PublishFloor, ActorTypes, Bookkeeping, actorVars,
                         commitVars, Points, Committing
    <2>. QED
      BY <2>1, <2>2, <2>3
  <1>21. CASE AutoCheckpoint
    <2>1. ClientTypes' /\ CommitTypes'
      BY <1>21 DEF AutoCheckpoint, ClientTypes, CommitTypes, clientVars, commitVars
    <2>2. LogTypes' /\ StoreTypes' /\ SharedTypes'
      BY <1>21, CheckpointTypes DEF AutoCheckpoint, SharedTypes, sharedVars
    <2>3. ActorTypes' /\ Bookkeeping'
      BY <1>2, <1>21 DEF AutoCheckpoint, ActorTypes, LogTypes, Bookkeeping, commitVars,
                         Points, Committing
    <2>. QED
      BY <2>1, <2>2, <2>3
  <1>22. CASE Acknowledge
    <2>1. LogTypes' /\ StoreTypes' /\ SharedTypes'
      BY <1>22 DEF Acknowledge, LogTypes, StoreTypes, SharedTypes, logVars, storeVars,
                   sharedVars, faultVars
    <2>2. jobs # <<>> /\ jobs \in Seq(Ready')
      BY <1>2, <1>22 DEF Acknowledge, Bookkeeping, Committing
    <2>3. /\ acks # <<>> /\ Head(acks) \in SUBSET Nat /\ Tail(acks) \in Seq(SUBSET Nat)
          /\ Len(Tail(acks)) = Len(Tail(jobs))
      <3>1. Len(acks) = Len(jobs) /\ Len(jobs) # 0
        BY <1>22, <2>2 DEF Acknowledge, Bookkeeping, Committing, CommitTypes
      <3>. QED
        BY <2>2, <3>1, Ends DEF CommitTypes
    <2>4. ClientTypes'
      BY <1>22, <2>3, ReplyTypes, DataAssumption
         DEF Acknowledge, ClientTypes, CommitTypes, ReplyType, Statuses
    <2>5. CASE Len(jobs) > 1
      <3>1. Tail(jobs) \in Seq(Ready') /\ Tail(jobs) \in Seq(Req) /\ Tail(jobs) # <<>>
        <4>1. Tail(jobs) \in Seq(Ready')
          BY <2>2, Ends
        <4>2. Len(Tail(jobs)) # 0
          BY <2>2, <2>5, Ends
        <4>3. Tail(jobs) \in Seq(Req)
          BY <2>2, Ends DEF CommitTypes
        <4>4. Tail(jobs) # <<>>
          BY <4>1, <4>2, NonEmpty
        <4>. QED
          BY <4>1, <4>3, <4>4
      <3>2. CommitTypes' /\ ActorTypes' /\ Bookkeeping'
        BY <1>2, <1>22, <2>3, <2>5, <3>1
           DEF Acknowledge, CommitTypes, ActorTypes, Bookkeeping
      <3>. QED
        BY <2>1, <2>4, <3>2
    <2>6. CASE ~(Len(jobs) > 1)
      <3>1. Proceed
        BY <1>22, <2>6 DEF Acknowledge
      <3>2. /\ CommitTypes' /\ pc' \in {"fold", "drain"}
            /\ solo' \in Seq(Req) /\ solo' \in Seq(Ready')
            /\ jobs' \in Seq(Ready') /\ (pc' = "fold" => jobs' # <<>> /\ Len(acks') = Len(jobs'))
        BY <1>1, <3>1, ProceedTypes
      <3>3. ActorTypes' /\ Bookkeeping'
        BY <1>2, <1>22, <3>2
           DEF Acknowledge, ActorTypes, Bookkeeping, Points, Committing
      <3>. QED
        BY <2>1, <2>4, <3>2, <3>3
    <2>. QED
      BY <2>5, <2>6
  <1>23. ASSUME NEW kind \in CrashKinds, Crash(kind)
         PROVE  TypeInv'
    <2>1. ClientTypes'
      BY <1>23, ReplyTypes DEF Crash, ClientTypes, ReplyType, Statuses
    <2>2. ActorTypes' /\ CommitTypes' /\ LogTypes' /\ Bookkeeping'
      BY <1>23, DataAssumption
         DEF Crash, ActorTypes, CommitTypes, LogTypes, Bookkeeping, Points, Committing,
             FirstPatch, Empty
    <2>3. SharedTypes'
      BY <1>23 DEF Crash, SharedTypes
    <2>4. stored \o InFlight \in Seq(Record) /\ durable \in Nat
      BY DEF InFlight, StoreTypes, CommitTypes
    <2>5. stored' \in Seq(Record)
      <3>1. PICK n \in Nat : /\ n <= Len(stored \o InFlight)
                             /\ stored' = SubSeq(stored \o InFlight, 1, n)
        <4>. DEFINE least == IF kind = "power" THEN durable ELSE Len(stored)
        <4>1. \E n \in least..Len(stored \o InFlight) :
                 stored' = SubSeq(stored \o InFlight, 1, n)
          BY <1>23 DEF Crash
        <4>2. least \in Nat
          BY <2>4 DEF StoreTypes
        <4>. HIDE DEF least
        <4>. QED
          BY <2>4, <4>1, <4>2
      <3>. QED
        BY <2>4, <3>1
    <2>6. StoreTypes'
      BY <1>23, <2>5 DEF Crash, StoreTypes
    <2>. QED
      BY <2>1, <2>2, <2>3, <2>6
  <1>24. CASE Load
    <2>1. ClientTypes' /\ CommitTypes' /\ SharedTypes'
      BY <1>24 DEF Load, ClientTypes, CommitTypes, SharedTypes, clientVars, commitVars,
                   sharedVars, faultVars
    <2>2. LogTypes' /\ StoreTypes'
      BY <1>24 DEF Load, LogTypes, StoreTypes
    <2>3. ActorTypes' /\ Bookkeeping'
      BY <1>2, <1>24 DEF Load, ActorTypes, Bookkeeping, actorVars, commitVars, Points,
                         Committing
    <2>. QED
      BY <2>1, <2>2, <2>3
  <1>25. CASE LoadFails
    <2>1. ClientTypes' /\ CommitTypes' /\ LogTypes' /\ StoreTypes' /\ SharedTypes'
      BY <1>25 DEF LoadFails, Fault, ClientTypes, CommitTypes, LogTypes, StoreTypes,
                   SharedTypes, clientVars, commitVars, logVars, storeVars, sharedVars
    <2>2. ActorTypes' /\ Bookkeeping'
      BY <1>2, <1>25 DEF LoadFails, ActorTypes, Bookkeeping, actorVars, commitVars,
                         Points, Committing
    <2>. QED
      BY <2>1, <2>2
  <1>26. CASE Replay
    <2>1. ClientTypes' /\ CommitTypes' /\ StoreTypes' /\ SharedTypes'
      BY <1>26 DEF Replay, ClientTypes, CommitTypes, StoreTypes, SharedTypes, clientVars,
                   commitVars, storeVars, sharedVars, faultVars
    <2>2. Current \in States /\ stored[Version + 1].patch \in Patches
      <3>1. Version + 1 \in 1..Len(stored)
        BY <1>26, MemTypes DEF Replay, StoreTypes
      <3>2. stored[Version + 1] \in Record
        BY <3>1 DEF StoreTypes
      <3>. QED
        BY <3>2, MemTypes DEF Record
    <2>3. LogTypes'
      <3>1. CASE Replayable(stored[Version + 1].patch)
        <4>. DEFINE next == Apply[stored[Version + 1].patch][Current]
        <4>1. next \in States
          BY <2>2, <3>1, DataAssumption DEF Replayable
        <4>2. /\ mem' = [mem EXCEPT !.states = Append(@, next)]
              /\ watermark' = watermark /\ synced' = synced
          BY <1>26, <3>1 DEF Replay
        <4>. HIDE DEF next
        <4>3. mem.base \in Nat /\ mem.states \in Seq(States)
          BY MemTypes
        <4>4. Append(mem.states, next) \in Seq(States)
          BY <4>1, <4>3
        <4>5. Append(mem.states, next) # <<>>
          BY <4>1, <4>3, Len(Append(mem.states, next)) = Len(mem.states) + 1, Len(mem.states) \in Nat
        <4>6. mem' = [base |-> mem.base, states |-> Append(mem.states, next)]
          BY <4>2 DEF LogTypes
        <4>. QED
          BY <4>2, <4>3, <4>6, <4>4, <4>5 DEF LogTypes
      <3>2. CASE ~Replayable(stored[Version + 1].patch)
        BY <1>26, <3>2 DEF Replay, LogTypes
      <3>. QED
        BY <3>1, <3>2
    <2>4. ActorTypes' /\ Bookkeeping'
      BY <1>2, <1>26 DEF Replay, ActorTypes, Bookkeeping, actorVars, commitVars, Points,
                         Committing
    <2>. QED
      BY <2>1, <2>3, <2>4
  <1>27. CASE Recovered
    <2>1. ClientTypes' /\ StoreTypes'
      BY <1>27 DEF Recovered, ClientTypes, StoreTypes, clientVars, storeVars
    <2>2. CommitTypes' /\ LogTypes' /\ SharedTypes'
      BY <1>27, MemTypes DEF Recovered, CommitTypes, LogTypes, SharedTypes, StoreTypes,
                             faultVars
    <2>3. ActorTypes' /\ Bookkeeping'
      BY <1>2, <1>27, MemTypes DEF Recovered, ActorTypes, Bookkeeping, Points, Committing
    <2>. QED
      BY <2>1, <2>2, <2>3
  <1>28. CASE Refuse
    <2>1. CommitTypes' /\ LogTypes' /\ StoreTypes' /\ SharedTypes'
      BY <1>28 DEF Refuse, CommitTypes, LogTypes, StoreTypes, SharedTypes, commitVars,
                   logVars, storeVars, sharedVars, faultVars
    <2>2. /\ Head(inbox) \in Req /\ Tail(inbox) \in Seq(Sent')
          /\ Tail(inbox) \in Seq(Req)
      BY <1>2, <1>28, Ends DEF Refuse, ActorTypes
    <2>3. ClientTypes'
      BY <1>28, ReplyTypes DEF Refuse, ClientTypes, ReplyType, Statuses
    <2>4. ActorTypes' /\ Bookkeeping'
      BY <1>2, <1>28, <2>2 DEF Refuse, ActorTypes, Bookkeeping, actorVars, commitVars
    <2>. QED
      BY <2>1, <2>3, <2>4
  <1>29. CASE Quiet \/ UNCHANGED vars
    <2>. UNCHANGED vars
      BY <1>29 DEF Quiet
    <2>. USE DEF vars, clientVars, actorVars, commitVars, logVars, storeVars, sharedVars,
                 faultVars
    <2>1. ClientTypes' /\ ActorTypes' /\ CommitTypes'
      BY DEF ClientTypes, ActorTypes, CommitTypes
    <2>2. LogTypes' /\ StoreTypes' /\ SharedTypes'
      BY DEF LogTypes, StoreTypes, SharedTypes
    <2>3. Bookkeeping'
      BY <1>2 DEF Bookkeeping
    <2>. QED
      BY <2>1, <2>2, <2>3
  <1>. QED
    BY <1>3, <1>4, <1>5, <1>6, <1>7, <1>8, <1>9, <1>10, <1>11, <1>12, <1>13, <1>14,
       <1>15, <1>16, <1>17, <1>18, <1>19, <1>20, <1>21, <1>22, <1>23, <1>24, <1>25,
       <1>26, <1>27, <1>28, <1>29, <1>30
       DEF Next, Actor, Drain, Fold, Store, Publish, Open

-----------------------------------------------------------------------------
(* Chains of records and the structures that hold them. *)

\* A prefix of a chain is a chain.
LEMMA ChainPrefix ==
    ASSUME NEW s \in Seq(Record), Chain(s), NEW n \in 0..Len(s)
    PROVE  Chain(SubSeq(s, 1, n))
  <1>. DEFINE p == SubSeq(s, 1, n)
  <1>1. Len(p) = n /\ \A i \in 1..n : p[i] = s[i]
    OBVIOUS
  <1>2. ASSUME NEW v \in 1..n
        PROVE  After(p, v - 1) = After(s, v - 1) /\ p[v] = s[v]
    BY <1>1, <1>2 DEF After
  <1>. HIDE DEF p
  <1>3. ASSUME NEW v \in 1..n
        PROVE  /\ s[v].version = v
               /\ Apply[s[v].patch][After(s, v - 1)] = s[v].state
               /\ Mints(s[v].patch, After(s, v - 1))
    BY DEF Chain
  <1>4. Chain(p)
    BY <1>1, <1>2, <1>3 DEF Chain
  <1>. QED
    BY <1>4 DEF p

\* What a log is before the records in flight above its end is a chain too.
LEMMA ChainFront ==
    ASSUME NEW s \in Seq(Record), NEW t \in Seq(Record), Chain(s \o t)
    PROVE  Chain(s)
  <1>1. s \o t \in Seq(Record) /\ Len(s) \in 0..Len(s \o t)
    OBVIOUS
  <1>2. SubSeq(s \o t, 1, Len(s)) = s
    OBVIOUS
  <1>. QED
    BY <1>1, <1>2, ChainPrefix

\* A record that folds into the last state extends a chain.
LEMMA ChainAppend ==
    ASSUME NEW s \in Seq(Record), Chain(s), NEW r \in Record,
           r.version = Len(s) + 1,
           Apply[r.patch][After(s, Len(s))] = r.state,
           Mints(r.patch, After(s, Len(s)))
    PROVE  Chain(Append(s, r))
  <1>. DEFINE t == Append(s, r)
  <1>1. /\ Len(t) = Len(s) + 1 /\ t[Len(s) + 1] = r
        /\ \A i \in 1..Len(s) : t[i] = s[i]
    OBVIOUS
  <1>2. ASSUME NEW v \in 1..Len(t)
        PROVE  After(t, v - 1) = After(s, v - 1)
    BY <1>1, <1>2 DEF After
  <1>. HIDE DEF t
  <1>3. ASSUME NEW v \in 1..Len(s)
        PROVE  /\ s[v].version = v
               /\ Apply[s[v].patch][After(s, v - 1)] = s[v].state
               /\ Mints(s[v].patch, After(s, v - 1))
    BY DEF Chain
  <1>4. ASSUME NEW v \in 1..Len(t)
        PROVE  /\ t[v].version = v
               /\ Apply[t[v].patch][After(t, v - 1)] = t[v].state
               /\ Mints(t[v].patch, After(t, v - 1))
    <2>1. CASE v \in 1..Len(s)
      BY <1>1, <1>2, <1>3, <2>1
    <2>2. CASE v = Len(s) + 1
      <3>1. v - 1 = Len(s) /\ t[v] = r
        BY <1>1, <2>2
      <3>. QED
        BY <1>2, <2>2, <3>1
    <2>. QED
      BY <1>1, <2>1, <2>2
  <1>5. Chain(t)
    BY <1>4 DEF Chain
  <1>. QED
    BY <1>5 DEF t

\* Logs with a common prefix have the same states along it.
LEMMA AfterPrefix ==
    ASSUME NEW s \in Seq(Record), NEW t \in Seq(Record), NEW v \in 0..Len(s)
    PROVE  After(s \o t, v) = After(s, v)
  BY DEF After

\* Only the records up to its own version matter to a structure.
LEMMA HoldsSame ==
    ASSUME NEW m \in [base : Nat, states : Seq(States)], NEW s, NEW t, NEW n \in Nat,
           Holds(m, s, n), \A v \in 0..n : After(s, v) = After(t, v)
    PROVE  Holds(m, t, n)
  BY DEF Holds

\* Cutting a structure at a version it retains leaves it standing there.
LEMMA HoldsCut ==
    ASSUME NEW m \in [base : Nat, states : Seq(States)], NEW s, NEW n \in Nat,
           Holds(m, s, n), NEW k \in m.base..n
    PROVE  Holds([base |-> m.base, states |-> SubSeq(m.states, 1, k - m.base + 1)], s, k)
  <1>. DEFINE cut == SubSeq(m.states, 1, k - m.base + 1)
  <1>1. /\ m.base \in Nat /\ m.states \in Seq(States) /\ m.base <= n
        /\ Len(m.states) = n - m.base + 1
    BY DEF Holds
  <1>2. /\ Len(cut) = k - m.base + 1
        /\ \A i \in 1..Len(cut) : cut[i] = m.states[i]
    BY <1>1
  <1>. HIDE DEF cut
  <1>3. ASSUME NEW v \in m.base..k
        PROVE  cut[v - m.base + 1] = After(s, v)
    <2>1. v - m.base + 1 \in 1..Len(cut) /\ v \in m.base..n
      BY <1>1, <1>2
    <2>. QED
      BY <1>2, <2>1 DEF Holds
  <1>4. Holds([base |-> m.base, states |-> cut], s, k)
    <2>1. m.base <= k /\ m.base + Len(cut) - 1 = k
      BY <1>1, <1>2
    <2>. QED
      BY <1>3, <2>1 DEF Holds
  <1>. QED
    BY <1>4 DEF cut

\* So unwinding to a version memory retains leaves memory there.
LEMMA HoldsTruncate ==
    ASSUME LogTypes, NEW s, NEW n \in Nat, Holds(mem, s, n), NEW k \in mem.base..n
    PROVE  Holds(Truncate(k), s, k)
  <1>1. mem \in [base : Nat, states : Seq(States)] /\ mem.base \in Nat /\ Version = n
    BY DEF LogTypes, Holds, Version
  <1>2. CASE k = n
    BY <1>1, <1>2 DEF Truncate
  <1>3. CASE k # n
    <2>1. ~(k < mem.base \/ k >= Version)
      BY <1>1, <1>3
    <2>2. Truncate(k) = [base |-> mem.base,
                         states |-> SubSeq(mem.states, 1, k - mem.base + 1)]
      BY <1>1, <2>1 DEF Truncate
    <2>3. Holds([base |-> mem.base,
                 states |-> SubSeq(mem.states, 1, k - mem.base + 1)], s, k)
      BY <1>1, HoldsCut
    <2>. QED
      BY <2>2, <2>3
  <1>. QED
    BY <1>2, <1>3

\* Adding the state after the next record moves a structure one version up.
LEMMA HoldsExtend ==
    ASSUME NEW m \in [base : Nat, states : Seq(States)], NEW s, NEW n \in Nat,
           Holds(m, s, n), After(s, n + 1) \in States
    PROVE  Holds([m EXCEPT !.states = Append(@, After(s, n + 1))], s, n + 1)
  <1>. DEFINE more == Append(m.states, After(s, n + 1))
  <1>1. /\ m.base \in Nat /\ m.states \in Seq(States) /\ m.base <= n
        /\ Len(m.states) = n - m.base + 1
    BY DEF Holds
  <1>2. /\ Len(more) = n - m.base + 2 /\ more[n - m.base + 2] = After(s, n + 1)
        /\ \A i \in 1..Len(m.states) : more[i] = m.states[i]
    BY <1>1
  <1>3. [m EXCEPT !.states = Append(@, After(s, n + 1))]
           = [base |-> m.base, states |-> more]
    OBVIOUS
  <1>. HIDE DEF more
  <1>4. ASSUME NEW v \in m.base..(n + 1)
        PROVE  more[v - m.base + 1] = After(s, v)
    <2>1. CASE v = n + 1
      BY <1>1, <1>2, <2>1
    <2>2. CASE v # n + 1
      <3>1. v \in m.base..n /\ v - m.base + 1 \in 1..Len(m.states)
        BY <1>1, <2>2
      <3>. QED
        BY <1>2, <3>1 DEF Holds
    <2>. QED
      BY <2>1, <2>2
  <1>. QED
    BY <1>1, <1>2, <1>3, <1>4 DEF Holds

-----------------------------------------------------------------------------
(* Memory and the log. *)

\* What the proofs below use of the types.
LEMMA Facts ==
    ASSUME TypeInv
    PROVE  /\ stored \in Seq(Record) /\ residue \in Seq(Record) /\ records \in Seq(Record)
           /\ Len(stored) \in Nat /\ Len(records) \in Nat
           /\ stored \o records \in Seq(Record) /\ stored \o residue \in Seq(Record)
           /\ mem \in [base : Nat, states : Seq(States)]
           /\ durable \in Nat /\ watermark \in Nat /\ last \in Nat /\ synced \in Nat
           /\ LogTypes
  BY DEF TypeInv, TypeOK, CommitTypes, StoreTypes, LogTypes

\* A step that leaves memory and the log alone, or moves between two places
\* where memory stands at the end of the log.
LEMMA AgreementFrame ==
    ASSUME Agreement, UNCHANGED <<stored, residue, mem, watermark>>,
           \/ pc \in AtEnd /\ pc' \in AtEnd
           \/ UNCHANGED <<pc, records, last>>
    PROVE  Agreement'
  <1>1. CASE pc \in AtEnd /\ pc' \in AtEnd
    BY <1>1 DEF Agreement, AtEnd, Committing
  <1>2. CASE UNCHANGED <<pc, records, last>>
    BY <1>2 DEF Agreement, Version
  <1>. QED
    BY <1>1, <1>2

\* A commit that begins, ends or is tried again starts from memory at the end of
\* the log.
LEMMA AgreementRestart ==
    ASSUME TypeInv, watermark = Len(stored), UNCHANGED <<stored, watermark>>,
           residue' \in Seq(Record), Chain(stored \o residue'),
           Holds(mem', stored, Len(stored)),
           \/ pc' = "drain"
           \/ pc' = "fold" /\ records' = <<>> /\ last' = watermark
    PROVE  Agreement'
  <1>1. stored \in Seq(Record) /\ stored \o <<>> = stored /\ Len(stored) \in Nat
    BY Facts
  <1>2. Chain(stored)
    BY <1>1, ChainFront
  <1>3. CASE pc' = "drain"
    BY <1>3 DEF Agreement, AtEnd, Committing
  <1>4. CASE pc' = "fold" /\ records' = <<>> /\ last' = watermark
    <2>1. stored \o records' = stored /\ Len(stored) + Len(records') = Len(stored)
      BY <1>1, <1>4
    <2>2. mem'.base <= Len(stored)
      BY DEF Holds
    <2>. QED
      BY <1>2, <1>4, <2>1, <2>2 DEF Agreement, AtEnd, Committing
  <1>. QED
    BY <1>3, <1>4

\* How a commit begins, ends or is tried again.
LEMMA Restarts ==
    /\ \A js : Begin(js) => pc' = "fold" /\ records' = <<>> /\ last' = watermark
    /\ Proceed => \/ pc' = "drain"
                  \/ pc' = "fold" /\ records' = <<>> /\ last' = watermark
    /\ \A code : Isolate(code) =>
                  \/ pc' = "drain"
                  \/ pc' = "fold" /\ records' = <<>> /\ last' = watermark
  BY DEF Begin, Proceed, Isolate

\* One more patch folded: memory and the records to be written move together.
LEMMA AgreementFold == IInv /\ FoldPatch => Agreement'
  <1>. SUFFICES ASSUME IInv, FoldPatch PROVE Agreement'
    OBVIOUS
  <1>1. TypeInv /\ Agreement
    BY DEF IInv, TypeInv
  <1>. DEFINE log == stored \o records
              next == Apply[Patch][Current]
  <1>2. /\ pc = "fold" /\ pc' = "fold" /\ InBatch /\ Remaining
        /\ next # Rejected
        /\ UNCHANGED <<stored, residue, last, watermark>>
    BY DEF FoldPatch, InBatch, storeVars
  <1>3. /\ stored \in Seq(Record) /\ records \in Seq(Record) /\ log \in Seq(Record)
        /\ mem \in [base : Nat, states : Seq(States)]
        /\ Len(stored) \in Nat /\ Len(log) = Len(stored) + Len(records)
    BY <1>1, Facts
  <1>4. /\ Job \in Req /\ Patch \in Patches /\ Current \in States /\ Version \in Nat
        /\ next \in States
    BY <1>1, <1>2, FoldingTypes
  <1>5. /\ Chain(log) /\ Holds(mem, log, Len(log)) /\ mem.base <= Len(stored)
        /\ last = Len(stored) /\ watermark = Len(stored) /\ Chain(stored \o residue)
    BY <1>1, <1>2, <1>3 DEF Agreement
  <1>6. Version = Len(log) /\ Current = After(log, Len(log))
    <2>1. Version = Len(log) /\ Len(mem.states) = Len(log) - mem.base + 1
      BY <1>1, <1>5, MemTypes DEF TypeInv, TypeOK, Holds, Version
    <2>2. mem.base \in Nat /\ mem.base <= Len(log) /\ Len(log) \in Nat
      BY <1>1, <1>3, <1>5, MemTypes DEF TypeInv, TypeOK, Holds
    <2>3. Len(log) \in mem.base..Len(log)
      BY <2>2
    <2>. QED
      BY <1>5, <2>1, <2>3 DEF Holds, Current
  <1>. HIDE DEF log, next
  <1>7. CASE Mints(Patch, Current)
    <2>. DEFINE r == [version |-> Version + 1, patch |-> Patch, req |-> Job, state |-> next]
    <2>1. /\ records' = Append(records, r)
          /\ mem' = [mem EXCEPT !.states = Append(@, next)]
      BY <1>7 DEF FoldPatch, next
    <2>2. r \in Record
      BY <1>4 DEF Record
    <2>3. stored' \o records' = Append(log, r) /\ Len(records') = Len(records) + 1
      BY <1>2, <1>3, <2>1, <2>2 DEF log
    <2>4. Chain(Append(log, r))
      <3>1. /\ r.version = Len(log) + 1
            /\ Apply[r.patch][After(log, Len(log))] = r.state
            /\ Mints(r.patch, After(log, Len(log)))
        BY <1>6, <1>7 DEF next
      <3>. QED
        BY <1>3, <1>5, <2>2, <3>1, ChainAppend
    <2>5. /\ \A v \in 0..Len(log) : After(log, v) = After(Append(log, r), v)
          /\ After(Append(log, r), Len(log) + 1) = next
      <3>1. /\ \A v \in 1..Len(log) : log[v] = Append(log, r)[v]
            /\ Append(log, r)[Len(log) + 1] = r /\ Len(log) \in Nat
        BY <1>3, <2>2
      <3>. QED
        BY <3>1 DEF After
    <2>6. Holds(mem', Append(log, r), Len(log) + 1)
      <3>1. Holds(mem, Append(log, r), Len(log))
        BY <1>3, <1>5, <2>5, HoldsSame
      <3>2. After(Append(log, r), Len(log) + 1) \in States /\ Len(log) \in Nat
        BY <1>3, <1>4, <2>5
      <3>. HIDE DEF r
      <3>3. Holds([mem EXCEPT !.states = Append(@, After(Append(log, r), Len(log) + 1))],
                  Append(log, r), Len(log) + 1)
        BY <1>3, <3>1, <3>2, HoldsExtend
      <3>. QED
        BY <2>1, <2>5, <3>3
    <2>7. mem'.base = mem.base /\ Len(log) + 1 = Len(stored') + Len(records')
      BY <1>2, <1>3, <2>1, <2>3
    <2>. HIDE DEF r
    <2>. QED
      BY <1>2, <1>5, <2>3, <2>4, <2>6, <2>7 DEF Agreement, AtEnd, Committing
  <1>8. CASE ~Mints(Patch, Current)
    <2>1. records' = records /\ mem' = mem
      BY <1>8 DEF FoldPatch
    <2>. QED
      BY <1>1, <1>2, <2>1, AgreementFrame
  <1>. QED
    BY <1>7, <1>8

\* The records reach storage, and the log ends where memory does.
LEMMA AgreementWrite == IInv /\ Write => Agreement'
  <1>. SUFFICES ASSUME IInv, Write PROVE Agreement'
    OBVIOUS
  <1>1. TypeInv /\ Agreement
    BY DEF IInv, TypeInv
  <1>2. /\ pc = "write" /\ residue = <<>> /\ residue' = <<>> /\ mem' = mem
        /\ stored' = stored \o records /\ pc' \in {"sync", "assign"}
        /\ watermark' = records[Len(records)].version
    BY DEF Write, Writable
  <1>3. /\ stored \in Seq(Record) /\ records \in Seq(Record) /\ records # <<>>
        /\ stored' \in Seq(Record) /\ Len(stored') = Len(stored) + Len(records)
        /\ stored' \o residue' = stored'
    BY <1>1, <1>2, Facts DEF TypeInv, Bookkeeping
  <1>4. Chain(stored') /\ Holds(mem', stored', Len(stored'))
    BY <1>1, <1>2, <1>3 DEF Agreement
  <1>5. watermark' = Len(stored')
    <2>1. stored'[Len(stored')] = records[Len(records)] /\ Len(stored') \in 1..Len(stored')
      BY <1>2, <1>3
    <2>. QED
      BY <1>2, <1>4, <2>1 DEF Chain
  <1>. QED
    BY <1>2, <1>3, <1>4, <1>5 DEF Agreement, AtEnd, Committing

\* Unwinding a failed append puts memory back at the end of the log.
LEMMA Unwound ==
    ASSUME TypeInv, Agreement, pc \in {"fold", "write"}
    PROVE  Holds(Truncate(last), stored, Len(stored)) /\ watermark = Len(stored)
  <1>1. /\ stored \in Seq(Record) /\ records \in Seq(Record)
        /\ Len(stored) \in Nat /\ Len(records) \in Nat
        /\ Len(stored) + Len(records) \in Nat /\ LogTypes
    BY Facts
  <1>2. /\ Holds(mem, stored \o records, Len(stored) + Len(records))
        /\ mem.base <= Len(stored) /\ last = Len(stored) /\ watermark = Len(stored)
    BY DEF Agreement
  <1>3. Len(stored) \in mem.base..(Len(stored) + Len(records))
    BY <1>1, <1>2, MemTypes
  <1>4. Holds(Truncate(last), stored \o records, Len(stored))
    BY <1>1, <1>2, <1>3, HoldsTruncate
  <1>5. Truncate(last) \in [base : Nat, states : Seq(States)]
    BY <1>1, <1>2, TruncateTypes
  <1>6. \A v \in 0..Len(stored) : After(stored \o records, v) = After(stored, v)
    BY <1>1, AfterPrefix
  <1>. QED
    BY <1>1, <1>2, <1>4, <1>5, <1>6, HoldsSame

\* A crash keeps a prefix of what was written.
LEMMA AgreementCrash ==
    ASSUME IInv, NEW kind \in CrashKinds, Crash(kind)
    PROVE  Agreement'
  <1>1. TypeInv /\ Agreement /\ Backing
    BY DEF IInv, TypeInv
  <1>2. pc' = "down" /\ residue' = <<>>
    BY DEF Crash
  <1>3. /\ stored \in Seq(Record) /\ InFlight \in Seq(Record)
        /\ stored \o InFlight \in Seq(Record) /\ Len(stored) \in Nat /\ durable \in Nat
    BY <1>1, Facts DEF InFlight
  <1>4. Chain(stored \o InFlight)
    <2>1. CASE residue # <<>>
      BY <1>1, <2>1 DEF InFlight, Agreement
    <2>2. CASE residue = <<>> /\ pc = "write"
      BY <1>1, <2>2 DEF InFlight, Agreement
    <2>3. CASE residue = <<>> /\ pc # "write"
      BY <1>1, <2>3 DEF InFlight, Agreement
    <2>. QED
      BY <2>1, <2>2, <2>3
  <1>5. PICK n \in 0..Len(stored \o InFlight) : stored' = SubSeq(stored \o InFlight, 1, n)
    <2>. DEFINE least == IF kind = "power" THEN durable ELSE Len(stored)
    <2>1. \E n \in least..Len(stored \o InFlight) : stored' = SubSeq(stored \o InFlight, 1, n)
      BY DEF Crash
    <2>2. least \in Nat
      BY <1>3
    <2>. HIDE DEF least
    <2>. QED
      BY <1>3, <2>1, <2>2
  <1>6. Chain(stored') /\ stored' \in Seq(Record)
    <2>. DEFINE written == stored \o InFlight
    <2>1. written \in Seq(Record) /\ Chain(written) /\ n \in 0..Len(written)
      BY <1>3, <1>4, <1>5
    <2>. HIDE DEF written
    <2>2. Chain(SubSeq(written, 1, n)) /\ SubSeq(written, 1, n) \in Seq(Record)
      BY <2>1, ChainPrefix
    <2>. QED
      BY <1>5, <2>2 DEF written
  <1>7. stored' \o residue' = stored'
    BY <1>2, <1>6
  <1>. QED
    BY <1>2, <1>6, <1>7 DEF Agreement, AtEnd, Committing

\* Opening starts from the header, which the records below it fold to.
LEMMA AgreementLoad == IInv /\ Load => Agreement'
  <1>. SUFFICES ASSUME IInv, Load PROVE Agreement'
    OBVIOUS
  <1>1. TypeInv /\ Agreement /\ Backing
    BY DEF IInv, TypeInv
  <1>2. /\ pc' = "replay" /\ UNCHANGED <<stored, residue>>
        /\ mem' = [base |-> header.version, states |-> <<header.state>>]
    BY DEF Load
  <1>3. /\ header.version \in Nat /\ header.version <= Len(stored)
        /\ header.state = After(stored, header.version)
    BY <1>1 DEF Backing, TypeInv, TypeOK, StoreTypes
  <1>4. Version' = header.version
    BY <1>2, <1>3 DEF Version
  <1>5. Holds(mem', stored, header.version)
    <2>1. mem'.base = header.version /\ mem'.states = <<header.state>>
      BY <1>2
    <2>2. Len(mem'.states) = 1 /\ mem'.states[1] = header.state
      BY <2>1
    <2>3. ASSUME NEW v \in header.version..header.version
          PROVE  mem'.states[v - header.version + 1] = After(stored, v)
      <3>1. v = header.version /\ v - header.version + 1 = 1
        BY <1>3
      <3>. QED
        BY <1>3, <2>2, <3>1
    <2>. QED
      BY <1>3, <2>1, <2>2, <2>3 DEF Holds
  <1>. QED
    BY <1>1, <1>2, <1>3, <1>4, <1>5 DEF Agreement, AtEnd, Committing

\* The next record above memory folds to its own version.
LEMMA NextReplays ==
    ASSUME TypeInv, Agreement, pc = "replay", Version < Len(stored)
    PROVE  /\ Replayable(stored[Version + 1].patch)
           /\ Apply[stored[Version + 1].patch][Current] = After(stored, Version + 1)
           /\ After(stored, Version + 1) \in States
  <1>1. /\ stored \in Seq(Record) /\ residue \in Seq(Record) /\ Version \in Nat
        /\ Version + 1 \in 1..Len(stored)
    BY Facts, MemTypes
  <1>2. Chain(stored) /\ Holds(mem, stored, Version)
    BY <1>1, ChainFront DEF Agreement
  <1>3. Current = After(stored, Version)
    <2>1. Len(mem.states) = Version - mem.base + 1 /\ mem.base <= Version /\ mem.base \in Nat
      BY Facts, MemTypes
    <2>2. Version \in mem.base..Version
      BY <1>1, <2>1
    <2>. QED
      BY <1>2, <2>1, <2>2 DEF Holds, Current
  <1>4. /\ Apply[stored[Version + 1].patch][After(stored, (Version + 1) - 1)]
             = stored[Version + 1].state
        /\ Mints(stored[Version + 1].patch, After(stored, (Version + 1) - 1))
    BY <1>1, <1>2 DEF Chain
  <1>5. (Version + 1) - 1 = Version /\ Version + 1 # 0
    BY <1>1
  <1>6. stored[Version + 1].state \in States
    <2>1. stored[Version + 1] \in Record
      BY <1>1
    <2>. QED
      BY <2>1 DEF Record
  <1>7. /\ Apply[stored[Version + 1].patch][Current] = stored[Version + 1].state
        /\ Mints(stored[Version + 1].patch, Current)
    BY <1>3, <1>4, <1>5
  <1>8. After(stored, Version + 1) = stored[Version + 1].state
    BY <1>5 DEF After
  <1>. QED
    BY <1>6, <1>7, <1>8, DataAssumption DEF Replayable

\* Replaying a record moves memory one version up and never refuses the log.
LEMMA AgreementReplay == IInv /\ Replay => Agreement' /\ pc' = "replay"
  <1>. SUFFICES ASSUME IInv, Replay PROVE Agreement' /\ pc' = "replay"
    OBVIOUS
  <1>1. TypeInv /\ Agreement
    BY DEF IInv, TypeInv
  <1>2. pc = "replay" /\ Version < Len(stored) /\ UNCHANGED <<stored, residue>>
    BY DEF Replay, storeVars
  <1>3. /\ Replayable(stored[Version + 1].patch)
        /\ Apply[stored[Version + 1].patch][Current] = After(stored, Version + 1)
        /\ After(stored, Version + 1) \in States
    BY <1>1, <1>2, NextReplays
  <1>4. /\ pc' = "replay"
        /\ mem' = [mem EXCEPT !.states = Append(@, After(stored, Version + 1))]
    BY <1>2, <1>3 DEF Replay
  <1>5. /\ mem \in [base : Nat, states : Seq(States)] /\ Version \in Nat
        /\ Holds(mem, stored, Version) /\ Len(stored) \in Nat
    BY <1>1, <1>2, Facts, MemTypes DEF Agreement
  <1>6. Holds(mem', stored, Version + 1)
    BY <1>3, <1>4, <1>5, HoldsExtend
  <1>7. Version' = Version + 1
    BY <1>6 DEF Holds, Version
  <1>8. Version + 1 <= Len(stored)
    BY <1>2, <1>5
  <1>. QED
    BY <1>1, <1>2, <1>4, <1>6, <1>7, <1>8 DEF Agreement, AtEnd, Committing

\* Log::open ends with memory at the end of the log.
LEMMA AgreementRecovered == IInv /\ Recovered => Agreement'
  <1>. SUFFICES ASSUME IInv, Recovered PROVE Agreement'
    OBVIOUS
  <1>1. TypeInv /\ Agreement
    BY DEF IInv, TypeInv
  <1>2. /\ pc = "replay" /\ pc' = "idle" /\ Version >= Len(stored) /\ watermark' = Version
        /\ UNCHANGED <<stored, residue, mem>>
    BY DEF Recovered, storeVars
  <1>3. Version = Len(stored) /\ Holds(mem, stored, Len(stored))
    BY <1>1, <1>2, Facts, MemTypes DEF Agreement
  <1>. QED
    BY <1>1, <1>2, <1>3 DEF Agreement, AtEnd, Committing

\* Every step keeps memory and the log in agreement.
LEMMA AgreementNext == IInv /\ [Next]_vars => Agreement'
  <1>. SUFFICES ASSUME IInv, [Next]_vars PROVE Agreement'
    OBVIOUS
  <1>1. TypeInv /\ Agreement
    BY DEF IInv, TypeInv
  <1>2. /\ residue \in Seq(Record) /\ records \in Seq(Record)
        /\ Chain(stored \o residue)
    BY <1>1, Facts DEF Agreement
  <1>3. pc \in AtEnd => watermark = Len(stored) /\ Holds(mem, stored, Len(stored))
    BY <1>1 DEF Agreement, AtEnd, Committing
  <1>4. CASE Receive \/ Gather \/ Gathered \/ Drained \/ DrainAppend \/ AnswerView
    <2>1. /\ pc \in AtEnd /\ pc' \in AtEnd
          /\ UNCHANGED <<stored, residue, mem, watermark>>
      BY <1>4 DEF Receive, Gather, Take, Gathered, Drained, DrainAppend, AnswerView,
                  Reading, AtEnd, logVars, storeVars
    <2>. QED
      BY <1>1, <2>1, AgreementFrame
  <1>5. CASE AnswerCheckpoint \/ AutoCheckpoint
    <2>1. /\ pc \in AtEnd /\ pc' \in AtEnd
          /\ UNCHANGED <<stored, residue, mem, watermark>>
      BY <1>5 DEF AnswerCheckpoint, AutoCheckpoint, Reading, Checkpoint,
                  CheckpointRefused, CheckpointLate, AtEnd, Committing, logVars
    <2>. QED
      BY <1>1, <2>1, AgreementFrame
  <1>6. CASE Sync \/ Assign \/ NextShare \/ Push \/ Announce \/ PublishFloor
    <2>1. /\ pc \in AtEnd /\ pc' \in AtEnd
          /\ UNCHANGED <<stored, residue, mem, watermark>>
      BY <1>6 DEF Sync, Assign, NextShare, Push, Announce, PublishFloor, AtEnd, Committing, logVars,
                  storeVars
    <2>. QED
      BY <1>1, <2>1, AgreementFrame
  <1>7. ASSUME NEW r \in Req, NEW c \in Commands, Submit(r, c)
        PROVE  Agreement'
    BY <1>1, <1>7, AgreementFrame DEF Submit, commitVars, logVars, storeVars
  <1>8. CASE NextJob \/ Refuse \/ Quiet \/ UNCHANGED vars
    <2>1. UNCHANGED <<stored, residue, mem, watermark, pc, records, last>>
      BY <1>8 DEF NextJob, Refuse, Quiet, vars, commitVars, logVars, storeVars
    <2>. QED
      BY <1>1, <2>1, AgreementFrame
  <1>9. CASE Flush
    <2>1. /\ pc = "drain" /\ UNCHANGED <<stored, residue, mem, watermark>>
          /\ pc' = "fold" /\ records' = <<>> /\ last' = watermark
      BY <1>9, Restarts DEF Flush, logVars, storeVars
    <2>. QED
      BY <1>1, <1>2, <1>3, <2>1, AgreementRestart DEF AtEnd
  <1>10. CASE SyncFails
    <2>1. /\ pc = "sync" /\ UNCHANGED <<stored, residue, mem, watermark>>
          /\ \/ pc' = "drain"
             \/ pc' = "fold" /\ records' = <<>> /\ last' = watermark
      BY <1>10, Restarts DEF SyncFails, logVars, storeVars
    <2>. QED
      BY <1>1, <1>2, <1>3, <2>1, AgreementRestart DEF AtEnd, Committing
  <1>11. CASE Acknowledge
    <2>1. pc = "acknowledge" /\ UNCHANGED <<stored, residue, mem, watermark>>
      BY <1>11 DEF Acknowledge, logVars, storeVars
    <2>2. CASE Len(jobs) > 1
      BY <1>1, <1>11, <2>1, <2>2, AgreementFrame DEF Acknowledge
    <2>3. CASE ~(Len(jobs) > 1)
      <3>1. \/ pc' = "drain"
            \/ pc' = "fold" /\ records' = <<>> /\ last' = watermark
        BY <1>11, <2>3, Restarts DEF Acknowledge
      <3>. QED
        BY <1>1, <1>2, <1>3, <2>1, <3>1, AgreementRestart DEF AtEnd, Committing
    <2>. QED
      BY <2>2, <2>3
  <1>12. CASE RejectPatch \/ WriteFails
    <2>1. /\ pc \in {"fold", "write"} /\ UNCHANGED <<stored, watermark>>
          /\ mem' = Truncate(last)
          /\ \/ pc' = "drain"
             \/ pc' = "fold" /\ records' = <<>> /\ last' = watermark
      BY <1>12, Restarts DEF RejectPatch, WriteFails, InBatch, storeVars
    <2>2. residue' = residue \/ (residue' = records /\ pc = "write")
      BY <1>12 DEF RejectPatch, WriteFails, storeVars
    <2>3. residue' \in Seq(Record) /\ Chain(stored \o residue')
      BY <1>1, <1>2, <2>1, <2>2 DEF Agreement
    <2>4. watermark = Len(stored) /\ Holds(mem', stored, Len(stored))
      BY <1>1, <2>1, Unwound
    <2>. QED
      BY <1>1, <2>1, <2>3, <2>4, AgreementRestart
  <1>13. CASE Folded
    <2>1. /\ pc = "fold" /\ UNCHANGED <<stored, residue, mem, watermark, records, last>>
          /\ pc' = IF records = <<>> THEN "assign" ELSE "write"
      BY <1>13 DEF Folded, commitVars, logVars, storeVars
    <2>2. CASE records = <<>>
      <3>1. stored \o records = stored /\ Len(stored) + Len(records) = Len(stored)
        BY <1>1, <2>2, Facts
      <3>2. Holds(mem, stored, Len(stored)) /\ watermark = Len(stored)
        BY <1>1, <2>1, <3>1 DEF Agreement
      <3>. QED
        BY <1>2, <2>1, <2>2, <3>2 DEF Agreement, AtEnd, Committing
    <2>3. CASE records # <<>>
      BY <1>1, <2>1, <2>3 DEF Agreement, AtEnd, Committing
    <2>. QED
      BY <2>2, <2>3
  <1>14. ASSUME NEW kind \in CrashKinds, Crash(kind)
         PROVE  Agreement'
    BY <1>14, AgreementCrash
  <1>15. CASE LoadFails
    BY <1>1, <1>15 DEF LoadFails, storeVars, Agreement, AtEnd, Committing
  <1>16. CASE FoldPatch \/ Write \/ Load \/ Replay \/ Recovered
    BY <1>16, AgreementFold, AgreementWrite, AgreementLoad, AgreementReplay,
       AgreementRecovered
  <1>. QED
    BY <1>4, <1>5, <1>6, <1>7, <1>8, <1>9, <1>10, <1>11, <1>12, <1>13, <1>14, <1>15,
       <1>16 DEF Next, Actor, Drain, Fold, Store, Publish, Open

-----------------------------------------------------------------------------
(* The header and the claims of durability. *)

\* What is backed stays backed while the log is not opened again: nothing that
\* is on stable storage leaves it.
LEMMA BackedKept ==
    ASSUME TypeInv, durable' \in Nat, durable <= durable', opened' = opened,
           NEW v \in Nat, Backed(v)
    PROVE  v <= durable' \/ v <= opened'
  BY DEF Backed, TypeInv, TypeOK, StoreTypes, SharedTypes

\* Steps that touch neither the header nor the log: the claim is kept, dropped,
\* or taken from the frontier.
LEMMA BackingFrame ==
    ASSUME TypeInv, Backing, UNCHANGED <<stored, durable, header, floor, synced, opened>>,
           claim' \in {claim, 0, synced}, pc' \notin Committing => claim' = 0
    PROVE  Backing'
  <1>1. durable \in Nat /\ 0 <= durable
    BY Facts
  <1>2. Backed(claim)' /\ Backed(synced)'
    BY <1>1 DEF Backing, Backed
  <1>. QED
    BY <1>2 DEF Backing

\* Every outcome of a checkpoint taken with memory at the end of the log.
LEMMA BackingCheckpoint ==
    ASSUME TypeInv, Backing, Holds(mem, stored, Len(stored)), watermark = Len(stored),
           Checkpoint \/ CheckpointRefused \/ CheckpointLate, UNCHANGED <<opened, claim>>,
           pc' \notin Committing => claim = 0
    PROVE  Backing'
  <1>1. /\ stored \in Seq(Record) /\ Len(stored) \in Nat /\ durable \in Nat
        /\ synced \in Nat /\ mem.base \in Nat /\ claim \in Nat
        /\ Len(mem.states) = Version - mem.base + 1
        /\ floor \in Nat /\ header.version \in Nat
    BY Facts, MemTypes DEF TypeInv, TypeOK, StoreTypes, CommitTypes
  <1>2. Version = Len(stored) /\ mem.base <= Len(stored)
    BY <1>1 DEF Holds, Version
  <1>3. Current = After(stored, Len(stored))
    <2>1. Len(stored) \in mem.base..Len(stored)
      BY <1>1, <1>2
    <2>. QED
      BY <1>1, <1>2, <2>1 DEF Holds, Current
  <1>4. /\ header.version <= durable /\ durable <= Len(stored)
        /\ header.state = After(stored, header.version) /\ floor <= header.version + 1
        /\ Backed(synced) /\ Backed(claim)
    BY DEF Backing
  <1>5. /\ durable' \in Nat /\ durable <= durable' /\ durable' <= Len(stored)
        /\ stored' = stored
        /\ synced' = synced \/ (synced' = Len(stored) /\ durable' = Len(stored))
    BY <1>1, <1>4 DEF Checkpoint, CheckpointRefused, CheckpointLate, logVars
  <1>6. Backed(synced)' /\ Backed(claim)'
    <2>1. claim' = claim /\ (claim <= durable' \/ claim <= opened')
      BY <1>1, <1>4, <1>5, BackedKept
    <2>2. CASE synced' = synced
      <3>1. synced <= durable' \/ synced <= opened'
        BY <1>1, <1>4, <1>5, BackedKept
      <3>. QED
        BY <2>1, <2>2, <3>1 DEF Backed
    <2>3. CASE synced' = Len(stored) /\ durable' = Len(stored)
      BY <1>1, <2>1, <2>3 DEF Backed
    <2>. QED
      BY <1>5, <2>2, <2>3
  <1>7. /\ header'.version <= durable' /\ floor' <= header'.version + 1
        /\ header'.state = After(stored, header'.version)
    <2>1. CASE Checkpoint \/ CheckpointLate
      <3>1. /\ durable' = Len(stored)
            /\ header' = [version |-> Len(stored), state |-> After(stored, Len(stored))]
        BY <1>2, <1>3, <2>1 DEF Checkpoint, CheckpointLate
      <3>2. \E f \in floor..(Len(stored) + 1) : floor' = f
        BY <1>2, <2>1 DEF Checkpoint, CheckpointLate, Reclaim
      <3>. QED
        BY <1>1, <3>1, <3>2
    <2>2. CASE CheckpointRefused
      <3>1. UNCHANGED <<header, floor>>
        BY <2>2 DEF CheckpointRefused
      <3>. QED
        BY <1>1, <1>4, <1>5, <3>1
    <2>. QED
      BY <2>1, <2>2
  <1>. QED
    BY <1>5, <1>6, <1>7 DEF Backing

\* The end of a commit drops its claim.
LEMMA ClaimDropped ==
    /\ \A js : Begin(js) => claim' = 0
    /\ Proceed => claim' = 0
    /\ \A code : Isolate(code) =>
          /\ claim' = 0
          /\ reply' = reply \/ reply' = [reply EXCEPT ![jobs[1]] = Failure(code)]
  BY DEF Begin, Proceed, Isolate

\* A crash keeps what was durable, and what the header covers.
LEMMA BackingCrash ==
    ASSUME IInv, NEW kind \in CrashKinds, Crash(kind)
    PROVE  Backing'
  <1>1. TypeInv /\ Backing
    BY DEF IInv, TypeInv
  <1>2. synced' = 0 /\ claim' = 0 /\ UNCHANGED <<durable, header, floor>>
    BY DEF Crash
  <1>3. /\ stored \in Seq(Record) /\ InFlight \in Seq(Record)
        /\ stored \o InFlight \in Seq(Record) /\ Len(stored) \in Nat /\ durable \in Nat
        /\ header.version \in Nat /\ header.version <= durable /\ durable <= Len(stored)
        /\ header.state = After(stored, header.version) /\ floor <= header.version + 1
    BY <1>1, Facts DEF InFlight, TypeInv, TypeOK, StoreTypes, Backing
  <1>4. PICK n \in durable..Len(stored \o InFlight) :
           stored' = SubSeq(stored \o InFlight, 1, n)
    <2>. DEFINE least == IF kind = "power" THEN durable ELSE Len(stored)
    <2>1. \E n \in least..Len(stored \o InFlight) : stored' = SubSeq(stored \o InFlight, 1, n)
      BY DEF Crash
    <2>2. least \in Nat /\ durable <= least
      BY <1>3
    <2>. HIDE DEF least
    <2>. QED
      BY <1>3, <2>1, <2>2
  <1>5. Len(stored') = n /\ n \in Nat /\ durable <= n
    BY <1>3, <1>4
  <1>6. \A i \in 1..Len(stored) : i <= n => stored'[i] = stored[i]
    BY <1>3, <1>4
  <1>7. After(stored', header.version) = After(stored, header.version)
    <2>1. header.version = 0 \/ (header.version \in 1..Len(stored) /\ header.version <= n)
      BY <1>3, <1>4
    <2>. QED
      BY <1>6, <2>1 DEF After
  <1>8. Backed(synced)' /\ Backed(claim)'
    BY <1>2, <1>3 DEF Backed
  <1>. QED
    BY <1>2, <1>3, <1>5, <1>7, <1>8 DEF Backing

\* Every step keeps the header and the claims backed.
LEMMA BackingNext == IInv /\ [Next]_vars => Backing'
  <1>. SUFFICES ASSUME IInv, [Next]_vars PROVE Backing'
    OBVIOUS
  <1>1. TypeInv /\ Agreement /\ Backing
    BY DEF IInv, TypeInv
  <1>2. /\ durable \in Nat /\ synced \in Nat /\ claim \in Nat /\ Len(stored) \in Nat
        /\ durable <= Len(stored) /\ header.version \in Nat /\ header.version <= durable
        /\ stored \in Seq(Record) /\ records \in Seq(Record)
        /\ header.state = After(stored, header.version) /\ floor <= header.version + 1
        /\ Backed(synced) /\ Backed(claim)
        /\ pc \notin Committing => claim = 0
    BY <1>1, Facts DEF Backing, TypeInv, TypeOK, CommitTypes, StoreTypes
  <1>3. pc \in AtEnd => watermark = Len(stored) /\ Holds(mem, stored, Len(stored))
    BY <1>1 DEF Agreement, AtEnd, Committing
  <1>4. CASE Receive \/ Gather \/ Gathered \/ Drained \/ DrainAppend \/ AnswerView \/ Refuse
    <2>1. /\ UNCHANGED <<stored, durable, header, floor, synced, claim, opened>>
          /\ pc \notin Committing
      BY <1>4 DEF Receive, Gather, Take, Gathered, Drained, DrainAppend, AnswerView,
                  Reading, Refuse, Committing, commitVars, logVars, storeVars, faultVars
    <2>. QED
      BY <1>1, <1>2, <2>1, BackingFrame
  <1>5. CASE NextJob \/ FoldPatch \/ Folded \/ Assign \/ NextShare
    <2>1. /\ UNCHANGED <<stored, durable, header, floor, synced, claim, opened>>
          /\ pc' \in Committing
      BY <1>5 DEF NextJob, FoldPatch, Folded, Assign, NextShare, InBatch, Committing,
                  commitVars, logVars, storeVars, faultVars
    <2>. QED
      BY <1>1, <1>2, <2>1, BackingFrame
  <1>6. CASE Push \/ Announce \/ PublishFloor
    <2>1. /\ UNCHANGED <<stored, durable, header, floor, synced, opened>>
          /\ pc' \in Committing /\ claim' \in {claim, synced}
      BY <1>6 DEF Push, Announce, PublishFloor, Committing, commitVars, logVars,
                  storeVars, faultVars
    <2>. QED
      BY <1>1, <1>2, <2>1, BackingFrame
  <1>7. ASSUME NEW r \in Req, NEW c \in Commands, Submit(r, c)
        PROVE  Backing'
    <2>1. UNCHANGED <<stored, durable, header, floor, synced, claim, opened, pc>>
      BY <1>7 DEF Submit, commitVars, logVars, storeVars, faultVars
    <2>. QED
      BY <1>1, <1>2, <2>1, BackingFrame
  <1>8. CASE Quiet \/ UNCHANGED vars
    <2>1. UNCHANGED <<stored, durable, header, floor, synced, claim, opened, pc>>
      BY <1>8 DEF Quiet, vars, commitVars, logVars, storeVars, faultVars
    <2>. QED
      BY <1>1, <1>2, <2>1, BackingFrame
  <1>9. CASE LoadFails \/ Replay
    <2>1. /\ UNCHANGED <<stored, durable, header, floor, synced, claim, opened>>
          /\ pc \notin Committing
      BY <1>9 DEF LoadFails, Replay, Committing, commitVars, logVars, storeVars, faultVars
    <2>. QED
      BY <1>1, <1>2, <2>1, BackingFrame
  <1>10. CASE AnswerCheckpoint
    <2>1. /\ pc = "drain" /\ UNCHANGED <<claim, opened>>
          /\ Checkpoint \/ CheckpointRefused \/ CheckpointLate
      BY <1>10 DEF AnswerCheckpoint, Reading, commitVars
    <2>. QED
      BY <1>1, <1>2, <1>3, <2>1, BackingCheckpoint DEF AtEnd, Committing
  <1>11. CASE AutoCheckpoint
    <2>1. /\ pc = "checkpoint" /\ pc' = "floor" /\ UNCHANGED <<claim, opened>>
          /\ Checkpoint \/ CheckpointRefused \/ CheckpointLate
      BY <1>11 DEF AutoCheckpoint, commitVars
    <2>. QED
      BY <1>1, <1>3, <2>1, BackingCheckpoint DEF AtEnd, Committing
  <1>12. CASE Flush
    <2>1. /\ UNCHANGED <<stored, durable, header, floor, synced, opened>> /\ claim' = 0
      BY <1>12, ClaimDropped DEF Flush, logVars, storeVars, faultVars
    <2>. QED
      BY <1>1, <2>1, BackingFrame
  <1>13. CASE RejectPatch \/ WriteFails \/ SyncFails
    <2>1. PICK code \in {"rejected", "storage"} : Isolate(code)
      BY <1>13 DEF RejectPatch, WriteFails, SyncFails
    <2>2. UNCHANGED <<stored, durable, header, floor, synced, opened>>
      BY <1>13 DEF RejectPatch, WriteFails, SyncFails, logVars, storeVars, faultVars
    <2>3. claim' = 0
      BY <2>1, ClaimDropped
    <2>. QED
      BY <1>1, <2>2, <2>3, BackingFrame
  <1>14. CASE Acknowledge
    <2>1. /\ UNCHANGED <<stored, durable, header, floor, synced, opened>>
          /\ (claim' = claim /\ pc' \in Committing) \/ claim' = 0
      BY <1>14, ClaimDropped DEF Acknowledge, Committing, logVars, storeVars, faultVars
    <2>. QED
      BY <1>1, <2>1, BackingFrame
  <1>15. CASE Write
    <2>1. /\ stored' = stored \o records /\ pc' \in Committing
          /\ UNCHANGED <<durable, header, floor, synced, claim, opened>>
      BY <1>15 DEF Write, Committing, commitVars, faultVars
    <2>2. /\ After(stored', header.version) = After(stored, header.version)
          /\ durable <= Len(stored')
      BY <1>2, <2>1, AfterPrefix
    <2>3. Backed(synced)' /\ Backed(claim)'
      BY <1>2, <2>1 DEF Backed
    <2>. QED
      BY <1>2, <2>1, <2>2, <2>3 DEF Backing
  <1>16. CASE Sync
    <2>1. /\ durable' = Len(stored) /\ synced' = watermark /\ pc = "sync" /\ pc' = "assign"
          /\ UNCHANGED <<stored, header, floor, claim, opened>>
      BY <1>16 DEF Sync, commitVars, faultVars
    <2>2. watermark = Len(stored)
      BY <1>3, <2>1 DEF AtEnd, Committing
    <2>3. header.version <= Len(stored) /\ durable' \in Nat /\ durable <= durable'
      BY <1>2, <2>1
    <2>4. claim <= durable' \/ claim <= opened'
      BY <1>1, <1>2, <2>1, <2>3, BackedKept
    <2>5. Backed(synced)' /\ Backed(claim)'
      BY <1>2, <2>1, <2>2, <2>4 DEF Backed
    <2>. QED
      BY <1>2, <2>1, <2>3, <2>5 DEF Backing, Committing
  <1>17. ASSUME NEW kind \in CrashKinds, Crash(kind)
         PROVE  Backing'
    BY <1>17, BackingCrash
  <1>18. CASE Load
    <2>1. /\ durable' \in {durable, Len(stored)} /\ pc \notin Committing
          /\ UNCHANGED <<stored, header, floor, claim, synced, opened>>
      BY <1>18 DEF Load, Committing, commitVars, faultVars
    <2>2. /\ header.version <= durable' /\ durable' <= Len(stored)
          /\ durable' \in Nat /\ durable <= durable'
      BY <1>2, <2>1
    <2>3. synced <= durable' \/ synced <= opened'
      BY <1>1, <1>2, <2>1, <2>2, BackedKept
    <2>4. Backed(synced)' /\ Backed(claim)'
      BY <1>2, <2>1, <2>2, <2>3 DEF Backed
    <2>. QED
      BY <1>2, <2>1, <2>2, <2>4 DEF Backing
  <1>19. CASE Recovered
    <2>1. /\ pc \notin Committing /\ synced' = Version /\ opened' = Version
          /\ UNCHANGED <<stored, header, floor, claim, durable>>
      BY <1>19 DEF Recovered, Committing, storeVars
    <2>2. Version \in Nat
      BY <1>1, Facts, MemTypes
    <2>3. Backed(synced)' /\ Backed(claim)'
      BY <1>2, <2>1, <2>2 DEF Backed
    <2>. QED
      BY <1>2, <2>1, <2>3 DEF Backing
  <1>. QED
    BY <1>4, <1>5, <1>6, <1>7, <1>8, <1>9, <1>10, <1>11, <1>12, <1>13, <1>14, <1>15,
       <1>16, <1>17, <1>18, <1>19 DEF Next, Actor, Drain, Fold, Store, Publish, Open

\* No answer given in a step claims more than is backed.
Honest ==
    \A r \in Req : reply'[r] # reply[r] => Backed(reply[r].synced)'

\* An answer is a failure, which claims nothing, or carries the frontier of the
\* log or the one the acknowledgements of the batch were given.
LEMMA HonestNext == IInv /\ IInv' /\ [Next]_vars => Honest
  <1>. SUFFICES ASSUME IInv, IInv', [Next]_vars PROVE Honest
    OBVIOUS
  <1>1. /\ reply \in [Req -> ReplyType] /\ durable' \in Nat
        /\ Backed(synced) /\ Backed(claim)
    BY DEF IInv, TypeOK, ClientTypes, StoreTypes, ReplyType, Backing
  <1>2. ASSUME UNCHANGED reply PROVE Honest
    BY <1>2 DEF Honest
  <1>3. ASSUME NEW q, NEW code, reply' = [reply EXCEPT ![q] = Failure(code)]
        PROVE  Honest
    BY <1>1, <1>3 DEF Honest, Failure, Reply, Backed
  <1>4. ASSUME NEW q, NEW vs, NEW st, UNCHANGED <<durable, opened>>, NEW v \in {synced, claim},
               reply' = [reply EXCEPT ![q] = Reply("ok", vs, v, st)]
        PROVE  Honest
    <2>1. Backed(v)
      BY <1>1, <1>4
    <2>2. ASSUME NEW r \in Req, reply'[r] # reply[r]
          PROVE  reply'[r].synced = v
      BY <1>1, <1>4, <2>2 DEF Reply
    <2>. QED
      BY <1>4, <2>1, <2>2 DEF Honest, Backed
  <1>5. CASE \E r \in Req, c \in Commands : Submit(r, c)
    BY <1>3, <1>5 DEF Submit
  <1>6. CASE DrainAppend \/ Refuse
    BY <1>2, <1>3, <1>6 DEF DrainAppend, Refuse
  <1>7. CASE AnswerView
    <2>1. /\ UNCHANGED <<durable, opened>>
          /\ \E q, vs, st, code :
                \/ reply' = [reply EXCEPT ![q] = Reply("ok", vs, synced, st)]
                \/ reply' = [reply EXCEPT ![q] = Failure(code)]
      BY <1>7 DEF AnswerView, storeVars, faultVars
    <2>. QED
      BY <1>3, <1>4, <2>1
  <1>8. CASE AnswerCheckpoint
    <2>1. \/ reply' = [reply EXCEPT ![Head(queue)] = Reply("ok", {}, 0, Zero)]
          \/ reply' = [reply EXCEPT ![Head(queue)] = Failure("storage")]
      BY <1>8 DEF AnswerCheckpoint
    <2>2. CASE reply' = [reply EXCEPT ![Head(queue)] = Reply("ok", {}, 0, Zero)]
      BY <1>1, <2>2 DEF Honest, Reply, Backed
    <2>. QED
      BY <1>3, <2>1, <2>2
  <1>9. CASE RejectPatch \/ WriteFails \/ SyncFails
    <2>1. PICK code \in {"rejected", "storage"} : Isolate(code)
      BY <1>9 DEF RejectPatch, WriteFails, SyncFails
    <2>2. reply' = reply \/ reply' = [reply EXCEPT ![jobs[1]] = Failure(code)]
      BY <2>1, ClaimDropped
    <2>. QED
      BY <1>2, <1>3, <2>2
  <1>10. CASE Acknowledge
    <2>1. /\ UNCHANGED <<durable, opened>>
          /\ reply' = [reply EXCEPT ![Head(jobs)] = Reply("ok", Head(acks), claim, Zero)]
      BY <1>10 DEF Acknowledge, storeVars, faultVars
    <2>. QED
      BY <1>4, <2>1
  <1>11. CASE \E kind \in CrashKinds : Crash(kind)
    <2>1. reply' = [r \in Req |-> IF reply[r].status = "queued" THEN Failure("lost")
                                  ELSE reply[r]]
      BY <1>11 DEF Crash
    <2>. QED
      BY <1>1, <2>1 DEF Honest, Failure, Reply, Backed
  <1>12. CASE \/ Receive \/ Gather \/ Gathered \/ Flush \/ Drained
              \/ FoldPatch \/ NextJob \/ Folded \/ Write \/ Sync
    BY <1>2, <1>12 DEF Receive, Gather, Take, Gathered, Flush, Drained, FoldPatch,
                       NextJob, Folded, Write, Sync, clientVars
  <1>13. CASE \/ Assign \/ NextShare \/ Push \/ Announce \/ AutoCheckpoint \/ PublishFloor
              \/ Load \/ LoadFails \/ Replay \/ Recovered \/ Quiet \/ UNCHANGED vars
    BY <1>2, <1>13 DEF Assign, NextShare, Push, Announce, AutoCheckpoint, PublishFloor,
                       Load, LoadFails, Replay, Recovered, Quiet, vars, clientVars
  <1>. QED
    BY <1>5, <1>6, <1>7, <1>8, <1>9, <1>10, <1>11, <1>12, <1>13
       DEF Next, Actor, Drain, Fold, Store, Publish, Open

-----------------------------------------------------------------------------
(* The layout of the views. *)

\* The command of a request that was sent no longer changes.
LEMMA CommandsKept ==
    ASSUME TypeInv, [Next]_vars, NEW r \in Sent
    PROVE  cmd'[r] = cmd[r]
  <1>1. ASSUME NEW q \in Req, NEW c \in Commands, Submit(q, c)
        PROVE  cmd'[r] = cmd[r]
    BY <1>1 DEF Submit, Sent, TypeInv, TypeOK, ClientTypes
  <1>2. CASE cmd' = cmd
    BY <1>2
  <1>3. CASE Receive \/ Gather \/ Gathered \/ Drain
    BY <1>2, <1>3 DEF Receive, Gather, Take, Gathered, Drain, DrainAppend, Flush, Drained,
                      AnswerView, AnswerCheckpoint, clientVars
  <1>4. CASE Fold \/ Store
    BY <1>2, <1>4 DEF Fold, FoldPatch, NextJob, RejectPatch, Folded, Store, Write,
                      WriteFails, Sync, SyncFails, clientVars
  <1>5. CASE Publish \/ Open
    BY <1>2, <1>5 DEF Publish, Assign, NextShare, Push, Announce, AutoCheckpoint, PublishFloor,
                      Acknowledge, Open, Replay, Recovered, Refuse, clientVars
  <1>6. CASE (\E kind \in CrashKinds : Crash(kind)) \/ Load \/ LoadFails
    BY <1>2, <1>6 DEF Crash, Load, LoadFails, clientVars
  <1>7. CASE Quiet \/ UNCHANGED vars
    BY <1>2, <1>7 DEF Quiet, vars, clientVars
  <1>. QED
    BY <1>1, <1>3, <1>4, <1>5, <1>6, <1>7 DEF Next, Actor

\* The same of the jobs after a step.
Counted ==
    Len(jobs) \in Nat /\ \A j \in 1..Len(jobs) : Len(JobPatches(j)) \in Nat

LEMMA JobTypesNext ==
    TypeInv' => /\ Len(jobs') \in Nat
                /\ \A j \in 1..Len(jobs') : Len(JobPatches(j)') \in Nat
  <1>1. TypeInv => Counted
    BY JobTypes DEF Counted
  <1>2. TypeInv' => Counted'
    BY <1>1, PTL
  <1>. QED
    BY <1>2 DEF Counted

\* A commit that begins has reached its first job and laid nothing.
LEMMA LaidBegin ==
    ASSUME TypeInv', pc' = "fold", at' = FirstPatch, views' = <<>>, offset' = 0
    PROVE  Laid'
  <1>. DEFINE st == <<0>>
  <1>1. st \in Seq(Nat) /\ st \in [1..1 -> Nat] /\ st[1] = 0
    OBVIOUS
  <1>2. at'.job = 1 /\ at'.patch = 1
    BY DEF FirstPatch
  <1>3. Within'
    <2>1. /\ Len(jobs') \in Nat
          /\ \A j \in 1..Len(jobs') : Len(JobPatches(j)') \in Nat
      BY JobTypesNext
    <2>2. PICK n \in Nat : n = Len(jobs')
      BY <2>1
    <2>3. CASE 1 <= n
      <3>1. Len(JobPatches(1)') \in Nat
        BY <2>1, <2>2, <2>3
      <3>. QED
        BY <1>2, <2>2, <2>3, <3>1 DEF Within
    <2>4. CASE ~(1 <= n)
      BY <1>2, <2>2, <2>4 DEF Within
    <2>. QED
      BY <2>3, <2>4
  <1>4. Spread(st, 1)'
    <2>1. ASSUME NEW j \in 1..1
          PROVE  st[j] = 0 /\ ~(j < 1)
      BY <1>1
    <2>2. Len(views') = 0
      OBVIOUS
    <2>3. ASSUME NEW j \in 1..1, NEW i \in 1..Len(JobPatches(j)')
          PROVE  ~(st[j] + i <= Len(views'))
      BY <2>1, <2>2
    <2>. HIDE DEF st
    <2>. QED
      BY <1>1, <2>1, <2>2, <2>3 DEF Spread
  <1>5. Spread(st, at.job)' /\ Len(views') = st[at'.job] + at'.patch - 1
    BY <1>1, <1>2, <1>4
  <1>. HIDE DEF st
  <1>. QED
    BY <1>1, <1>3, <1>5 DEF Laid

\* Every way a commit begins, ends or is tried again.
LEMMA LaidRestart ==
    ASSUME TypeInv', NEW code,
           (\E js : Begin(js)) \/ Proceed \/ Isolate(code)
    PROVE  Laid'
  <1>1. \/ pc' = "drain"
        \/ pc' = "fold" /\ at' = FirstPatch /\ views' = <<>> /\ offset' = 0
    BY DEF Begin, Proceed, Isolate
  <1>. QED
    BY <1>1, LaidBegin DEF Laid

\* The commands of the jobs, and so the shape of the layout, stay what they are.
LEMMA SpreadKept ==
    ASSUME UNCHANGED <<jobs, views>>, NEW n \in Nat, n <= Len(jobs) + 1, NEW st,
           Spread(st, n), TypeInv, \A r \in Sent : cmd'[r] = cmd[r]
    PROVE  /\ Spread(st, n)'
           /\ \A j \in 1..Len(jobs) : JobPatches(j)' = JobPatches(j)
  <1>1. ASSUME NEW j \in 1..Len(jobs) PROVE JobPatches(j)' = JobPatches(j)
    <2>1. jobs[j] \in Sent
      BY DEF TypeInv, Bookkeeping, Ready
    <2>. QED
      BY <2>1 DEF JobPatches
  <1>2. ASSUME NEW k \in 1..n
        PROVE  /\ st[k] <= Len(views')
               /\ k < n => st[k + 1] = st[k] + Len(JobPatches(k)')
               /\ k <= Len(jobs') =>
                     \A i \in 1..Len(JobPatches(k)') : st[k] + i <= Len(views') =>
                         /\ views'[st[k] + i].req = jobs'[k]
                         /\ views'[st[k] + i].patch = (JobPatches(k)')[i]
    <2>1. n <= Len(jobs) + 1 /\ k < n => k \in 1..Len(jobs)
      BY JobTypes
    <2>2. k <= Len(jobs) => k \in 1..Len(jobs)
      BY JobTypes
    <2>. QED
      BY <1>1, <2>1, <2>2 DEF Spread
  <1>. QED
    BY <1>1, <1>2 DEF Spread

\* What the layout speaks of stays as it was.
LEMMA SpreadSame ==
    ASSUME UNCHANGED <<jobs, views, cmd>>, NEW n, NEW st, Spread(st, n)
    PROVE  Spread(st, n)'
  BY DEF Spread, JobPatches

\* The next patch of the fold lays its view behind those before it.
LEMMA LaidFold ==
    ASSUME TypeInv, Laid, FoldPatch
    PROVE  Laid'
  <1>1. PICK j \in 1..Len(jobs) : j = at.job
    BY JobTypes DEF FoldPatch, InBatch
  <1>2. PICK i \in 1..Len(JobPatches(j)) : i = at.patch
    BY <1>1, JobTypes DEF FoldPatch, Remaining, Job, JobPatches
  <1>3. PICK st \in Seq(Nat) : Spread(st, j) /\ Len(views) = st[j] + i - 1
    BY <1>1, <1>2 DEF Laid, FoldPatch, InBatch
  <1>4. PICK m \in Nat : m = Len(views)
    BY JobTypes
  <1>5. PICK view : /\ views' = Append(views, view)
                    /\ view.req = jobs[j] /\ view.patch = JobPatches(j)[i]
    <2>1. Job = jobs[j] /\ Patch = JobPatches(j)[i]
      BY <1>1, <1>2 DEF Job, Patch, JobPatches
    <2>. DEFINE w == [version |-> IF Mints(Patch, Current) THEN Version + 1 ELSE Version,
                      patch |-> Patch, req |-> Job]
    <2>2. views' = Append(views, w)
      BY DEF FoldPatch
    <2>3. w.req = Job /\ w.patch = Patch
      OBVIOUS
    <2>. HIDE DEF w
    <2>. QED
      BY <2>1, <2>2, <2>3
  <1>6. /\ pc = "fold" /\ pc' = pc /\ UNCHANGED <<jobs, cmd, offset>>
        /\ at'.job = j /\ at'.patch = i + 1
    BY <1>1, <1>2 DEF FoldPatch, InBatch, clientVars, TypeInv, TypeOK, CommitTypes
  <1>7. /\ Len(views') = m + 1 /\ views'[m + 1] = view
        /\ \A k \in 1..m : views'[k] = views[k]
    BY <1>4, <1>5, JobTypes
  <1>8. \A k \in 1..Len(jobs) : JobPatches(k)' = JobPatches(k)
    BY <1>6 DEF JobPatches
  <1>9. Spread(st, j)'
    <2>1. /\ st \in [1..j -> Nat] /\ st[1] = 0 /\ st[j] = m + 1 - i
      BY <1>3, <1>4, JobTypes DEF Spread
    <2>2. ASSUME NEW k \in 1..j
          PROVE  /\ st[k] <= Len(views')
                 /\ k < j => st[k + 1] = st[k] + Len(JobPatches(k)')
                 /\ k <= Len(jobs') =>
                       \A l \in 1..Len(JobPatches(k)') : st[k] + l <= Len(views') =>
                           /\ views'[st[k] + l].req = jobs'[k]
                           /\ views'[st[k] + l].patch = (JobPatches(k)')[l]
      <3>1. k \in 1..Len(jobs) /\ JobPatches(k)' = JobPatches(k) /\ st[k] \in Nat
        BY <1>8, <2>1, JobTypes
      <3>2. /\ st[k] <= m /\ (k < j => st[k + 1] = st[k] + Len(JobPatches(k)))
            /\ \A l \in 1..Len(JobPatches(k)) : st[k] + l <= m =>
                  views[st[k] + l].req = jobs[k] /\ views[st[k] + l].patch = JobPatches(k)[l]
        <4>1. k <= Len(jobs)
          BY <3>1, JobTypes
        <4>. QED
          BY <1>3, <1>4, <4>1 DEF Spread
      <3>3. ASSUME NEW l \in 1..Len(JobPatches(k)), st[k] + l <= m + 1
            PROVE  /\ views'[st[k] + l].req = jobs[k]
                   /\ views'[st[k] + l].patch = JobPatches(k)[l]
        <4>1. CASE st[k] + l <= m
          <5>1. st[k] + l \in 1..m
            <6>1. l \in Nat \ {0}
              BY <3>1, JobTypes
            <6>. QED
              BY <3>1, <4>1, <6>1
          <5>. QED
            BY <1>7, <3>2, <4>1, <5>1
        <4>2. CASE st[k] + l = m + 1
          <5>1. k = j
            <6>1. SUFFICES ASSUME k < j PROVE FALSE
              BY <2>1
            <6>2. k + 1 \in 1..j
              BY <6>1
            <6>3. st[k + 1] <= m
              BY <1>3, <1>4, <6>2 DEF Spread
            <6>4. PICK c \in Nat : c = Len(JobPatches(k)) /\ l <= c
              BY <3>1, JobTypes
            <6>5. st[k] + c <= m
              BY <3>2, <6>1, <6>3, <6>4
            <6>6. l \in Nat
              BY <6>4
            <6>. QED
              BY <3>1, <4>2, <6>4, <6>5, <6>6
          <5>2. l = i
            BY <2>1, <4>2, <5>1
          <5>. QED
            BY <1>5, <1>7, <4>2, <5>1, <5>2
        <4>3. PICK b \in Nat : b = st[k]
          BY <3>1
        <4>4. l \in Nat
          BY <3>1, JobTypes
        <4>5. b + l <= m + 1
          BY <3>3, <4>3
        <4>6. b + l <= m \/ b + l = m + 1
          BY <4>4, <4>5
        <4>. QED
          BY <4>1, <4>2, <4>3, <4>6
      <3>. QED
        BY <1>4, <1>6, <1>7, <3>1, <3>2, <3>3
    <2>. QED
      BY <2>1, <2>2 DEF Spread
  <1>10. Within'
    BY <1>2, <1>6, <1>8, JobTypes DEF Within
  <1>11. Len(views') = st[at'.job] + at'.patch - 1
    <2>1. st[j] \in Nat
      BY <1>3 DEF Spread
    <2>. QED
      BY <1>3, <1>4, <1>6, <1>7, <2>1
  <1>12. Laid => offset = 0
    BY <1>6 DEF Laid
  <1>13. Spread(st, at.job)'
    BY <1>6, <1>9
  <1>. QED
    BY <1>6, <1>10, <1>11, <1>12, <1>13 DEF Laid

\* Past the last patch of a job, the views of the next one begin where they end.
LEMMA LaidNextJob ==
    ASSUME TypeInv, Laid, NextJob
    PROVE  Laid'
  <1>1. PICK j \in 1..Len(jobs) : j = at.job
    BY JobTypes DEF NextJob, InBatch
  <1>2. /\ pc = "fold" /\ pc' = pc /\ UNCHANGED <<jobs, cmd, views, offset>>
        /\ at'.job = j + 1 /\ at'.patch = 1 /\ Within /\ offset = 0
    BY <1>1 DEF NextJob, InBatch, clientVars, Laid
  <1>3. at.patch = Len(JobPatches(j)) + 1
    BY <1>1, <1>2, JobTypes DEF NextJob, Remaining, Job, JobPatches, Within
  <1>4. PICK st \in Seq(Nat) : Spread(st, j) /\ Len(views) = st[j] + at.patch - 1
    BY <1>1, <1>2 DEF Laid
  <1>5. /\ \A k \in 1..j : st[k] \in Nat
        /\ Len(views) = st[j] + Len(JobPatches(j)) /\ Len(views) \in Nat
    BY <1>3, <1>4, JobTypes DEF Spread
  <1>6. PICK su \in Seq(Nat) :
           /\ su \in [1..(j + 1) -> Nat]
           /\ su[j + 1] = Len(views) /\ \A k \in 1..j : su[k] = st[k]
    <2>. DEFINE tt == [k \in 1..(j + 1) |-> IF k = j + 1 THEN Len(views) ELSE st[k]]
    <2>1. /\ tt \in [1..(j + 1) -> Nat] /\ tt \in Seq(Nat)
          /\ tt[j + 1] = Len(views) /\ \A k \in 1..j : tt[k] = st[k]
      BY <1>5
    <2>. HIDE DEF tt
    <2>. QED
      BY <2>1
  <1>7. su[j + 1] = Len(views) /\ \A k \in 1..j : su[k] = st[k]
    BY <1>6
  <1>8. \A k \in 1..Len(jobs) : JobPatches(k)' = JobPatches(k)
    BY <1>2 DEF JobPatches
  <1>9. Spread(su, j + 1)
    <2>1. su[1] = 0
      BY <1>4, <1>7 DEF Spread
    <2>2. ASSUME NEW k \in 1..(j + 1)
          PROVE  /\ su[k] <= Len(views)
                 /\ k < j + 1 => su[k + 1] = su[k] + Len(JobPatches(k))
                 /\ k <= Len(jobs) =>
                       \A i \in 1..Len(JobPatches(k)) : su[k] + i <= Len(views) =>
                           /\ views[su[k] + i].req = jobs[k]
                           /\ views[su[k] + i].patch = JobPatches(k)[i]
      <3>1. CASE k = j + 1
        BY <1>5, <1>7, <3>1
      <3>2. CASE k \in 1..j
        <4>1. /\ st[k] <= Len(views) /\ (k < j => st[k + 1] = st[k] + Len(JobPatches(k)))
              /\ k <= Len(jobs) =>
                    \A i \in 1..Len(JobPatches(k)) : st[k] + i <= Len(views) =>
                        /\ views[st[k] + i].req = jobs[k]
                        /\ views[st[k] + i].patch = JobPatches(k)[i]
          BY <1>4, <3>2 DEF Spread
        <4>2. k < j + 1 => su[k + 1] = su[k] + Len(JobPatches(k))
          <5>1. CASE k = j
            BY <1>5, <1>7, <5>1
          <5>2. CASE k < j
            <6>1. k + 1 \in 1..j /\ k \in 1..j
              BY <3>2, <5>2
            <6>. QED
              BY <1>7, <4>1, <5>2, <6>1
          <5>. QED
            BY <3>2, <5>1, <5>2
        <4>. QED
          BY <1>7, <3>2, <4>1, <4>2
      <3>. QED
        BY <3>1, <3>2
    <2>. QED
      BY <1>6, <2>1, <2>2 DEF Spread
  <1>10. Spread(su, j + 1)'
    <2>1. PICK n : n = j + 1
      OBVIOUS
    <2>2. Spread(su, n)'
      BY <1>2, <1>9, <2>1, SpreadSame
    <2>. QED
      BY <2>1, <2>2
  <1>11. Within'
    BY <1>2, <1>8, JobTypes DEF Within
  <1>12. Len(views') = su[at'.job] + at'.patch - 1
    BY <1>2, <1>5, <1>7
  <1>13. Spread(su, at.job)'
    BY <1>2, <1>10
  <1>. QED
    BY <1>2, <1>11, <1>12, <1>13 DEF Laid

\* The fold is over, and the running offset starts at the first job.
LEMMA LaidFolded ==
    ASSUME TypeInv, Laid, Folded
    PROVE  Laid'
  <1>1. /\ pc = "fold" /\ pc' \in {"assign", "write"}
        /\ UNCHANGED <<jobs, cmd, views, offset>> /\ at' = FirstPatch
        /\ Within /\ offset = 0
    BY DEF Folded, clientVars, Laid
  <1>2. at.job = Len(jobs) + 1 /\ at.patch = 1
    BY <1>1, JobTypes DEF Folded, Within
  <1>3. PICK st \in Seq(Nat) : Spread(st, at.job) /\ Len(views) = st[at.job] + at.patch - 1
    BY <1>1 DEF Laid
  <1>4. Spread(st, Len(jobs) + 1)
    BY <1>2, <1>3
  <1>5. st[1] = 0 /\ Len(views) = st[Len(jobs) + 1]
    <2>1. Len(jobs) + 1 \in 1..(Len(jobs) + 1)
      BY JobTypes
    <2>2. st[Len(jobs) + 1] \in Nat
      BY <1>4, <2>1 DEF Spread
    <2>. QED
      BY <1>2, <1>3, <1>4, <2>2 DEF Spread
  <1>6. \A k \in 1..Len(jobs) : JobPatches(k)' = JobPatches(k)
    BY <1>1 DEF JobPatches
  <1>7. Spread(st, Len(jobs) + 1)'
    <2>1. PICK n : n = Len(jobs) + 1
      OBVIOUS
    <2>2. Spread(st, n)'
      BY <1>1, <1>4, <2>1, SpreadSame
    <2>. QED
      BY <1>1, <2>1, <2>2
  <1>8. Within'
    BY <1>1, <1>6, JobTypes DEF Within, FirstPatch
  <1>. QED
    BY <1>1, <1>5, <1>7, <1>8 DEF Laid, FirstPatch

\* A step that keeps the layout, with the place of Assign and its offset.
LEMMA LaidFrame ==
    ASSUME TypeInv, Laid, [Next]_vars, UNCHANGED <<jobs, views, at, offset>>,
           \/ pc' = pc
           \/ pc \in {"write", "sync"} /\ pc' \in {"sync", "assign"}
           \/ pc' \notin {"fold", "write", "sync", "assign"}
    PROVE  Laid'
  <1>1. \A r \in Sent : cmd'[r] = cmd[r]
    BY CommandsKept
  <1>2. \A j \in 1..Len(jobs) : JobPatches(j)' = JobPatches(j)
    <2>. SUFFICES ASSUME NEW j \in 1..Len(jobs) PROVE JobPatches(j)' = JobPatches(j)
      OBVIOUS
    <2>1. jobs[j] \in Sent
      BY DEF TypeInv, Bookkeeping, Ready
    <2>. QED
      BY <1>1, <2>1 DEF JobPatches
  <1>3. Within => Within'
    <2>1. at.job <= Len(jobs) => at.job \in 1..Len(jobs)
      BY JobTypes
    <2>2. at.job <= Len(jobs) => JobPatches(at.job)' = JobPatches(at.job)
      <3>1. ASSUME at.job <= Len(jobs) PROVE JobPatches(at.job)' = JobPatches(at.job)
        <4>1. PICK j \in 1..Len(jobs) : j = at.job
          BY <2>1, <3>1
        <4>2. JobPatches(j)' = JobPatches(j)
          BY <1>2
        <4>. QED
          BY <4>1, <4>2 DEF JobPatches
      <3>. QED
        BY <3>1
    <2>. QED
      BY <2>2 DEF Within
  <1>4. \A n \in Nat, st \in Seq(Nat) :
           n <= Len(jobs) + 1 /\ Spread(st, n) => Spread(st, n)'
    BY <1>1, SpreadKept
  <1>5. CASE pc' = "fold"
    <2>1. pc = "fold"
      BY <1>5
    <2>2. PICK st \in Seq(Nat) : Spread(st, at.job) /\ Len(views) = st[at.job] + at.patch - 1
      BY <2>1 DEF Laid
    <2>3. PICK n \in Nat : n = at.job /\ n <= Len(jobs) + 1
      BY <2>1, JobTypes DEF Laid, Within
    <2>4. Spread(st, n)'
      BY <1>4, <2>2, <2>3
    <2>5. Spread(st, at.job)'
      BY <2>3, <2>4
    <2>. QED
      BY <1>3, <1>5, <2>1, <2>2, <2>5 DEF Laid
  <1>6. CASE pc' \in {"write", "sync", "assign"}
    <2>1. pc \in {"write", "sync", "assign"} /\ (pc' \in {"write", "sync"} => pc \in {"write", "sync"})
      BY <1>6
    <2>2. PICK st \in Seq(Nat) :
             /\ Spread(st, Len(jobs) + 1) /\ Len(views) = st[Len(jobs) + 1]
             /\ offset = st[at.job]
      BY <2>1 DEF Laid
    <2>3. PICK n \in Nat : n = Len(jobs) + 1 /\ n <= Len(jobs) + 1
      BY JobTypes
    <2>4. Spread(st, n)'
      BY <1>4, <2>2, <2>3
    <2>5. Spread(st, Len(jobs) + 1)'
      BY <2>3, <2>4
    <2>. QED
      BY <1>3, <1>6, <2>1, <2>2, <2>5 DEF Laid
  <1>7. CASE pc' \notin {"fold", "write", "sync", "assign"}
    BY <1>7 DEF Laid
  <1>. QED
    BY <1>5, <1>6, <1>7

\* Assign goes through the share of a job, and the offset on to the next share.
LEMMA LaidAssign ==
    ASSUME TypeInv, Laid, Assign \/ NextShare
    PROVE  Laid'
  <1>1. PICK j \in 1..Len(jobs) : j = at.job
    BY JobTypes DEF Assign, NextShare
  <1>2. /\ pc = "assign" /\ pc' = pc /\ UNCHANGED <<jobs, cmd, views>> /\ Within
    BY DEF Assign, NextShare, clientVars, Laid
  <1>3. PICK st \in Seq(Nat) :
           /\ Spread(st, Len(jobs) + 1) /\ Len(views) = st[Len(jobs) + 1]
           /\ offset = st[at.job]
    BY <1>2 DEF Laid
  <1>4. \A k \in 1..Len(jobs) : JobPatches(k)' = JobPatches(k)
    BY <1>2 DEF JobPatches
  <1>5. Spread(st, Len(jobs) + 1)'
    <2>1. PICK n : n = Len(jobs) + 1
      OBVIOUS
    <2>2. Spread(st, n)'
      BY <1>2, <1>3, <2>1, SpreadSame
    <2>. QED
      BY <1>2, <2>1, <2>2
  <1>6. CASE Assign
    <2>1. at'.job = j /\ at'.patch = at.patch + 1 /\ offset' = offset
      BY <1>1, <1>6 DEF Assign, TypeInv, TypeOK, CommitTypes
    <2>2. Within'
      BY <1>1, <1>2, <1>4, <1>6, <2>1, JobTypes DEF Assign, Remaining, Job, JobPatches, Within
    <2>. QED
      BY <1>1, <1>2, <1>3, <1>5, <2>1, <2>2 DEF Laid
  <1>7. CASE NextShare
    <2>1. at'.job = j + 1 /\ at'.patch = 1 /\ offset' = offset + Len(JobPatches(j))
      BY <1>1, <1>7 DEF NextShare, Job, JobPatches
    <2>2. Within'
      BY <1>1, <1>2, <1>4, <2>1, JobTypes DEF Within
    <2>3. j \in 1..(Len(jobs) + 1) /\ j < Len(jobs) + 1
      BY <1>1, JobTypes
    <2>4. st[j + 1] = st[j] + Len(JobPatches(j))
      BY <1>3, <2>3 DEF Spread
    <2>. QED
      BY <1>1, <1>2, <1>3, <1>5, <2>1, <2>2, <2>4 DEF Laid
  <1>. QED
    BY <1>6, <1>7

\* Every step keeps the layout.
LEMMA LaidNext == IInv /\ [Next]_vars => Laid'
  <1>. SUFFICES ASSUME TypeInv, TypeInv', Laid, [Next]_vars PROVE Laid'
    BY TypeNext DEF IInv, TypeInv
  <1>1. CASE FoldPatch \/ NextJob \/ Folded \/ Assign \/ NextShare
    BY <1>1, LaidFold, LaidNextJob, LaidFolded, LaidAssign
  <1>2. CASE Flush
    BY <1>2, LaidRestart DEF Flush
  <1>3. CASE RejectPatch \/ WriteFails \/ SyncFails
    <2>1. Isolate("rejected") \/ Isolate("storage")
      BY <1>3 DEF RejectPatch, WriteFails, SyncFails
    <2>. QED
      BY <2>1, LaidRestart
  <1>4. CASE Acknowledge
    <2>1. pc' = "acknowledge" \/ Proceed
      BY <1>4 DEF Acknowledge
    <2>. QED
      BY <2>1, LaidRestart DEF Laid
  <1>5. CASE Write \/ Sync
    <2>1. /\ UNCHANGED <<jobs, views, at, offset>>
          /\ pc \in {"write", "sync"} /\ pc' \in {"sync", "assign"}
      BY <1>5 DEF Write, Sync, commitVars
    <2>. QED
      BY <2>1, LaidFrame
  <1>6. CASE \/ Receive \/ Gather \/ Gathered \/ DrainAppend \/ Drained \/ AnswerView
             \/ AnswerCheckpoint \/ Push \/ Announce \/ AutoCheckpoint \/ PublishFloor
    <2>1. pc' \notin {"fold", "write", "sync", "assign"}
      BY <1>6 DEF Receive, Gather, Gathered, DrainAppend, Drained, AnswerView, Reading,
                  AnswerCheckpoint, Push, Announce, AutoCheckpoint, PublishFloor
    <2>. QED
      BY <2>1 DEF Laid
  <1>7. CASE \/ Load \/ LoadFails \/ Replay \/ Recovered \/ Refuse
             \/ \E kind \in CrashKinds : Crash(kind)
    <2>1. pc' \notin {"fold", "write", "sync", "assign"}
      <3>1. CASE Replay \/ Refuse
        BY <3>1 DEF Replay, Refuse
      <3>2. CASE \/ Load \/ LoadFails \/ Recovered
                 \/ \E kind \in CrashKinds : Crash(kind)
        BY <3>2 DEF Load, LoadFails, Recovered, Crash
      <3>. QED
        BY <1>7, <3>1, <3>2
    <2>. QED
      BY <2>1 DEF Laid
  <1>8. CASE (\E r \in Req, c \in Commands : Submit(r, c)) \/ Quiet \/ UNCHANGED vars
    <2>1. UNCHANGED <<jobs, views, at, offset, pc>>
      BY <1>8 DEF Submit, Quiet, vars, commitVars
    <2>. QED
      BY <2>1, LaidFrame
  <1>. QED
    BY <1>1, <1>2, <1>3, <1>4, <1>5, <1>6, <1>7, <1>8
       DEF Next, Actor, Drain, Fold, Store, Publish, Open

-----------------------------------------------------------------------------
(* The invariant, and what follows from it. *)

\* The initial state satisfies the invariant.
LEMMA InvInit == Init => IInv
  <1>. SUFFICES ASSUME Init PROVE IInv
    OBVIOUS
  <1>1. TypeInv
    BY TypeInit
  <1>2. stored \o residue = <<>> /\ Len(stored) = 0 /\ stored = <<>>
    BY DEF Init
  <1>3. Chain(<<>>)
    BY DEF Chain
  <1>4. Holds(mem, stored, 0)
    BY <1>2 DEF Init, Empty, Holds, After
  <1>5. Agreement
    BY <1>2, <1>3, <1>4 DEF Init, Agreement, AtEnd, Committing
  <1>6. Backing
    BY <1>2 DEF Init, Backing, Backed, After
  <1>7. Reopens
    BY DEF Init, Reopens
  <1>8. Laid
    BY DEF Init, Laid
  <1>. QED
    BY <1>1, <1>5, <1>6, <1>7, <1>8 DEF IInv, TypeInv

\* Only storage that will not open refuses a log: every record replays.
LEMMA ReopensNext == IInv /\ [Next]_vars => Reopens'
  <1>. SUFFICES ASSUME IInv, [Next]_vars, pc' = "refused" PROVE "open" \in Faults
    BY DEF Reopens
  <1>1. CASE pc = "refused"
    BY <1>1 DEF IInv, Reopens
  <1>2. CASE pc # "refused"
    <2>1. CASE LoadFails
      BY <2>1 DEF LoadFails, Fault
    <2>2. CASE Replay
      BY <2>2, AgreementReplay
    <2>3. CASE Receive \/ Gather \/ Gathered \/ Drain \/ Load \/ Recovered \/ Refuse
      BY <1>2, <2>3, Restarts
         DEF Receive, Gather, Gathered, Drain, DrainAppend, Flush, Drained, AnswerView,
             AnswerCheckpoint, Load, Recovered, Refuse
    <2>4. CASE Fold \/ Store \/ Publish
      BY <1>2, <2>4, Restarts
         DEF Fold, FoldPatch, NextJob, RejectPatch, Folded, Store, Write, WriteFails,
             Sync, SyncFails, Publish, Assign, NextShare, Push, Announce, AutoCheckpoint,
             PublishFloor, Acknowledge
    <2>5. CASE \/ \E r \in Req, c \in Commands : Submit(r, c)
               \/ \E kind \in CrashKinds : Crash(kind)
               \/ Quiet \/ UNCHANGED vars
      BY <1>2, <2>5 DEF Submit, Crash, Quiet, vars
    <2>. QED
      BY <2>1, <2>2, <2>3, <2>4, <2>5 DEF Next, Actor, Open
  <1>. QED
    BY <1>1, <1>2

\* The invariant is inductive.
THEOREM Invariance == Spec => []IInv
  <1>1. Init => IInv
    BY InvInit
  <1>2. IInv /\ [Next]_vars => IInv'
    BY TypeNext, AgreementNext, BackingNext, LaidNext, ReopensNext DEF IInv, TypeInv
  <1>. QED
    BY <1>1, <1>2, PTL DEF Spec

\* Every variable keeps its type, and the structure always has a current
\* snapshot to answer a view with (Store::snapshot).
THEOREM TypeCorrect == Spec => []TypeOK
  <1>1. IInv => TypeOK
    BY DEF IInv
  <1>. QED
    BY <1>1, Invariance, PTL

\* Log::append and Log::open keep memory at the end of the log, whatever the
\* structure, the batches, the storage failures and the crashes.
THEOREM MemoryFollowsLog == Spec => []MemoryMatchesLog
  <1>1. IInv => MemoryMatchesLog
    <2>. SUFFICES ASSUME IInv PROVE MemoryMatchesLog
      OBVIOUS
    <2>1. TypeInv /\ Agreement
      BY DEF IInv, TypeInv
    <2>2. /\ stored \in Seq(Record) /\ records \in Seq(Record) /\ residue \in Seq(Record)
          /\ Len(stored) \in Nat /\ mem.base \in Nat /\ Version \in Nat
      BY <2>1, Facts, MemTypes
    <2>3. Chain(stored)
      BY <2>1, <2>2, ChainFront DEF Agreement
    <2>4. \A v : StateAt(v) = After(stored, v)
      BY DEF StateAt, After
    <2>5. \A v \in 1..Len(stored) :
             /\ stored[v].version = v
             /\ Apply[stored[v].patch][StateAt(v - 1)] = stored[v].state
      BY <2>3, <2>4 DEF Chain
    <2>6. pc \in {"idle", "gather", "drain"} =>
             Version = Len(stored) /\ watermark = Len(stored)
      BY <2>1 DEF Agreement, AtEnd, Holds, Version
    <2>7. ASSUME pc \notin {"down", "refused"}, NEW v \in mem.base..Version,
                 v <= Len(stored)
          PROVE  mem.states[v - mem.base + 1] = StateAt(v)
      <3>1. CASE pc \in AtEnd
        BY <2>1, <2>4, <3>1 DEF Agreement, Holds, Version
      <3>2. CASE pc \in {"fold", "write"}
        <4>1. After(stored \o records, v) = After(stored, v)
          BY <2>2, <2>7, AfterPrefix
        <4>. QED
          BY <2>1, <2>4, <3>2, <4>1 DEF Agreement, Holds, Version
      <3>3. CASE pc = "replay"
        BY <2>1, <2>4, <3>3 DEF Agreement, Holds, Version
      <3>. QED
        BY <2>1, <2>7, <3>1, <3>2, <3>3
           DEF TypeInv, TypeOK, ActorTypes, Points, AtEnd, Committing
    <2>. QED
      BY <2>5, <2>6, <2>7 DEF MemoryMatchesLog
  <1>. QED
    BY <1>1, Invariance, PTL

\* Storage::write_header is only ever called with a version whose records are
\* on stable storage, so reclaiming below it loses nothing.
THEOREM HeaderBacked == Spec => []HeaderIsBacked
  <1>1. IInv => HeaderIsBacked
    BY DEF IInv, Backing, HeaderIsBacked, StateAt, After
  <1>. QED
    BY <1>1, Invariance, PTL

\* The frontier a log keeps and the one an answer reports (Log::synced) are on
\* stable storage or were found when the log was opened: no checkpoint, failed
\* sync or batch of another request makes one claim more.
THEOREM FrontierBacked == Spec => FrontierIsBacked
  <1>1. IInv => Backed(synced)
    BY DEF IInv, Backing
  <1>2. IInv /\ IInv' /\ [Next]_vars =>
           [\A r \in Req : reply'[r] # reply[r] => Backed(reply[r].synced)']_vars
    BY HonestNext DEF Honest
  <1>. QED
    BY <1>1, <1>2, Invariance, PTL DEF Spec, FrontierIsBacked

\* Log::open never refuses records that Log::append wrote.
THEOREM AlwaysReopens == Spec => []Reopens
  <1>1. IInv => Reopens
    BY DEF IInv
  <1>. QED
    BY <1>1, Invariance, PTL


-----------------------------------------------------------------------------
(* How the views of a commit climb, as facts about sequences. *)

\* A commit that has folded nothing stands at the end of the log.
LEMMA ClimbsEmpty ==
    ASSUME NEW log \in Seq(Record), NEW n \in Nat, n = Len(log)
    PROVE  Climbs(log, n, n, <<>>, <<>>)
  BY DEF Climbs, Prev

\* What the climb says of the types it needs.
LEMMA ClimbsMirrors ==
    ASSUME NEW log \in Seq(Record), NEW rec \in Record, NEW e \in Entry, Mirrors(log, e)
    PROVE  Mirrors(Append(log, rec), e)
  BY DEF Mirrors, Entry

\* A patch that changed nothing gives a view of the version it found.
LEMMA ClimbsRepeat ==
    ASSUME NEW log \in Seq(Record), NEW start, NEW n \in Nat, NEW vs \in Seq(Entry),
           NEW es \in Seq(Entry), Climbs(log, start, n, vs, es),
           NEW v \in Entry, v.version = Len(log)
    PROVE  Climbs(log, start, n, Append(vs, v), es)
  <1>. DEFINE ws == Append(vs, v)
  <1>1. /\ ws \in Seq(Entry) /\ Len(ws) = Len(vs) + 1 /\ Len(vs) \in Nat
        /\ \A i \in 1..Len(vs) : ws[i] = vs[i]
        /\ ws[Len(vs) + 1] = v
    OBVIOUS
  <1>2. \A i \in 1..(Len(vs) + 1) : Prev(n, ws, i) = Prev(n, vs, i)
    BY <1>1 DEF Prev
  <1>3. Prev(n, ws, Len(ws) + 1) = Len(log)
    BY <1>1 DEF Prev
  <1>4. ASSUME NEW i \in 1..Len(ws)
        PROVE  \/ ws[i].version = Prev(n, ws, i)
               \/ ws[i].version = Prev(n, ws, i) + 1 /\ Mirrors(log, ws[i])
    <2>1. CASE i = Len(vs) + 1
      BY <1>1, <1>2, <2>1 DEF Climbs
    <2>2. CASE i \in 1..Len(vs)
      <3>1. ws[i] = vs[i] /\ Prev(n, ws, i) = Prev(n, vs, i)
        BY <1>1, <1>2, <2>2
      <3>. QED
        BY <2>2, <3>1 DEF Climbs
    <2>. QED
      BY <1>1, <2>1, <2>2
  <1>. HIDE DEF ws
  <1>5. Climbs(log, start, n, ws, es)
    BY <1>3, <1>4 DEF Climbs
  <1>. QED
    BY <1>5 DEF ws

\* A patch that minted a version gives a view of the record it became.
LEMMA ClimbsMint ==
    ASSUME NEW log \in Seq(Record), NEW start, NEW n \in Nat, NEW vs \in Seq(Entry),
           NEW es \in Seq(Entry), Climbs(log, start, n, vs, es),
           NEW rec \in Record, NEW v \in Entry, v.version = Len(log) + 1,
           v.req = rec.req, v.patch = rec.patch
    PROVE  Climbs(Append(log, rec), start, n, Append(vs, v), es)
  <1>. DEFINE ws == Append(vs, v)
              more == Append(log, rec)
  <1>1. /\ ws \in Seq(Entry) /\ Len(ws) = Len(vs) + 1 /\ Len(vs) \in Nat
        /\ \A i \in 1..Len(vs) : ws[i] = vs[i] /\ vs[i] \in Entry
        /\ ws[Len(vs) + 1] = v
    OBVIOUS
  <1>2. /\ more \in Seq(Record) /\ Len(more) = Len(log) + 1 /\ Len(log) \in Nat
        /\ more[Len(log) + 1] = rec
    OBVIOUS
  <1>3. \A i \in 1..(Len(vs) + 1) : Prev(n, ws, i) = Prev(n, vs, i)
    BY <1>1 DEF Prev
  <1>4. Mirrors(more, v)
    BY <1>2 DEF Mirrors
  <1>5. \A e \in Entry : Mirrors(log, e) => Mirrors(more, e)
    BY ClimbsMirrors
  <1>. HIDE DEF ws, more
  <1>6. Prev(n, ws, Len(ws) + 1) = Len(more)
    BY <1>1, <1>2 DEF Prev
  <1>7. ASSUME NEW i \in 1..Len(ws)
        PROVE  \/ ws[i].version = Prev(n, ws, i)
               \/ ws[i].version = Prev(n, ws, i) + 1 /\ Mirrors(more, ws[i])
    <2>1. CASE i = Len(vs) + 1
      <3>1. Prev(n, ws, i) = Len(log)
        BY <1>3, <1>1, <2>1 DEF Climbs
      <3>. QED
        BY <1>1, <1>4, <2>1, <3>1
    <2>2. CASE i \in 1..Len(vs)
      <3>1. ws[i] = vs[i] /\ Prev(n, ws, i) = Prev(n, vs, i) /\ vs[i] \in Entry
        BY <1>1, <1>3, <2>2
      <3>. QED
        BY <1>5, <2>2, <3>1 DEF Climbs
    <2>. QED
      BY <1>1, <2>1, <2>2
  <1>8. \A i \in 1..Len(es) : es[i].version = start + i /\ Mirrors(more, es[i])
    BY <1>5 DEF Climbs
  <1>9. start \in Nat /\ n = start + Len(es) /\ n <= Len(more)
    BY <1>2 DEF Climbs
  <1>10. Climbs(more, start, n, ws, es)
    BY <1>6, <1>7, <1>8, <1>9 DEF Climbs
  <1>. QED
    BY <1>10 DEF ws, more

\* Assigning the first view: it is passed over, or it becomes an entry.
LEMMA ClimbsPass ==
    ASSUME NEW log \in Seq(Record), NEW start, NEW n \in Nat, NEW vs \in Seq(Entry),
           NEW es \in Seq(Entry), Climbs(log, start, n, vs, es), vs # <<>>
    PROVE  /\ Head(vs).version > n =>
                 /\ Climbs(log, start, Head(vs).version, Tail(vs), Append(es, Head(vs)))
                 /\ Head(vs).version \in Nat
           /\ ~(Head(vs).version > n) => Climbs(log, start, n, Tail(vs), es)
  <1>. DEFINE v == Head(vs)
              ws == Tail(vs)
  <1>1. /\ v = vs[1] /\ v \in Entry /\ v.version \in Nat
        /\ ws \in Seq(Entry) /\ Len(ws) = Len(vs) - 1 /\ Len(vs) \in Nat \ {0}
        /\ \A i \in 1..Len(ws) : ws[i] = vs[i + 1]
    <2>1. v = vs[1] /\ v \in Entry /\ ws \in Seq(Entry) /\ Len(ws) = Len(vs) - 1
      BY Ends
    <2>2. Len(vs) \in Nat \ {0}
      BY Ends
    <2>3. v.version \in Nat
      BY <2>1 DEF Entry
    <2>4. \A i \in 1..Len(ws) : ws[i] = vs[i + 1]
      BY <2>2
    <2>. QED
      BY <2>1, <2>2, <2>3, <2>4
  <1>. HIDE DEF v, ws
  <1>2. v.version = n \/ (v.version = n + 1 /\ Mirrors(log, v))
    <2>1. 1 \in 1..Len(vs) /\ Prev(n, vs, 1) = n
      BY <1>1 DEF Prev
    <2>2. \/ vs[1].version = Prev(n, vs, 1)
          \/ vs[1].version = Prev(n, vs, 1) + 1 /\ Mirrors(log, vs[1])
      BY <2>1 DEF Climbs
    <2>3. v = vs[1]
      BY <1>1
    <2>. QED
      BY <2>1, <2>2, <2>3
  <1>3. ASSUME NEW i \in 1..(Len(ws) + 1)
        PROVE  Prev(v.version, ws, i) = Prev(n, vs, i + 1)
    <2>1. CASE i = 1
      BY <1>1, <2>1 DEF Prev
    <2>2. CASE i # 1
      <3>1. i - 1 \in 1..Len(ws) /\ (i - 1) + 1 = (i + 1) - 1
        BY <1>1, <2>2
      <3>2. ws[i - 1] = vs[(i + 1) - 1]
        BY <1>1, <3>1
      <3>. QED
        BY <1>1, <2>2, <3>2 DEF Prev
    <2>. QED
      BY <2>1, <2>2
  <1>4. /\ Prev(v.version, ws, Len(ws) + 1) = Len(log)
        /\ \A i \in 1..Len(ws) :
              \/ ws[i].version = Prev(v.version, ws, i)
              \/ ws[i].version = Prev(v.version, ws, i) + 1 /\ Mirrors(log, ws[i])
    <2>1. Prev(v.version, ws, Len(ws) + 1) = Len(log)
      BY <1>1, <1>3 DEF Climbs
    <2>2. ASSUME NEW i \in 1..Len(ws)
          PROVE  \/ ws[i].version = Prev(v.version, ws, i)
                 \/ ws[i].version = Prev(v.version, ws, i) + 1 /\ Mirrors(log, ws[i])
      <3>1. /\ i + 1 \in 1..Len(vs) /\ ws[i] = vs[i + 1]
            /\ Prev(v.version, ws, i) = Prev(n, vs, i + 1)
        BY <1>1, <1>3
      <3>. QED
        BY <3>1 DEF Climbs
    <2>. QED
      BY <2>1, <2>2
  <1>5. CASE v.version > n
    <2>. DEFINE fs == Append(es, v)
    <2>1. v.version = n + 1 /\ Mirrors(log, v)
      BY <1>1, <1>2, <1>5
    <2>2. /\ Len(fs) = Len(es) + 1 /\ Len(es) \in Nat /\ fs[Len(es) + 1] = v
          /\ \A i \in 1..Len(es) : fs[i] = es[i]
      BY <1>1
    <2>. HIDE DEF fs
    <2>3. start \in Nat /\ v.version = start + Len(fs) /\ v.version <= Len(log)
      BY <2>1, <2>2 DEF Climbs, Mirrors
    <2>4. ASSUME NEW i \in 1..Len(fs)
          PROVE  fs[i].version = start + i /\ Mirrors(log, fs[i])
      <3>1. CASE i = Len(es) + 1
        BY <2>1, <2>2, <2>3, <3>1
      <3>2. CASE i \in 1..Len(es)
        BY <2>2, <3>2 DEF Climbs
      <3>. QED
        BY <2>2, <3>1, <3>2
    <2>5. Climbs(log, start, v.version, ws, fs)
      BY <1>4, <2>3, <2>4 DEF Climbs
    <2>. QED
      BY <1>1, <1>5, <2>5 DEF fs, v, ws
  <1>6. CASE ~(v.version > n)
    <2>1. v.version = n
      BY <1>1, <1>2, <1>6
    <2>. QED
      BY <1>4, <1>6, <2>1 DEF Climbs, v, ws
  <1>. QED
    BY <1>5, <1>6 DEF v, ws

\* With no view left to assign, the entries reach the end of the log.
LEMMA ClimbsEnd ==
    ASSUME NEW log, NEW start, NEW n, NEW es, Climbs(log, start, n, <<>>, es)
    PROVE  n = Len(log)
  BY DEF Climbs, Prev

-----------------------------------------------------------------------------
(* The entries of a commit are what it added to the log. *)

Publishing == Committing \ {"fold", "write", "sync", "assign"}

\* The types of what a commit works on.
LEMMA CommitFacts ==
    ASSUME TypeInv
    PROVE  /\ Log \in Seq(Record) /\ stored \in Seq(Record) /\ records \in Seq(Record)
           /\ Len(Log) \in Nat /\ Len(stored) \in Nat /\ Len(records) \in Nat
           /\ pc \in {"fold", "write"} =>
                 Log = stored \o records /\ Len(Log) = Len(stored) + Len(records)
           /\ pc \notin {"fold", "write"} => Log = stored
           /\ views \in Seq(Entry) /\ entries \in Seq(Entry)
           /\ Rest \in Seq(Entry) /\ last \in Nat /\ watermark \in Nat /\ durable \in Nat
  <1>1. /\ stored \in Seq(Record) /\ records \in Seq(Record)
        /\ views \in Seq(Entry) /\ entries \in Seq(Entry)
        /\ last \in Nat /\ watermark \in Nat /\ durable \in Nat
    BY DEF TypeInv, TypeOK, CommitTypes, StoreTypes, LogTypes
  <1>2. stored \o records \in Seq(Record)
    BY <1>1
  <1>3. Len(stored \o records) = Len(stored) + Len(records)
    BY <1>1
  <1>4. Log \in Seq(Record)
    BY <1>1, <1>2 DEF Log
  <1>5. Len(Log) \in Nat /\ Len(stored) \in Nat /\ Len(records) \in Nat
    BY <1>1, <1>4
  <1>6. Rest \in Seq(Entry)
    <2>1. offset + at.patch \in Nat \ {0}
      BY JobTypes
    <2>. QED
      BY <1>1, <2>1, FromOn DEF Rest
  <1>. QED
    BY <1>1, <1>3, <1>4, <1>5, <1>6 DEF Log

\* Until its views are handed out, all of them are left, and at the first one
\* Assign starts.
LEMMA RestFirst ==
    ASSUME TypeInv, Laid, pc \in {"fold", "write", "sync"}, UNCHANGED <<views, offset>>,
           pc' \in {"write", "sync", "assign"}, at' = FirstPatch
    PROVE  Rest' = Rest
  <1>1. views \in Seq(Entry)
    BY JobTypes
  <1>2. offset = 0
    <2>1. CASE pc = "fold"
      BY <2>1 DEF Laid
    <2>2. CASE pc # "fold"
      <3>1. PICK st \in Seq(Nat) : Spread(st, Len(jobs) + 1) /\ offset = st[at.job]
        BY <2>2 DEF Laid
      <3>2. at = FirstPatch
        BY <2>2 DEF Laid
      <3>. QED
        BY <3>1, <3>2 DEF Spread, FirstPatch
    <2>. QED
      BY <2>1, <2>2
  <1>3. Rest = views
    BY DEF Rest
  <1>4. SubSeq(views, 0 + 1, Len(views)) = views
    BY <1>1, FromOn
  <1>5. offset' = 0 /\ at'.patch = 1 /\ views' = views
    BY <1>2 DEF FirstPatch
  <1>. QED
    BY <1>3, <1>4, <1>5 DEF Rest

\* Moving on to the share of the next job passes no view over.
LEMMA RestShare ==
    ASSUME TypeInv, Laid, NextShare
    PROVE  Rest' = Rest
  <1>1. PICK j \in 1..Len(jobs) : j = at.job
    BY JobTypes DEF NextShare
  <1>2. PICK n \in Nat : n = Len(JobPatches(j))
    BY JobTypes
  <1>3. PICK i \in Nat : i = at.patch
    BY JobTypes
  <1>4. PICK o \in Nat : o = offset
    BY JobTypes
  <1>5. i <= n + 1 /\ ~(i <= n)
    <2>1. Within
      BY DEF Laid, NextShare
    <2>2. j <= Len(jobs)
      BY <1>1, JobTypes
    <2>3. Len(JobPatches(j)) = Len(cmd[Job].patches)
      BY <1>1 DEF JobPatches, Job
    <2>. QED
      BY <1>1, <1>2, <1>3, <2>1, <2>2, <2>3 DEF Within, NextShare, Remaining
  <1>6. i = n + 1
    BY <1>5
  <1>7. /\ offset' = o + n /\ at'.patch = 1 /\ views' = views
        /\ pc = "assign" /\ pc' = "assign"
    BY <1>1, <1>2, <1>4 DEF NextShare, JobPatches, Job
  <1>8. offset' + at'.patch = offset + at.patch
    BY <1>3, <1>4, <1>6, <1>7
  <1>. QED
    BY <1>7, <1>8 DEF Rest

\* Past the last job, every view has been handed out.
LEMMA RestDone ==
    ASSUME TypeInv, Laid, pc = "assign", at.job > Len(jobs)
    PROVE  Rest = <<>>
  <1>1. PICK n \in Nat : n = Len(jobs)
    BY JobTypes
  <1>2. at.job = n + 1 /\ at.patch = 1
    <2>1. Within
      BY DEF Laid
    <2>2. PICK j \in Nat : j = at.job
      BY JobTypes
    <2>3. j <= n + 1 /\ j > n
      BY <1>1, <2>1, <2>2 DEF Within
    <2>4. ~(j <= n) /\ j = n + 1
      BY <2>3
    <2>5. at.patch <= 1 /\ at.patch \in Nat \ {0}
      BY <1>1, <2>1, <2>2, <2>4, JobTypes DEF Within
    <2>. QED
      BY <2>2, <2>4, <2>5
  <1>3. PICK st \in Seq(Nat) : /\ Spread(st, n + 1) /\ Len(views) = st[n + 1]
                               /\ offset = st[at.job]
    BY <1>1 DEF Laid
  <1>4. offset = Len(views)
    BY <1>2, <1>3
  <1>5. views \in Seq(Entry) /\ offset + 1 \in Nat \ {0} /\ offset + 1 > Len(views)
    BY <1>4, JobTypes
  <1>. QED
    BY <1>2, <1>5, FromOn DEF Rest

\* A step that leaves the commit alone.
LEMMA MintedFrame ==
    ASSUME Minted, UNCHANGED <<stored, last, views, records, entries>>,
           \/ pc' = pc /\ (pc # "assign" \/ UNCHANGED <<at, offset>>)
           \/ pc' \notin Committing
    PROVE  Minted'
  <1>1. CASE pc' = pc /\ (pc # "assign" \/ UNCHANGED <<at, offset>>)
    <2>1. Log' = Log
      BY <1>1 DEF Log
    <2>2. Rest' = Rest
      BY <1>1 DEF Rest
    <2>. QED
      BY <1>1, <2>1, <2>2 DEF Minted
  <1>2. CASE pc' \notin Committing
    BY <1>2 DEF Minted, Committing
  <1>. QED
    BY <1>1, <1>2

\* A step from one stage of the commit to the next.
LEMMA MintedStage ==
    ASSUME Minted, UNCHANGED <<last, records, entries>>, Log' = Log, Rest' = Rest,
           pc \in Committing,
           pc' \in {"fold", "write", "sync"} => entries = <<>>,
           pc' \in Publishing => views' = <<>>
    PROVE  Minted'
  <1>1. Climbs(Log, Len(Log) - Len(records), last, Rest, entries)
    BY DEF Minted
  <1>2. Climbs(Log, Len(Log) - Len(records), last, Rest, entries)'
    BY <1>1
  <1>. QED
    BY <1>2 DEF Minted, Publishing

\* A commit begins, or the actor goes back to its queue.
Restarted ==
    \/ pc' = "drain"
    \/ /\ pc' = "fold" /\ last' = watermark
       /\ views' = <<>> /\ records' = <<>> /\ entries' = <<>>
       /\ \A j \in DOMAIN acks' : acks'[j] = {}

\* Proceed and Isolate leave a commit that has folded nothing.
LEMMA Restarting ==
    /\ \A js : Begin(js) => Restarted
    /\ Proceed => Restarted
    /\ \A code : Isolate(code) => Restarted
  BY DEF Begin, Proceed, Isolate, Restarted

\* A commit that begins, or ends, has no views, records or entries to speak for.
LEMMA MintedRestart ==
    ASSUME TypeInv, watermark = Len(stored), stored' = stored, Restarted
    PROVE  Minted'
  <1>1. CASE pc' = "drain"
    BY <1>1 DEF Minted, Committing
  <1>2. CASE /\ pc' = "fold" /\ last' = watermark
             /\ views' = <<>> /\ records' = <<>> /\ entries' = <<>>
    <2>0. Rest' = <<>>
      BY <1>2 DEF Rest
    <2>1. stored \in Seq(Record) /\ Len(stored) \in Nat
      BY CommitFacts
    <2>2. stored' \o records' = stored
      BY <1>2, <2>1
    <2>3. Log' = stored
      BY <1>2, <2>2 DEF Log
    <2>4. Climbs(stored, Len(stored), Len(stored), <<>>, <<>>)
      BY <2>1, ClimbsEmpty
    <2>5. Len(stored) - Len(<<>>) = Len(stored)
      BY <2>1
    <2>6. Climbs(Log', Len(Log') - Len(records'), last', Rest', entries')
      BY <1>2, <2>0, <2>3, <2>4, <2>5
    <2>. QED
      BY <1>2, <2>6 DEF Minted, Committing
  <1>. QED
    BY <1>1, <1>2 DEF Restarted

\* FoldPatch adds a view, and a record if it minted a version.
LEMMA MintedFold == IInv /\ Minted /\ FoldPatch => Minted'
  <1>. SUFFICES ASSUME IInv, Minted, FoldPatch PROVE Minted'
    OBVIOUS
  <1>1. TypeInv /\ Agreement /\ TypeInv'
    <2>1. TypeInv'
      BY TypeNext DEF Next, Actor, Fold
    <2>. QED
      BY <2>1 DEF IInv, TypeInv
  <1>. DEFINE rec == [version |-> Version + 1, patch |-> Patch, req |-> Job,
                      state |-> Apply[Patch][Current]]
              v == [version |-> IF Mints(Patch, Current) THEN Version + 1 ELSE Version,
                    patch |-> Patch, req |-> Job]
  <1>2. /\ pc = "fold" /\ pc' = "fold" /\ stored' = stored /\ last' = last
        /\ entries' = entries /\ views' = Append(views, v)
        /\ records' = IF Mints(Patch, Current) THEN Append(records, rec) ELSE records
    BY DEF FoldPatch, InBatch, storeVars
  <1>3. Version = Len(Log) /\ Version \in Nat
    <2>1. Holds(mem, stored \o records, Len(stored) + Len(records))
      BY <1>1, <1>2 DEF Agreement
    <2>2. Len(Log) = Len(stored) + Len(records)
      BY <1>1, <1>2, CommitFacts
    <2>3. Len(Log) \in Nat
      BY <1>1, CommitFacts
    <2>. QED
      BY <2>1, <2>2, <2>3 DEF Holds, Version
  <1>4. /\ Log \in Seq(Record) /\ views \in Seq(Entry) /\ entries \in Seq(Entry)
        /\ last \in Nat /\ records \in Seq(Record) /\ stored \in Seq(Record)
    BY <1>1, CommitFacts
  <1>5. /\ Climbs(Log, Len(Log) - Len(records), last, views, entries) /\ entries = <<>>
        /\ Rest' = views'
    BY <1>2 DEF Minted, Committing, Rest
  <1>6. v \in Entry
    <2>1. views' \in Seq(Entry)
      BY <1>1 DEF TypeInv, TypeOK, CommitTypes
    <2>2. views'[Len(views) + 1] = v /\ Len(views') = Len(views) + 1 /\ Len(views) \in Nat
      BY <1>2, <1>4
    <2>3. Len(views) + 1 \in 1..Len(views')
      BY <2>2
    <2>. QED
      BY <2>1, <2>2, <2>3
  <1>7. CASE Mints(Patch, Current)
    <2>1. records' = Append(records, rec) /\ v.version = Len(Log) + 1
      BY <1>2, <1>3, <1>7
    <2>2. v.req = rec.req /\ v.patch = rec.patch
      OBVIOUS
    <2>3. rec \in Record
      <3>1. records' \in Seq(Record)
        BY <1>1 DEF TypeInv, TypeOK, CommitTypes
      <3>2. /\ records'[Len(records) + 1] = rec /\ Len(records') = Len(records) + 1
            /\ Len(records) \in Nat
        BY <1>4, <2>1
      <3>3. Len(records) + 1 \in 1..Len(records')
        BY <3>2
      <3>. QED
        BY <3>1, <3>2, <3>3
    <2>. HIDE DEF rec, v
    <2>4. Log' = Append(Log, rec)
      <3>1. stored \o Append(records, rec) = Append(stored \o records, rec)
        BY <1>4, <2>3
      <3>. QED
        BY <1>2, <2>1, <3>1 DEF Log
    <2>5. Len(Log') - Len(records') = Len(Log) - Len(records)
      BY <1>4, <2>1, <2>3, <2>4
    <2>6. Climbs(Append(Log, rec), Len(Log) - Len(records), last, Append(views, v), entries)
      BY <1>4, <1>5, <1>6, <2>1, <2>2, <2>3, ClimbsMint
    <2>7. Climbs(Log', Len(Log') - Len(records'), last', Rest', entries')
      BY <1>2, <1>5, <2>4, <2>5, <2>6
    <2>. QED
      BY <1>2, <1>5, <2>7 DEF Minted, Committing
  <1>8. CASE ~Mints(Patch, Current)
    <2>1. records' = records /\ v.version = Len(Log)
      BY <1>2, <1>3, <1>8
    <2>. HIDE DEF rec, v
    <2>2. Log' = Log
      BY <1>2, <2>1 DEF Log
    <2>3. Climbs(Log, Len(Log) - Len(records), last, Append(views, v), entries)
      BY <1>4, <1>5, <1>6, <2>1, ClimbsRepeat
    <2>4. Climbs(Log', Len(Log') - Len(records'), last', Rest', entries')
      BY <1>2, <1>5, <2>1, <2>2, <2>3
    <2>. QED
      BY <1>2, <1>5, <2>4 DEF Minted, Committing
  <1>. QED
    BY <1>7, <1>8

\* The view Assign is at is the first of those left; it tells its job of the
\* version above the last one seen, or of nothing.
Handed == views[offset + at.patch]

LEMMA AssignFacts ==
    ASSUME TypeInv, Laid, Minted, Assign
    PROVE  /\ Rest # <<>> /\ Head(Rest) = Handed /\ Rest' = Tail(Rest) /\ Handed \in Entry
           /\ Climbs(stored, Len(stored) - Len(records), last, Rest, entries)
           /\ at.job \in 1..Len(jobs) /\ Handed.req = Job /\ Job = jobs[at.job]
           /\ Handed.version > last =>
                 /\ acks' = [acks EXCEPT ![at.job] = @ \cup {Handed.version}]
                 /\ entries' = Append(entries, Handed) /\ last' = Handed.version
           /\ ~(Handed.version > last) => UNCHANGED <<acks, entries, last>>
  <1>1. pc = "assign" /\ pc' = "assign" /\ at.job <= Len(jobs) /\ Remaining
    BY DEF Assign
  <1>2. /\ at.job \in 1..Len(jobs) /\ Job \in Req /\ Patch \in Patches
        /\ offset + at.patch \in 1..Len(views) /\ Handed \in Entry
        /\ Handed.req = Job /\ Handed.patch = Patch
    BY <1>1, NextView DEF Handed
  <1>3. PICK k \in 1..Len(views) : k = offset + at.patch
    BY <1>2
  <1>4. views \in Seq(Entry) /\ k \in Nat \ {0} /\ k <= Len(views)
    BY JobTypes
  <1>5. Rest = SubSeq(views, k, Len(views))
    BY <1>1, <1>3 DEF Rest
  <1>6. Rest # <<>> /\ Head(Rest) = views[k] /\ Tail(Rest) = SubSeq(views, k + 1, Len(views))
    BY <1>4, <1>5, FromOn
  <1>7. Rest' = SubSeq(views, k + 1, Len(views))
    <2>1. UNCHANGED <<views, offset>> /\ at' = [at EXCEPT !.patch = @ + 1]
      BY DEF Assign
    <2>2. at'.patch = at.patch + 1
      BY <2>1, PlaceTypes DEF TypeInv, TypeOK, CommitTypes
    <2>3. offset' + at'.patch = k + 1
      BY <1>3, <2>1, <2>2, JobTypes
    <2>. QED
      BY <1>1, <2>1, <2>3 DEF Rest
  <1>8. [version |-> Handed.version, patch |-> Patch, req |-> Job] = Handed
    BY <1>2 DEF Entry
  <1>9. /\ Handed.version > last =>
              /\ acks' = [acks EXCEPT ![at.job] = @ \cup {Handed.version}]
              /\ entries' = Append(entries, [version |-> Handed.version, patch |-> Patch,
                                             req |-> Job])
              /\ last' = Handed.version
        /\ ~(Handed.version > last) => UNCHANGED <<acks, entries, last>>
    BY DEF Assign, Handed
  <1>10. Climbs(stored, Len(stored) - Len(records), last, Rest, entries)
    BY <1>1 DEF Minted, Committing, Log
  <1>11. Job = jobs[at.job]
    BY DEF Job
  <1>. QED
    BY <1>2, <1>3, <1>6, <1>7, <1>8, <1>9, <1>10, <1>11 DEF Handed

\* Assign passes one view.
LEMMA MintedAssign == IInv /\ Minted /\ Assign => Minted'
  <1>. SUFFICES ASSUME IInv, Minted, Assign PROVE Minted'
    OBVIOUS
  <1>1. TypeInv /\ Laid
    BY DEF IInv, TypeInv
  <1>2. /\ pc = "assign" /\ pc' = "assign" /\ stored' = stored /\ records' = records
    BY DEF Assign, storeVars
  <1>3. /\ stored \in Seq(Record) /\ Rest \in Seq(Entry) /\ entries \in Seq(Entry)
        /\ last \in Nat
    BY <1>1, CommitFacts
  <1>4. Climbs(stored, Len(stored) - Len(records), last', Rest', entries')
    <2>1. /\ Rest # <<>> /\ Head(Rest) = Handed /\ Rest' = Tail(Rest)
          /\ Climbs(stored, Len(stored) - Len(records), last, Rest, entries)
      BY <1>1, AssignFacts
    <2>2. /\ Handed.version > last =>
                Climbs(stored, Len(stored) - Len(records), Handed.version, Rest',
                       Append(entries, Handed))
          /\ ~(Handed.version > last) =>
                Climbs(stored, Len(stored) - Len(records), last, Rest', entries)
      BY <1>3, <2>1, ClimbsPass
    <2>3. CASE Handed.version > last
      BY <1>1, <2>2, <2>3, AssignFacts
    <2>4. CASE ~(Handed.version > last)
      <3>1. last' = last /\ entries' = entries
        BY <1>1, <2>4, AssignFacts
      <3>. QED
        BY <2>2, <2>4, <3>1
    <2>. QED
      BY <2>3, <2>4
  <1>5. Log' = stored
    BY <1>2 DEF Log
  <1>6. Climbs(Log', Len(Log') - Len(records'), last', Rest', entries')
    BY <1>2, <1>4, <1>5
  <1>. QED
    BY <1>2, <1>6 DEF Minted, Committing

\* Every action keeps the entries of a commit what it added to the log.
LEMMA MintedNext == IInv /\ Minted /\ [Next]_vars => Minted'
  <1>. SUFFICES ASSUME IInv, Minted, [Next]_vars PROVE Minted'
    OBVIOUS
  <1>1. TypeInv /\ Agreement /\ Laid
    BY DEF IInv, TypeInv
  <1>2. pc \notin {"down", "refused", "replay"} => watermark = Len(stored)
    BY <1>1 DEF Agreement
  <1>3. ASSUME NEW r \in Req, NEW c \in Commands, Submit(r, c)
        PROVE  Minted'
    BY <1>3, MintedFrame DEF Submit, commitVars, storeVars
  <1>4. CASE Receive \/ Gather \/ Gathered
    BY <1>4, MintedFrame
       DEF Receive, Gather, Gathered, Take, commitVars, storeVars, Committing
  <1>5. CASE DrainAppend \/ Drained \/ AnswerView
    BY <1>5, MintedFrame
       DEF DrainAppend, Drained, AnswerView, Reading, commitVars, storeVars, Committing
  <1>6. CASE Flush
    <2>1. Restarted /\ stored' = stored /\ pc = "drain"
      BY <1>6, Restarting DEF Flush, storeVars
    <2>. QED
      BY <1>1, <1>2, <2>1, MintedRestart
  <1>7. CASE AnswerCheckpoint
    BY <1>7, MintedFrame
       DEF AnswerCheckpoint, Checkpoint, CheckpointRefused, CheckpointLate, commitVars
  <1>8. CASE FoldPatch
    BY <1>8, MintedFold
  <1>9. CASE NextJob
    BY <1>9, MintedFrame DEF NextJob, InBatch, storeVars
  <1>10. CASE RejectPatch
    <2>1. Restarted /\ stored' = stored /\ pc = "fold"
      BY <1>10, Restarting DEF RejectPatch, InBatch, storeVars
    <2>. QED
      BY <1>1, <1>2, <2>1, MintedRestart
  <1>11. CASE Folded
    <2>1. /\ pc = "fold" /\ UNCHANGED <<stored, last, views, records, entries, offset>>
          /\ pc' = IF records = <<>> THEN "assign" ELSE "write"
          /\ at' = FirstPatch
      BY <1>11 DEF Folded, storeVars
    <2>2. Log' = Log
      <3>1. CASE records = <<>>
        <4>1. stored \o records = stored
          BY <1>1, <3>1, CommitFacts
        <4>. QED
          BY <2>1, <3>1, <4>1 DEF Log
      <3>2. CASE records # <<>>
        BY <2>1, <3>2 DEF Log
      <3>. QED
        BY <3>1, <3>2
    <2>3. entries = <<>> /\ pc' \notin Publishing /\ pc \in Committing
      BY <2>1 DEF Minted, Publishing, Committing
    <2>4. Rest' = Rest
      BY <1>1, <2>1, RestFirst
    <2>. QED
      BY <2>1, <2>2, <2>3, <2>4, MintedStage
  <1>12. CASE Write
    <2>1. /\ pc = "write" /\ stored' = stored \o records /\ pc' \in {"sync", "assign"}
          /\ UNCHANGED <<last, views, records, entries, offset, at>>
      BY <1>12 DEF Write, commitVars
    <2>2. Log' = Log
      BY <2>1 DEF Log
    <2>3. entries = <<>> /\ pc' \notin Publishing /\ pc \in Committing
      BY <2>1 DEF Minted, Publishing, Committing
    <2>4. Rest' = Rest
      BY <1>1, <2>1, RestFirst DEF Laid
    <2>. QED
      BY <2>1, <2>2, <2>3, <2>4, MintedStage
  <1>13. CASE WriteFails
    <2>1. Restarted /\ stored' = stored /\ pc = "write"
      BY <1>13, Restarting DEF WriteFails
    <2>. QED
      BY <1>1, <1>2, <2>1, MintedRestart
  <1>14. CASE Sync
    <2>1. /\ pc = "sync" /\ pc' = "assign" /\ stored' = stored
          /\ UNCHANGED <<last, views, records, entries, offset, at>>
      BY <1>14 DEF Sync, commitVars
    <2>2. Log' = Log /\ pc \in Committing /\ pc' \notin Publishing
      BY <2>1 DEF Log, Committing, Publishing
    <2>3. Rest' = Rest
      BY <1>1, <2>1, RestFirst DEF Laid
    <2>. QED
      BY <2>1, <2>2, <2>3, MintedStage
  <1>15. CASE SyncFails
    <2>1. Restarted /\ stored' = stored /\ pc = "sync"
      BY <1>15, Restarting DEF SyncFails, storeVars
    <2>. QED
      BY <1>1, <1>2, <2>1, MintedRestart
  <1>16. CASE Assign
    BY <1>16, MintedAssign
  <1>17. CASE Push
    <2>1. /\ pc = "assign" /\ pc' \in {"acknowledge", "announce"} /\ stored' = stored
          /\ views' = <<>> /\ UNCHANGED <<last, records, entries>> /\ at.job > Len(jobs)
      BY <1>17 DEF Push, storeVars
    <2>2. Log' = Log /\ pc \in Committing
      BY <2>1 DEF Log, Committing
    <2>3. Rest' = Rest
      BY <1>1, <2>1, RestDone DEF Rest
    <2>. QED
      BY <2>1, <2>2, <2>3, MintedStage
  <1>25. CASE NextShare
    <2>1. /\ pc = "assign" /\ pc' = "assign"
          /\ UNCHANGED <<stored, last, records, entries>>
      BY <1>25 DEF NextShare, storeVars
    <2>2. Log' = Log /\ pc \in Committing /\ pc' \notin Publishing
      BY <2>1 DEF Log, Committing, Publishing
    <2>3. Rest' = Rest
      BY <1>1, <1>25, RestShare
    <2>. QED
      BY <2>1, <2>2, <2>3, MintedStage
  <1>18. CASE Announce \/ AutoCheckpoint \/ PublishFloor
    <2>1. /\ pc \in {"announce", "checkpoint", "floor"}
          /\ pc' \in {"checkpoint", "floor", "acknowledge"} /\ stored' = stored
          /\ UNCHANGED <<last, views, records, entries>>
      BY <1>18 DEF Announce, AutoCheckpoint, PublishFloor, Checkpoint, CheckpointRefused,
                   CheckpointLate, commitVars, storeVars
    <2>2. Log' = Log /\ pc \in Committing /\ views = <<>> /\ Rest' = Rest
      BY <2>1 DEF Log, Committing, Minted, Rest
    <2>. QED
      BY <2>1, <2>2, MintedStage
  <1>19. CASE Acknowledge
    <2>1. pc = "acknowledge" /\ stored' = stored
      BY <1>19 DEF Acknowledge, storeVars
    <2>2. CASE Len(jobs) > 1
      BY <1>19, <2>1, <2>2, MintedFrame DEF Acknowledge
    <2>3. CASE ~(Len(jobs) > 1)
      <3>1. Restarted
        BY <1>19, <2>3, Restarting DEF Acknowledge
      <3>. QED
        BY <1>1, <1>2, <2>1, <3>1, MintedRestart
    <2>. QED
      BY <2>2, <2>3
  <1>20. ASSUME NEW kind \in CrashKinds, Crash(kind)
         PROVE  Minted'
    BY <1>20 DEF Crash, Minted, Committing
  <1>21. CASE Load \/ LoadFails \/ Replay
    BY <1>21 DEF Load, LoadFails, Replay, Minted, Committing
  <1>22. CASE Recovered
    BY <1>22 DEF Recovered, Minted, Committing
  <1>23. CASE Refuse
    BY <1>23, MintedFrame DEF Refuse, commitVars, storeVars
  <1>24. CASE Quiet \/ UNCHANGED vars
    BY <1>24, MintedFrame DEF Quiet, vars, commitVars, storeVars
  <1>. QED
    BY <1>3, <1>4, <1>5, <1>6, <1>7, <1>8, <1>9, <1>10, <1>11, <1>12, <1>13, <1>14,
       <1>15, <1>16, <1>17, <1>18, <1>19, <1>20, <1>21, <1>22, <1>23, <1>24, <1>25
       DEF Next, Actor, Drain, Fold, Store, Publish, Open

-----------------------------------------------------------------------------
(* A durable job is answered from stable storage. *)

Past == Committing \ {"fold", "write", "sync"}

\* The durability of a batch with a durable job is Durable.
LEMMA StrongestWins ==
    ASSUME TypeInv, NEW i \in DOMAIN jobs, cmd[jobs[i]].durability = Durable
    PROVE  BatchDurability = Durable
  <1>. DEFINE ranks == {cmd[jobs[k]].durability : k \in DOMAIN jobs}
  <1>1. \A k \in DOMAIN jobs : cmd[jobs[k]].durability \in 0..2
    <2>. SUFFICES ASSUME NEW k \in DOMAIN jobs PROVE cmd[jobs[k]].durability \in 0..2
      OBVIOUS
    <2>1. jobs[k] \in Req
      BY DEF TypeInv, TypeOK, CommitTypes
    <2>2. cmd[jobs[k]] \in Commands \/ cmd[jobs[k]] = NoCommand
      BY <2>1 DEF TypeInv, TypeOK, ClientTypes
    <2>. QED
      BY <2>2, CommandsAssumption DEF NoCommand
  <1>2. 2 \in ranks /\ \A e \in ranks : e \in 0..2
    BY <1>1 DEF Durable
  <1>3. BatchDurability = CHOOSE d \in ranks : \A e \in ranks : e <= d
    BY DEF BatchDurability
  <1>. HIDE DEF ranks
  <1>4. \E d \in ranks : \A e \in ranks : e <= d
    BY <1>2
  <1>5. BatchDurability \in ranks /\ \A e \in ranks : e <= BatchDurability
    BY <1>3, <1>4
  <1>. QED
    BY <1>2, <1>5 DEF Durable

\* A step inside a commit, past its sync, that keeps what is stored.
LEMMA HardenedStage ==
    ASSUME TypeInv, Hardened, pc \in Past, UNCHANGED <<stored, records>>,
           durable' \in {durable, Len(stored)}, jobs' = jobs \/ jobs' = Tail(jobs),
           \A r \in Sent : cmd'[r] = cmd[r]
    PROVE  Hardened'
  <1>. SUFFICES ASSUME records # <<>>, NEW i \in DOMAIN jobs',
                       cmd'[jobs'[i]].durability = Durable
                PROVE  durable' = Len(stored)
    BY DEF Hardened
  <1>1. jobs \in Seq(Ready) /\ jobs # <<>>
    BY DEF TypeInv, Bookkeeping, Past
  <1>2. PICK k \in DOMAIN jobs : jobs[k] = jobs'[i]
    <2>1. CASE jobs' = jobs
      BY <2>1
    <2>2. CASE jobs' = Tail(jobs)
      <3>1. i + 1 \in DOMAIN jobs /\ jobs'[i] = jobs[i + 1]
        BY <1>1, <2>2
      <3>. QED
        BY <3>1
    <2>. QED
      BY <2>1, <2>2
  <1>3. jobs[k] \in Sent
    BY <1>1 DEF Ready
  <1>4. cmd[jobs[k]].durability = Durable
    BY <1>2, <1>3
  <1>5. durable = Len(stored)
    BY <1>4 DEF Hardened, Past
  <1>. QED
    BY <1>5

\* Every action keeps the durable batches on stable storage.
LEMMA HardenedNext == IInv /\ Hardened /\ [Next]_vars => Hardened'
  <1>. SUFFICES ASSUME IInv, Hardened, [Next]_vars PROVE Hardened'
    OBVIOUS
  <1>1. TypeInv
    BY DEF IInv, TypeInv
  <1>2. \A r \in Sent : cmd'[r] = cmd[r]
    BY <1>1, CommandsKept
  <1>3. CASE pc' \notin Past
    BY <1>3 DEF Hardened, Past
  <1>4. CASE pc' \in Past /\ pc \in Past
    <2>1. CASE UNCHANGED <<stored, records, jobs>> /\ durable' \in {durable, Len(stored)}
      BY <1>1, <1>2, <1>4, <2>1, HardenedStage
    <2>2. ASSUME NEW r \in Req, NEW c \in Commands, Submit(r, c)
          PROVE  Hardened'
      BY <2>1, <2>2 DEF Submit, commitVars, storeVars
    <2>3. CASE Assign \/ NextShare \/ Push \/ Announce \/ PublishFloor
      BY <2>1, <2>3 DEF Assign, NextShare, Push, Announce, PublishFloor, commitVars, storeVars
    <2>4. CASE AutoCheckpoint
      BY <2>1, <2>4 DEF AutoCheckpoint, Checkpoint, CheckpointRefused, CheckpointLate,
                        commitVars
    <2>5. CASE Acknowledge
      <3>1. CASE Len(jobs) > 1
        <4>1. /\ jobs' = Tail(jobs) /\ UNCHANGED <<stored, records>>
              /\ durable' \in {durable, Len(stored)}
          BY <2>5, <3>1 DEF Acknowledge, storeVars
        <4>. QED
          BY <1>1, <1>2, <1>4, <4>1, HardenedStage
      <3>2. CASE ~(Len(jobs) > 1)
        <4>1. Restarted
          BY <2>5, <3>2, Restarting DEF Acknowledge
        <4>. QED
          BY <1>4, <4>1 DEF Restarted, Past, Committing
      <3>. QED
        BY <3>1, <3>2
    <2>6. CASE Quiet \/ UNCHANGED vars
      BY <2>1, <2>6 DEF Quiet, vars, commitVars, storeVars
    <2>7. CASE Receive \/ Gather \/ Gathered \/ Drain
      BY <1>4, <2>7 DEF Receive, Gather, Gathered, Drain, DrainAppend, Flush, Drained,
                        AnswerView, AnswerCheckpoint, Reading, Past, Committing
    <2>8. CASE Fold \/ Store
      BY <1>4, <2>8 DEF Fold, FoldPatch, NextJob, RejectPatch, Folded, InBatch, Store,
                        Write, WriteFails, Sync, SyncFails, Past, Committing
    <2>9. CASE Open \/ Load \/ LoadFails \/ \E kind \in CrashKinds : Crash(kind)
      BY <1>4, <2>9 DEF Open, Replay, Recovered, Refuse, Load, LoadFails, Crash, Past,
                        Committing
    <2>. QED
      BY <2>2, <2>3, <2>4, <2>5, <2>6, <2>7, <2>8, <2>9 DEF Next, Actor, Publish
  <1>5. CASE pc' \in Past /\ pc \notin Past
    <2>1. CASE Folded
      <3>1. records' = records /\ pc' = IF records = <<>> THEN "assign" ELSE "write"
        BY <2>1 DEF Folded
      <3>2. records' = <<>>
        BY <1>5, <3>1 DEF Past
      <3>. QED
        BY <3>2 DEF Hardened
    <2>2. CASE Write
      <3>1. /\ BatchDurability # Durable /\ jobs' = jobs /\ cmd' = cmd
        BY <1>5, <2>2 DEF Write, commitVars, clientVars, Past
      <3>2. \A i \in DOMAIN jobs : cmd[jobs[i]].durability # Durable
        BY <1>1, <3>1, StrongestWins
      <3>. QED
        BY <3>1, <3>2 DEF Hardened
    <2>3. CASE Sync
      BY <2>3 DEF Sync, Hardened
    <2>4. ASSUME NEW r \in Req, NEW c \in Commands, Submit(r, c)
          PROVE  FALSE
      BY <1>5, <2>4 DEF Submit
    <2>5. CASE Receive \/ Gather \/ Gathered \/ Drain
      BY <1>5, <2>5 DEF Receive, Gather, Gathered, Drain, DrainAppend, Flush, Drained,
                        AnswerView, AnswerCheckpoint, Reading, Past, Committing, Begin
    <2>6. CASE FoldPatch \/ NextJob
      BY <1>5, <2>6 DEF FoldPatch, NextJob
    <2>7. CASE RejectPatch \/ WriteFails \/ SyncFails
      <3>1. Restarted
        BY <2>7, Restarting DEF RejectPatch, WriteFails, SyncFails
      <3>. QED
        BY <1>5, <3>1 DEF Restarted, Past, Committing
    <2>8. CASE Publish
      <3>1. pc \in {"assign", "announce", "checkpoint", "floor", "acknowledge"}
        BY <2>8 DEF Publish, Assign, NextShare, Push, Announce, AutoCheckpoint, PublishFloor,
                    Acknowledge
      <3>. QED
        BY <1>5, <3>1 DEF Past, Committing
    <2>9. CASE Open \/ Load \/ LoadFails \/ \E kind \in CrashKinds : Crash(kind)
      BY <1>5, <2>9 DEF Open, Replay, Recovered, Refuse, Load, LoadFails, Crash, Past,
                        Committing
    <2>10. CASE Quiet \/ UNCHANGED vars
      BY <1>5, <2>10 DEF Quiet, vars
    <2>. QED
      BY <2>1, <2>2, <2>3, <2>4, <2>5, <2>6, <2>7, <2>8, <2>9, <2>10
         DEF Next, Actor, Fold, Store
  <1>. QED
    BY <1>3, <1>4, <1>5

-----------------------------------------------------------------------------
(* What a job is told of are its own records. *)

\* No job has been told of anything.
LEMMA AllottedBlank ==
    ASSUME \A j \in DOMAIN acks' : acks'[j] = {}
    PROVE  Allotted'
  BY DEF Allotted

\* A step that leaves the allotments alone, or ends the commit.
LEMMA AllottedFrame ==
    ASSUME Allotted,
           \/ /\ pc' = pc \/ (pc \in Committing /\ pc' \in Past)
              /\ UNCHANGED <<stored, records, jobs, acks>>
           \/ pc' \notin Committing
    PROVE  Allotted'
  <1>1. CASE /\ pc' = pc \/ (pc \in Committing /\ pc' \in Past)
             /\ UNCHANGED <<stored, records, jobs, acks>>
    BY <1>1 DEF Allotted, Past
  <1>2. CASE pc' \notin Committing
    BY <1>2 DEF Allotted
  <1>. QED
    BY <1>1, <1>2

\* The version Assign tells a job of is the next of the log, and its own.
LEMMA AllottedAssign ==
    ASSUME TypeInv, Laid, Minted, Allotted, Assign
    PROVE  Allotted'
  <1>1. /\ pc = "assign" /\ pc' = "assign" /\ UNCHANGED <<stored, records, jobs>>
    BY DEF Assign, storeVars
  <1>2. CASE ~(Handed.version > last)
    <2>1. acks' = acks
      BY <1>2, AssignFacts
    <2>. QED
      BY <1>1, <2>1, AllottedFrame
  <1>3. CASE Handed.version > last
    <2>1. PICK j \in 1..Len(jobs) : j = at.job
      BY AssignFacts
    <2>2. PICK v \in Nat : v = Handed.version
      BY AssignFacts DEF Entry
    <2>3. acks' = [acks EXCEPT ![j] = @ \cup {v}]
      BY <1>3, <2>1, <2>2, AssignFacts
    <2>4. acks \in Seq(SUBSET Nat) /\ Len(acks) = Len(jobs) /\ DOMAIN acks = 1..Len(acks)
      BY <1>1 DEF TypeInv, TypeOK, CommitTypes, Bookkeeping, Committing
    <2>5. /\ acks'[j] = acks[j] \cup {v} /\ DOMAIN acks' = 1..Len(acks)
          /\ \A k \in 1..Len(acks) : k # j => acks'[k] = acks[k]
      <3>1. j \in 1..Len(acks)
        BY <2>4
      <3>2. acks' \in Seq(SUBSET Nat) /\ Len(acks') = Len(acks)
        BY <2>3, <2>4, <3>1, AllotTypes
      <3>. QED
        BY <2>3, <2>4, <3>1, <3>2, AllotTypes
    <2>6. v \in 1..Len(stored) /\ v > Len(stored) - Len(records) /\ stored[v].req = jobs[j]
      <3>1. /\ Climbs(stored, Len(stored) - Len(records), last, Rest, entries)
            /\ Rest # <<>> /\ Head(Rest) = Handed /\ Handed.req = jobs[j]
        BY <2>1, AssignFacts
      <3>2. /\ Rest \in Seq(Entry) /\ entries \in Seq(Entry) /\ last \in Nat
            /\ Len(stored) \in Nat /\ Len(records) \in Nat /\ Len(entries) \in Nat
        BY CommitFacts
      <3>3. Rest[1] = Handed /\ 1 \in 1..Len(Rest)
        BY <3>1, <3>2, Ends
      <3>4. Handed.version = last \/ (Handed.version = last + 1 /\ Mirrors(stored, Handed))
        BY <3>1, <3>3 DEF Climbs, Prev
      <3>5. v = last + 1 /\ Mirrors(stored, Handed)
        BY <1>3, <2>2, <3>2, <3>4
      <3>6. last = (Len(stored) - Len(records)) + Len(entries)
        BY <3>1 DEF Climbs
      <3>7. v > Len(stored) - Len(records)
        BY <3>2, <3>5, <3>6
      <3>. QED
        BY <2>2, <3>1, <3>5, <3>7 DEF Mirrors
    <2>. QED
      BY <1>1, <2>4, <2>5, <2>6 DEF Allotted, Committing
  <1>. QED
    BY <1>2, <1>3

\* Every action tells each job of its own records only.
LEMMA AllottedNext == IInv /\ Minted /\ Allotted /\ [Next]_vars => Allotted'
  <1>. SUFFICES ASSUME IInv, Minted, Allotted, [Next]_vars PROVE Allotted'
    OBVIOUS
  <1>1. TypeInv /\ Laid
    BY DEF IInv, TypeInv
  <1>2. ASSUME Restarted
        PROVE  Allotted'
    BY <1>2, AllottedBlank DEF Restarted, Allotted, Committing
  <1>3. ASSUME NEW r \in Req, NEW c \in Commands, Submit(r, c)
        PROVE  Allotted'
    BY <1>3, AllottedFrame DEF Submit, commitVars, storeVars
  <1>4. CASE Receive \/ Gather \/ Gathered \/ DrainAppend \/ Drained \/ AnswerView
    BY <1>4, AllottedFrame
       DEF Receive, Gather, Gathered, Take, DrainAppend, Drained, AnswerView, Reading,
           Committing
  <1>5. CASE AnswerCheckpoint
    BY <1>5, AllottedFrame DEF AnswerCheckpoint, Reading, Committing
  <1>6. CASE Flush \/ RejectPatch \/ WriteFails \/ SyncFails
    BY <1>2, <1>6, Restarting DEF Flush, RejectPatch, WriteFails, SyncFails
  <1>7. CASE FoldPatch \/ NextJob \/ Folded \/ Write \/ Sync
    <2>1. acks' = acks /\ pc \in {"fold", "write", "sync"}
      BY <1>7 DEF FoldPatch, NextJob, InBatch, Folded, Write, Sync, commitVars
    <2>2. \A j \in DOMAIN acks : acks[j] = {}
      BY <2>1 DEF Allotted, Committing
    <2>. QED
      BY <2>1, <2>2, AllottedBlank
  <1>8. CASE Assign
    BY <1>1, <1>8, AllottedAssign
  <1>9. CASE NextShare \/ Push \/ Announce \/ AutoCheckpoint \/ PublishFloor
    <2>1. /\ pc \in Past /\ pc' \in Past /\ UNCHANGED <<stored, records, jobs, acks>>
      BY <1>9 DEF NextShare, Push, Announce, AutoCheckpoint, PublishFloor, Checkpoint,
         CheckpointRefused, CheckpointLate, commitVars, storeVars, Past, Committing
    <2>. QED
      BY <2>1, AllottedFrame DEF Past
  <1>10. CASE Acknowledge
    <2>1. CASE Len(jobs) > 1
      <3>1. /\ pc = "acknowledge" /\ pc' = pc /\ UNCHANGED <<stored, records>>
            /\ jobs' = Tail(jobs) /\ acks' = Tail(acks)
        BY <1>10, <2>1 DEF Acknowledge, storeVars
      <3>2. jobs \in Seq(Req) /\ acks \in Seq(SUBSET Nat) /\ Len(acks) = Len(jobs)
        BY <1>1, <3>1 DEF TypeInv, TypeOK, CommitTypes, Bookkeeping, Committing
      <3>3. ASSUME NEW j \in DOMAIN acks'
            PROVE  /\ j + 1 \in DOMAIN acks /\ acks'[j] = acks[j + 1]
                   /\ jobs'[j] = jobs[j + 1]
        BY <2>1, <3>1, <3>2
      <3>. QED
        BY <3>1, <3>3 DEF Allotted, Committing
    <2>2. CASE ~(Len(jobs) > 1)
      BY <1>2, <1>10, <2>2, Restarting DEF Acknowledge
    <2>. QED
      BY <2>1, <2>2
  <1>11. CASE Open \/ Load \/ LoadFails \/ \E kind \in CrashKinds : Crash(kind)
    BY <1>11, AllottedFrame
       DEF Open, Replay, Recovered, Refuse, Load, LoadFails, Crash, commitVars, storeVars,
           Committing
  <1>12. CASE Quiet \/ UNCHANGED vars
    BY <1>12, AllottedFrame DEF Quiet, vars, commitVars, storeVars
  <1>. QED
    BY <1>3, <1>4, <1>5, <1>6, <1>7, <1>8, <1>9, <1>10, <1>11, <1>12
       DEF Next, Actor, Drain, Fold, Store, Publish

-----------------------------------------------------------------------------
(* Acknowledgements. *)

\* What a step leaves of the log: all of it unless the power was cut, and what
\* is on stable storage in every case.
Surviving ==
    /\ durable <= durable'
    /\ cuts' = 0 => cuts = 0
    /\ \A v \in 1..Len(stored) :
          v <= durable \/ cuts' = 0 => v <= Len(stored') /\ stored'[v] = stored[v]

\* No step but a power cut takes a record out of the log, and none takes a durable one.
LEMMA LogSurvives == IInv /\ [Next]_vars => Surviving
  <1>. SUFFICES ASSUME IInv, [Next]_vars PROVE Surviving
    OBVIOUS
  <1>1. TypeInv /\ Backing
    BY DEF IInv, TypeInv
  <1>2. /\ stored \in Seq(Record) /\ records \in Seq(Record) /\ residue \in Seq(Record)
        /\ Len(stored) \in Nat /\ durable \in Nat /\ durable <= Len(stored)
        /\ cuts \in Nat
    BY <1>1, CommitFacts DEF TypeInv, TypeOK, StoreTypes, SharedTypes, Backing
  <1>3. CASE stored' = stored /\ durable' \in {durable, Len(stored)} /\ cuts' = cuts
    BY <1>2, <1>3 DEF Surviving
  <1>4. ASSUME NEW r \in Req, NEW c \in Commands, Submit(r, c)
        PROVE  Surviving
    BY <1>3, <1>4 DEF Submit, storeVars, faultVars
  <1>5. CASE Receive \/ Gather \/ Gathered
    BY <1>3, <1>5 DEF Receive, Gather, Gathered, Take, storeVars, faultVars
  <1>6. CASE Drain
    BY <1>3, <1>6 DEF Drain, DrainAppend, Flush, Drained, AnswerView, AnswerCheckpoint,
       Checkpoint, CheckpointRefused, CheckpointLate, storeVars, faultVars
  <1>7. CASE Fold
    BY <1>3, <1>7 DEF Fold, FoldPatch, NextJob, RejectPatch, Folded, storeVars, faultVars
  <1>8. CASE Write
    <2>1. stored' = stored \o records /\ durable' = durable /\ cuts' = cuts
      BY <1>8 DEF Write, faultVars
    <2>2. /\ Len(stored') >= Len(stored)
          /\ \A v \in 1..Len(stored) : stored'[v] = stored[v]
      BY <1>2, <2>1
    <2>3. Len(stored') \in Nat
      BY <1>2, <2>1
    <2>. QED
      BY <1>2, <2>1, <2>2, <2>3 DEF Surviving
  <1>9. CASE WriteFails \/ Sync \/ SyncFails
    BY <1>3, <1>9 DEF WriteFails, Sync, SyncFails, storeVars, faultVars
  <1>10. CASE Publish
    BY <1>3, <1>10 DEF Publish, Assign, NextShare, Push, Announce, AutoCheckpoint, PublishFloor,
       Acknowledge, Checkpoint, CheckpointRefused, CheckpointLate, storeVars, faultVars
  <1>11. ASSUME NEW kind \in CrashKinds, Crash(kind)
         PROVE  Surviving
    <2>. DEFINE written == stored \o InFlight
                least == IF kind = "power" THEN durable ELSE Len(stored)
    <2>1. InFlight \in Seq(Record)
      BY <1>2 DEF InFlight
    <2>2. /\ written \in Seq(Record) /\ Len(written) \in Nat
          /\ Len(written) >= Len(stored)
          /\ \A v \in 1..Len(stored) : written[v] = stored[v]
      BY <1>2, <2>1
    <2>3. least \in Nat /\ durable <= least
      BY <1>2
    <2>4. /\ durable' = durable
          /\ cuts' = IF kind = "power" THEN cuts + 1 ELSE cuts
          /\ \E n \in least..Len(written) : stored' = SubSeq(written, 1, n)
      BY <1>11 DEF Crash
    <2>. HIDE DEF written
    <2>5. PICK n \in least..Len(written) : stored' = SubSeq(written, 1, n)
      BY <2>4
    <2>6. n \in 0..Len(written)
      BY <2>2, <2>3
    <2>7. Len(stored') = n /\ \A v \in 1..n : stored'[v] = written[v]
      BY <2>2, <2>5, <2>6
    <2>8. ASSUME NEW v \in 1..Len(stored), v <= durable \/ cuts' = 0
          PROVE  v <= Len(stored') /\ stored'[v] = stored[v]
      <3>1. v <= n
        <4>1. CASE v <= durable
          BY <1>2, <2>3, <2>6, <4>1
        <4>2. CASE cuts' = 0
          <5>1. kind # "power"
            BY <1>2, <2>4, <4>2
          <5>. QED
            BY <1>2, <2>6, <5>1
        <4>. QED
          BY <2>8, <4>1, <4>2
      <3>. QED
        BY <2>2, <2>6, <2>7, <3>1
    <2>9. cuts' = 0 => cuts = 0
      BY <1>2, <2>4
    <2>. QED
      BY <1>2, <2>4, <2>8, <2>9 DEF Surviving
  <1>12. CASE Open \/ Load \/ LoadFails
    BY <1>3, <1>12 DEF Open, Replay, Recovered, Refuse, Load, LoadFails, storeVars,
                       faultVars
  <1>13. CASE Quiet \/ UNCHANGED vars
    BY <1>3, <1>13 DEF Quiet, vars, storeVars, faultVars
  <1>. QED
    BY <1>4, <1>5, <1>6, <1>7, <1>8, <1>9, <1>10, <1>11, <1>12, <1>13
       DEF Next, Actor, Store

\* Acknowledge is the only step that acknowledges, and it acknowledges one job.
NewAck(r) ==
    /\ pc = "acknowledge" /\ r = Head(jobs)
    /\ reply'[r] = Reply("ok", Head(acks), claim, Zero)
    /\ UNCHANGED <<cmd, stored, durable, cuts>>

\* A client has an acknowledgement because this step gives it, or has it already.
LEMMA AcksAreKept ==
    ASSUME TypeInv, [Next]_vars, NEW r \in Req, Acked(r)'
    PROVE  \/ NewAck(r)
           \/ Acked(r) /\ reply'[r] = reply[r] /\ cmd'[r] = cmd[r]
  <1>. DEFINE Goal == Acked(r) /\ reply'[r] = reply[r] /\ cmd'[r] = cmd[r]
  <1>1. reply \in [Req -> ReplyType] /\ cmd \in [Req -> Commands \cup {NoCommand}]
    BY DEF TypeInv, TypeOK, ClientTypes, ReplyType
  <1>2. ASSUME UNCHANGED <<cmd, reply>>
        PROVE  Goal
    BY <1>2 DEF Acked, IsAppend
  <1>3. ASSUME NEW q, NEW rep, rep.status # "ok" \/ cmd[q].kind # "append",
               reply' = [reply EXCEPT ![q] = rep], cmd' = cmd
        PROVE  Goal
    <2>1. CASE q = r
      <3>1. reply'[r] = rep
        BY <1>1, <1>3, <2>1
      <3>. QED
        BY <1>3, <2>1, <3>1 DEF Acked, IsAppend
    <2>2. CASE q # r
      BY <1>1, <1>3, <2>2 DEF Acked, IsAppend
    <2>. QED
      BY <2>1, <2>2
  <1>4. ASSUME NEW q, NEW code, code # "ok", reply' = [reply EXCEPT ![q] = Failure(code)],
               cmd' = cmd
        PROVE  Goal
    <2>1. Failure(code).status # "ok"
      BY <1>4 DEF Failure, Reply
    <2>. QED
      BY <1>3, <1>4, <2>1
  <1>5. ASSUME NEW code, code # "ok", Isolate(code), cmd' = cmd
        PROVE  Goal
    <2>1. UNCHANGED reply \/ reply' = [reply EXCEPT ![jobs[1]] = Failure(code)]
      BY <1>5, ClaimDropped
    <2>. QED
      BY <1>2, <1>4, <1>5, <2>1
  <1>6. ASSUME NEW q \in Req, NEW c \in Commands, Submit(q, c)
        PROVE  Goal
    <2>1. /\ reply' = [reply EXCEPT ![q] = Failure("queued")]
          /\ cmd' = [cmd EXCEPT ![q] = c]
      BY <1>6 DEF Submit
    <2>2. CASE q = r
      <3>1. reply'[r].status = "queued"
        BY <1>1, <2>1, <2>2 DEF Failure, Reply
      <3>. QED
        BY <3>1 DEF Acked
    <2>3. CASE q # r
      BY <1>1, <2>1, <2>3 DEF Acked, IsAppend
    <2>. QED
      BY <2>2, <2>3
  <1>7. CASE Receive \/ Gather \/ Gathered \/ Flush \/ Drained
    BY <1>2, <1>7 DEF Receive, Gather, Take, Gathered, Flush, Drained, clientVars
  <1>8. CASE DrainAppend
    BY <1>2, <1>4, <1>8 DEF DrainAppend
  <1>9. CASE AnswerView
    <2>1. /\ \E rep : reply' = [reply EXCEPT ![Head(queue)] = rep]
          /\ cmd[Head(queue)].kind \in {"view", "view_at"} /\ cmd' = cmd
      BY <1>9 DEF AnswerView, Reading
    <2>. QED
      BY <1>3, <2>1
  <1>10. CASE AnswerCheckpoint
    <2>1. /\ \E rep : reply' = [reply EXCEPT ![Head(queue)] = rep]
          /\ cmd[Head(queue)].kind = "checkpoint" /\ cmd' = cmd
      BY <1>10 DEF AnswerCheckpoint, Reading
    <2>. QED
      BY <1>3, <2>1
  <1>11. CASE FoldPatch \/ NextJob \/ Folded \/ Write \/ Sync
    BY <1>2, <1>11 DEF FoldPatch, NextJob, Folded, Write, Sync, clientVars
  <1>12. CASE RejectPatch \/ WriteFails \/ SyncFails
    BY <1>5, <1>12 DEF RejectPatch, WriteFails, SyncFails
  <1>13. CASE Assign \/ NextShare \/ Push \/ Announce \/ AutoCheckpoint \/ PublishFloor
    BY <1>2, <1>13 DEF Assign, NextShare, Push, Announce, AutoCheckpoint, PublishFloor, clientVars
  <1>14. CASE Acknowledge
    <2>. DEFINE rep == Reply("ok", Head(acks), claim, Zero)
    <2>1. /\ pc = "acknowledge" /\ reply' = [reply EXCEPT ![Head(jobs)] = rep]
          /\ UNCHANGED <<cmd, stored, durable, cuts>>
      BY <1>14 DEF Acknowledge, storeVars, faultVars
    <2>2. CASE r = Head(jobs)
      BY <1>1, <2>1, <2>2 DEF NewAck
    <2>3. CASE r # Head(jobs)
      BY <1>1, <2>1, <2>3 DEF Acked, IsAppend
    <2>. QED
      BY <2>2, <2>3
  <1>15. ASSUME NEW kind \in CrashKinds, Crash(kind)
         PROVE  Goal
    <2>1. /\ cmd' = cmd
          /\ reply'[r] = IF reply[r].status = "queued" THEN Failure("lost") ELSE reply[r]
      BY <1>15 DEF Crash
    <2>2. Failure("lost").status # "ok"
      BY DEF Failure, Reply
    <2>. QED
      BY <2>1, <2>2 DEF Acked, IsAppend
  <1>16. CASE Load \/ LoadFails \/ Replay \/ Recovered
    BY <1>2, <1>16 DEF Load, LoadFails, Replay, Recovered, clientVars
  <1>17. CASE Refuse
    BY <1>4, <1>17 DEF Refuse
  <1>18. CASE Quiet \/ UNCHANGED vars
    BY <1>2, <1>18 DEF Quiet, vars, clientVars
  <1>. QED
    BY <1>6, <1>7, <1>8, <1>9, <1>10, <1>11, <1>12, <1>13, <1>14, <1>15, <1>16, <1>17,
       <1>18 DEF Next, Actor, Drain, Fold, Store, Publish, Open

\* No step takes back what an acknowledgement promised.
LEMMA AcksNext == IInv /\ Allotted /\ Hardened /\ AcksSurvive /\ [Next]_vars => AcksSurvive'
  <1>. SUFFICES ASSUME IInv, Allotted, Hardened, AcksSurvive, [Next]_vars,
                       NEW r \in Req, Acked(r)',
                       cmd'[r].durability = Durable \/ cuts' = 0
                PROVE  /\ reply'[r].versions \subseteq Recorded(r)'
                       /\ cmd'[r].durability = Durable =>
                             reply'[r].versions \subseteq 1..durable'
    BY DEF AcksSurvive
  <1>1. TypeInv /\ Backing /\ Surviving
    BY LogSurvives DEF IInv, TypeInv
  <1>2. /\ Len(stored) \in Nat /\ durable \in Nat /\ durable <= Len(stored)
        /\ durable' \in Nat /\ durable <= durable' /\ Len(stored') \in Nat
    <2>1. TypeInv'
      BY TypeNext
    <2>2. durable' \in Nat /\ Len(stored') \in Nat
      BY <2>1 DEF TypeInv, TypeOK, StoreTypes
    <2>. QED
      BY <1>1, <2>2, CommitFacts DEF Backing, Surviving
  <1>3. CASE NewAck(r)
    <2>1. /\ pc = "acknowledge" /\ r = Head(jobs) /\ reply'[r].versions = Head(acks)
          /\ UNCHANGED <<cmd, stored, durable, cuts>>
      BY <1>3 DEF NewAck, Reply
    <2>2. /\ 1 \in DOMAIN jobs /\ jobs[1] = r
          /\ 1 \in DOMAIN acks /\ acks[1] = Head(acks)
      <3>1. /\ jobs \in Seq(Req) /\ jobs # <<>> /\ acks \in Seq(SUBSET Nat)
            /\ Len(acks) = Len(jobs)
        BY <1>1, <2>1 DEF TypeInv, TypeOK, CommitTypes, Bookkeeping, Committing
      <3>. QED
        BY <2>1, <3>1
    <2>. SUFFICES ASSUME NEW v \in acks[1]
                  PROVE  /\ v \in 1..Len(stored) /\ stored[v].req = r
                         /\ cmd[r].durability = Durable => v <= durable
      BY <1>2, <2>1, <2>2 DEF Recorded
    <2>3. v \in 1..Len(stored) /\ v > Len(stored) - Len(records) /\ stored[v].req = r
      BY <2>1, <2>2 DEF Allotted, Committing
    <2>4. ASSUME cmd[r].durability = Durable
          PROVE  durable = Len(stored)
      <3>1. records # <<>>
        <4>1. CASE records = <<>>
          BY <1>2, <2>3, <4>1
        <4>. QED
          BY <4>1
      <3>. QED
        BY <2>1, <2>2, <2>4, <3>1 DEF Hardened, Committing
    <2>. QED
      BY <1>2, <2>3, <2>4
  <1>4. CASE Acked(r) /\ reply'[r] = reply[r] /\ cmd'[r] = cmd[r]
    <2>1. cmd[r].durability = Durable \/ cuts = 0
      BY <1>1, <1>4 DEF Surviving
    <2>2. /\ reply[r].versions \subseteq Recorded(r)
          /\ cmd[r].durability = Durable => reply[r].versions \subseteq 1..durable
      BY <1>4, <2>1 DEF AcksSurvive
    <2>3. ASSUME NEW v \in reply[r].versions
          PROVE  v \in Recorded(r)'
      <3>1. v \in 1..Len(stored) /\ stored[v].req = r
        BY <2>2 DEF Recorded
      <3>2. v <= durable \/ cuts' = 0
        BY <1>2, <1>4, <2>2
      <3>3. v <= Len(stored') /\ stored'[v] = stored[v]
        BY <1>1, <3>1, <3>2 DEF Surviving
      <3>. QED
        BY <1>2, <3>1, <3>3 DEF Recorded
    <2>4. cmd[r].durability = Durable => reply[r].versions \subseteq 1..durable'
      BY <1>2, <2>2
    <2>. QED
      BY <1>4, <2>3, <2>4
  <1>. QED
    BY <1>1, <1>3, <1>4, AcksAreKept

-----------------------------------------------------------------------------
(* The theorems. *)

\* AckInv holds initially.
LEMMA AckInvInit == Init => AckInv
  <1>. SUFFICES ASSUME Init PROVE AckInv
    OBVIOUS
  <1>1. IInv
    BY InvInit
  <1>2. Minted /\ Allotted /\ Hardened
    BY DEF Init, Minted, Allotted, Hardened, Committing
  <1>3. AcksSurvive
    BY DEF Init, AcksSurvive, Acked, Failure, Reply
  <1>. QED
    BY <1>1, <1>2, <1>3 DEF AckInv

\* AckInv is preserved by every step.
LEMMA AckInvNext == AckInv /\ [Next]_vars => AckInv'
  <1>1. IInv /\ [Next]_vars => IInv'
    BY TypeNext, AgreementNext, BackingNext, LaidNext, ReopensNext DEF IInv, TypeInv
  <1>. QED
    BY <1>1, MintedNext, AllottedNext, HardenedNext, AcksNext DEF AckInv

\* AckInv is inductive, so it holds throughout, whatever fails.
THEOREM AckInvariance == Spec => []AckInv
  BY AckInvInit, AckInvNext, PTL DEF Spec

\* Durability, as log.rs promises it: no batching, isolation, storage failure,
\* checkpoint or crash takes an acknowledged version out of the log or gives it
\* to another request, and a power cut only takes what was not acknowledged
\* Durable.
THEOREM AcksHold == Spec => []AcksSurvive
  <1>1. AckInv => AcksSurvive
    BY DEF AckInv
  <1>. QED
    BY <1>1, AckInvariance, PTL

=============================================================================
