---------------------------- MODULE LogActor_inv ----------------------------
(***************************************************************************)
(* The inductive invariant of LogActor: why its safety properties hold.    *)
(***************************************************************************)
EXTENDS LogActor

\* Where a commit is under way.
Committing == {"fold", "write", "sync", "assign", "announce", "checkpoint", "floor",
               "acknowledge"}

\* The requests that were sent, whose commands no longer change, and those of
\* them whose patches all decode.
Sent == {r \in Req : reply[r].status # "unsent"}
Ready == {r \in Sent : cmd[r].patches \in Seq(Patches)}

\* Whatever waits for the actor was sent, whatever is to be folded was decoded,
\* a commit has jobs, with an allotment each, and a write a record.
Bookkeeping ==
    /\ inbox \in Seq(Sent) /\ queue \in Seq(Sent)
    /\ batch \in Seq(Ready) /\ jobs \in Seq(Ready) /\ solo \in Seq(Ready)
    /\ pc \in Committing => jobs # <<>> /\ Len(acks) = Len(jobs)
    /\ pc = "write" => records # <<>>

\* The state after the first v records of s, and the claim that each record of
\* s is what folding its patch into the state before it gives.
After(s, v) == IF v = 0 THEN Zero ELSE s[v].state
Chain(s) ==
    \A v \in 1..Len(s) :
        /\ s[v].version = v
        /\ Apply[s[v].patch][After(s, v - 1)] = s[v].state
        /\ Mints(s[v].patch, After(s, v - 1))

\* The structure m holds the states of s from its base up to version n.
Holds(m, s, n) ==
    /\ m.base <= n /\ m.base + Len(m.states) - 1 = n
    /\ \A v \in m.base..n : m.states[v - m.base + 1] = After(s, v)

\* Where memory stands at the end of the log.
AtEnd == {"idle", "gather", "drain"} \cup (Committing \ {"fold", "write"})

\* The log is a chain, and stays one if a crash adopts what is in flight above
\* its end; memory is at its end, ahead of it by exactly the records folded,
\* or behind it while they are replayed.
Agreement ==
    /\ Chain(stored \o residue)
    /\ pc \in {"fold", "write"} =>
          /\ Chain(stored \o records)
          /\ Holds(mem, stored \o records, Len(stored) + Len(records))
          /\ mem.base <= Len(stored)
          /\ last = Len(stored)
    /\ pc \in AtEnd =>
          Holds(mem, stored, Len(stored))
    /\ pc \notin {"down", "refused", "replay"} => watermark = Len(stored)
    /\ pc = "replay" => Version <= Len(stored) /\ Holds(mem, stored, Version)

\* The checkpoint stands on stable storage; what the log claims to be synced
\* stands there too, or was found when the log was opened.
Backing ==
    /\ header.version <= durable /\ durable <= Len(stored)
    /\ header.state = After(stored, header.version)
    /\ floor <= header.version + 1
    /\ Backed(synced) /\ Backed(claim)
    /\ pc \notin Committing => claim = 0

\* The views lie job by job: those of job j begin above st[j], one for each of
\* its patches, as far as the first n jobs have been reached.
JobPatches(j) == cmd[jobs[j]].patches
Spread(st, n) ==
    /\ st \in [1..n -> Nat] /\ st[1] = 0
    /\ \A j \in 1..n :
          /\ st[j] <= Len(views)
          /\ j < n => st[j + 1] = st[j] + Len(JobPatches(j))
          /\ j <= Len(jobs) =>
                \A i \in 1..Len(JobPatches(j)) : st[j] + i <= Len(views) =>
                    /\ views[st[j] + i].req = jobs[j]
                    /\ views[st[j] + i].patch = JobPatches(j)[i]

\* The patch `at' names, or the end of its job's.
Within ==
    /\ at.job <= Len(jobs) + 1
    /\ at.patch <= (IF at.job <= Len(jobs) THEN Len(JobPatches(at.job)) ELSE 0) + 1

\* A fold has reached the job it is at, and lays the next view.  Past it the
\* views are complete, and the running offset of Assign is where those of its
\* job begin.
Laid ==
    /\ pc = "fold" =>
          /\ Within /\ offset = 0
          /\ \E st \in Seq(Nat) :
                Spread(st, at.job) /\ Len(views) = st[at.job] + at.patch - 1
    /\ pc \in {"write", "sync", "assign"} =>
          /\ Within
          /\ \E st \in Seq(Nat) :
                /\ Spread(st, Len(jobs) + 1) /\ Len(views) = st[Len(jobs) + 1]
                /\ offset = st[at.job]
    /\ pc \in {"write", "sync"} => at = FirstPatch

IInv == TypeOK /\ Bookkeeping /\ Agreement /\ Backing /\ Laid /\ Reopens

-----------------------------------------------------------------------------
(* What an acknowledgement stands on. *)

\* The log a commit works on: the records it folded count before they are
\* written.
Log == IF pc \in {"fold", "write"} THEN stored \o records ELSE stored

\* The entry e is what the log holds under its version.
Mirrors(log, e) ==
    /\ e.version \in 1..Len(log)
    /\ log[e.version].req = e.req /\ log[e.version].patch = e.patch

\* The version seen ahead of the i-th of the views vs still to be assigned.
Prev(n, vs, i) == IF i = 1 THEN n ELSE vs[i - 1].version

\* The views climb from version n to the end of the log, one version at a time:
\* each repeats the version before it or is the record above it.  The entries
\* es are the records from start up to n.
Climbs(log, start, n, vs, es) ==
    /\ start \in Nat /\ n = start + Len(es) /\ n <= Len(log)
    /\ \A i \in 1..Len(es) : es[i].version = start + i /\ Mirrors(log, es[i])
    /\ \A i \in 1..Len(vs) :
          \/ vs[i].version = Prev(n, vs, i)
          \/ vs[i].version = Prev(n, vs, i) + 1 /\ Mirrors(log, vs[i])
    /\ Prev(n, vs, Len(vs) + 1) = Len(log)

\* The views not yet handed to their jobs.
Rest == IF pc = "assign" THEN SubSeq(views, offset + at.patch, Len(views)) ELSE views

\* The entries of a commit are what it added to the log, and its views name
\* nothing else.
Minted ==
    /\ pc \in Committing =>
          Climbs(Log, Len(Log) - Len(records), last, Rest, entries)
    /\ pc \in {"fold", "write", "sync"} => entries = <<>>
    /\ pc \in Committing \ {"fold", "write", "sync", "assign"} => views = <<>>

\* Past the sync, a batch that wrote records for a durable job has them all on
\* stable storage.
Hardened ==
    pc \in Committing \ {"fold", "write", "sync"} /\ records # <<>> =>
        \A i \in DOMAIN jobs :
            cmd[jobs[i]].durability = Durable => durable = Len(stored)

\* What a job is told of are records of this commit, and its own.
Allotted ==
    pc \in Committing =>
        /\ pc \in {"fold", "write", "sync"} => \A j \in DOMAIN acks : acks[j] = {}
        /\ \A j \in DOMAIN acks : \A v \in acks[j] :
              /\ v \in 1..Len(stored) /\ v > Len(stored) - Len(records)
              /\ stored[v].req = jobs[j]

AckInv == IInv /\ Minted /\ Allotted /\ Hardened /\ AcksSurvive

-----------------------------------------------------------------------------
(* The order of the line, and whose each record is. *)

\* Everything that waits for an answer, in the order it will get one.
Line == jobs \o (solo \o (batch \o (queue \o inbox)))

\* Commands wait where the actor is.
Placed ==
    /\ pc \notin Committing => jobs = <<>> /\ solo = <<>>
    /\ pc \in Committing => batch = <<>>
    /\ pc \in {"idle", "gather", "down", "replay", "refused"} => batch = <<>>
    /\ pc \in {"idle", "down", "replay", "refused"} => queue = <<>>
    /\ solo # <<>> => Len(jobs) = 1

\* The line is in the order of sending, and holds exactly the unanswered.
InOrder ==
    /\ \A i, j \in 1..Len(Line) : i < j => Line[i] \in ahead[Line[j]]
    /\ \A r \in Req :
          reply[r].status = "queued" <=> \E i \in 1..Len(Line) : Line[i] = r
    /\ \A q, r \in Req : q \in ahead[r] => q \in Sent /\ r \notin ahead[q]

\* A commit mints records for its own jobs, and each of them is an append.
OwnRecords ==
    /\ \A i \in DOMAIN jobs : IsAppend(jobs[i])
    /\ \A i \in DOMAIN batch : IsAppend(batch[i])
    /\ \A i \in DOMAIN solo : IsAppend(solo[i])
    /\ pc \in {"fold", "write"} =>
          \A k \in DOMAIN records : \E i \in DOMAIN jobs : jobs[i] = records[k].req

\* Each record of the log was acknowledged under its version, or lost with the
\* process, or is one the commit under way has written and not yet answered.
Accounted ==
    /\ residue = <<>>
    /\ \A v \in 1..Len(stored) :
          LET r == stored[v].req
          IN  \/ reply[r].status = "lost"
              \/ reply[r].status = "ok" /\ v \in reply[r].versions
              \/ /\ pc \in Committing \ {"fold", "write"}
                 /\ \E i \in DOMAIN jobs :
                       /\ jobs[i] = r
                       /\ v \in acks[i] \/ (pc \in {"sync", "assign"} /\ v > last)

\* A reply that is not an answer names no version.
Blank == \A r \in Req : reply[r].status # "ok" => reply[r].versions = {}

\* Reads need no account of the records, and so hold whatever fails.
ReadInv ==
    /\ AckInv /\ Placed /\ InOrder /\ OwnRecords /\ Blank
    /\ ReadsSeeAppendsAhead /\ ViewsAreRecorded

AnswerInv == ReadInv /\ Accounted

-----------------------------------------------------------------------------
(* The ring. *)

\* The ring rg holds the records of the log up to version end, whichever of them
\* it still has room for.
Spans(rg, log, end) ==
    \A i \in 1..Len(rg) :
        /\ rg[i].version = end - Len(rg) + i
        /\ rg[i].version \in 1..Len(log)
        /\ rg[i].patch = log[rg[i].version].patch

\* The watermark subscribers wait on is the end of the log, less what the commit
\* under way has written and not yet announced; the ring ends there, or at the
\* end of the log while the announcement is due.
Unannounced == IF pc \in {"sync", "assign", "announce"} THEN Len(records) ELSE 0
RingEnd == IF pc = "announce" THEN Len(stored) ELSE published
FannedOut ==
    /\ Serving => published = Len(stored) - Unannounced
    /\ ~Serving => ring = <<>>
    /\ Spans(ring, stored, RingEnd)

RingInv == AckInv /\ FannedOut /\ AckIsPublished
=============================================================================
