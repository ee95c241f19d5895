---------------------------- MODULE SegmentStore ----------------------------
(***************************************************************************)
(* The write-ahead log of lug-wal, one step per system call: segment files *)
(* named for their first version, one header file, and the in-memory       *)
(* picture of them that SegmentStore keeps.  LogActor takes storage as the *)
(* contract of lug-core/storage.rs states it; this module shows what the   *)
(* files really promise, through failing calls, killed processes and power *)
(* cuts at any step.                                                       *)
(*                                                                         *)
(* Every record takes one slot of a file, and a file is as many slots as   *)
(* it is long.  What is written sits in the page cache until a flush; a    *)
(* power cut keeps or drops each slot that is not on stable storage, or    *)
(* leaves it torn.  Operations on the directory (a new file, an unlink,    *)
(* the rename of the header) reach stable storage in order, at the latest  *)
(* when the directory is flushed.  A flush that succeeds covers everything *)
(* written before it, also after one that failed.                          *)
(*                                                                         *)
(* `log', `flushed' and `promise' are what the caller knows: no action     *)
(* reads them but to name the next version and the view to checkpoint.     *)
(***************************************************************************)
EXTENDS Integers, Sequences, FiniteSets

CONSTANTS
    RotateAt,       \* slots at which a segment is full, Options.rotate_bytes
    MaxBatch,       \* most records of one append
    MaxVersion,     \* bound on the versions
    MaxAppends,     \* bound on the calls of append
    Faults,         \* the calls that may fail, each at most once
    MaxFaults,      \* bound on the calls that do
    CrashKinds,     \* how the program may stop
    MaxCrashes      \* bound on how often

AllFaults == {"open", "seal", "create", "prologue", "persist", "grow", "write", "cleanup",
              "header", "link", "unlink"}

ASSUME StoreAssumption ==
    /\ RotateAt \in Nat \ {0} /\ MaxBatch \in Nat \ {0}
    /\ MaxVersion \in Nat /\ MaxAppends \in Nat /\ MaxFaults \in Nat /\ MaxCrashes \in Nat
    /\ Faults \subseteq AllFaults /\ CrashKinds \subseteq {"process", "power"}

VARIABLES
    files,          \* what each segment file reads as
    safe,           \* what of it is on stable storage
    dirs,           \* the directory, as last flushed and after each change since
    segments,       \* SegmentStore.segments, by their first versions
    end, last,      \* per segment: its logical end, and the highest version in it
    active,         \* whether there is a write handle on the last segment
    header_version,
    poison,
    pc,
    batch,          \* the records being appended, or left behind by a poisoned append
    done,           \* how many of them are written
    scanned,        \* segments recovery is through with
    expect,         \* the version it expects next, 0 for any
    tail,           \* the records it has collected
    trimmed,        \* history: this recovery cut and flushed the last segment
    log,            \* the caller: what it has appended, in order of versions
    flushed,        \* the caller: what it was told survives power loss
    promise,        \* what a crash may leave of the log
    appends, failed, crashes,
    adopted         \* history: recovery built on what a power cut may undo

diskVars  == <<files, safe, dirs>>
storeVars == <<segments, end, last, active, header_version, poison>>
scanVars  == <<scanned, expect, tail, trimmed>>
callVars  == <<batch, done, appends>>
knownVars == <<log, flushed, promise, adopted>>
vars == <<diskVars, storeVars, scanVars, callVars, knownVars, pc, failed, crashes>>

Names == 1..MaxVersion
Cell(version, data) == [version |-> version, data |-> data]
Blank == Cell(0, 0)
Torn == Cell(0, 1)
IsRecord(c) == c.version > 0

\* A file just created: no prologue, no length.
Fresh == [magic |-> FALSE, cells |-> <<>>]

Directory == dirs[Len(dirs)]
Change(d) == dirs' = Append(dirs, d)
SyncDir == dirs' = <<Directory>>

Largest(S) == CHOOSE n \in S : \A m \in S : m <= n
Smallest(S) == CHOOSE n \in S : \A m \in S : n <= m
Active == Largest(segments)

\* SegmentStore::next_version
NextVersion == (IF segments = {} THEN header_version ELSE last[Active]) + 1

Flush(n) == safe' = [safe EXCEPT ![n] = files[n]]

Datas(cells) == [i \in DOMAIN cells |-> cells[i].data]

Fault(f) ==
    /\ f \in Faults \ failed /\ Cardinality(failed) < MaxFaults
    /\ failed' = failed \cup {f}

Init ==
    /\ files = [n \in Names |-> Fresh] /\ safe = files
    /\ dirs = <<[names |-> {}, version |-> 0, view |-> <<>>]>>
    /\ segments = {} /\ active = FALSE /\ header_version = 0 /\ poison = FALSE
    /\ end = [n \in Names |-> 0] /\ last = end
    /\ pc = "closed"
    /\ batch = <<>> /\ done = 0 /\ appends = 0
    /\ scanned = {} /\ expect = 0 /\ tail = <<>> /\ trimmed = FALSE
    /\ log = <<>> /\ flushed = 0 /\ promise = [least |-> 0, all |-> <<>>] /\ adopted = FALSE
    /\ failed = {} /\ crashes = 0

-----------------------------------------------------------------------------
(* Storage::append *)

\* An append that the store accepts; Log names the versions, so they continue.
BeginAppend(n) ==
    /\ pc = "ready"
    /\ ~poison
    /\ appends < MaxAppends /\ NextVersion + n - 1 <= MaxVersion
    /\ appends' = appends + 1
    /\ batch' = [i \in 1..n |-> Cell(NextVersion + i - 1, appends + 1)]
    /\ done' = 0
    /\ LET full == segments = {} \/ end[Active] >= RotateAt
       IN  pc' = IF ~full /\ active THEN "grow"
                 ELSE IF active THEN "seal" ELSE "create"
    /\ UNCHANGED <<diskVars, storeVars, scanVars, knownVars, failed, crashes>>

\* The call returned an error and took nothing on.
AppendFails == pc' = "ready" /\ batch' = <<>> /\ done' = 0

\* What a segment's file is when it is cut at its logical end.
CutAt(n) == [files EXCEPT ![n].cells = SubSeq(@, 1, end[n])]

\* Seeded bug: the old segment is cut at its end and not flushed.
SealUnflushed ==
    /\ pc = "seal"
    /\ active' = FALSE
    /\ files' = CutAt(Active)
    /\ pc' = "create"
    /\ UNCHANGED <<safe, dirs, segments, end, last, header_version, poison, scanVars, callVars,
                   knownVars, failed, crashes>>

\* rotate: the old segment is cut at its end.  Its handle is gone whether or
\* not that works, or the flush that follows.
Seal ==
    /\ pc = "seal"
    /\ active' = FALSE
    /\ \/ files' = CutAt(Active) /\ pc' = "sealed" /\ UNCHANGED <<batch, done, failed>>
       \/ Fault("seal") /\ files' = files /\ AppendFails
    /\ UNCHANGED <<safe, dirs, segments, end, last, header_version, poison, scanVars, appends,
                   knownVars, crashes>>

\* The cut, and every record below it, goes to stable storage.
FlushSealed ==
    /\ pc = "sealed"
    /\ \/ Flush(Active) /\ pc' = "create" /\ UNCHANGED <<batch, done, failed>>
       \/ Fault("seal") /\ safe' = safe /\ AppendFails
    /\ UNCHANGED <<files, dirs, storeVars, scanVars, appends, knownVars, crashes>>

First == batch[1].version
Sized(cells, n) == cells \o [i \in 1..(n - Len(cells)) |-> Blank]

\* open_rw and preallocate; a file an earlier attempt left is taken as it is.
CreateSegment ==
    /\ pc = "create"
    /\ Change([Directory EXCEPT !.names = @ \cup {First}])
    /\ \/ /\ files' = [files EXCEPT ![First].cells = Sized(@, RotateAt)]
          /\ pc' = "prologue" /\ UNCHANGED <<batch, done, failed>>
       \/ Fault("create") /\ files' = files /\ AppendFails
    /\ UNCHANGED <<safe, storeVars, scanVars, appends, knownVars, crashes>>

WritePrologue ==
    /\ pc = "prologue"
    /\ \/ /\ files' = [files EXCEPT ![First].magic = TRUE]
          /\ pc' = "persist" /\ UNCHANGED <<batch, done, failed>>
       \/ Fault("prologue") /\ files' = files /\ AppendFails
    /\ UNCHANGED <<safe, dirs, storeVars, scanVars, appends, knownVars, crashes>>

PersistSegment ==
    /\ pc = "persist"
    /\ \/ Flush(First) /\ pc' = "link" /\ UNCHANGED <<batch, done, failed>>
       \/ Fault("persist") /\ safe' = safe /\ AppendFails
    /\ UNCHANGED <<files, dirs, storeVars, scanVars, appends, knownVars, crashes>>

\* The directory is flushed and the segment is the one being written.
LinkSegment ==
    /\ pc = "link"
    /\ \/ /\ SyncDir
          /\ segments' = segments \cup {First} /\ active' = TRUE
          /\ end' = [end EXCEPT ![First] = 0]
          /\ last' = [last EXCEPT ![First] = First - 1]
          /\ pc' = "grow" /\ UNCHANGED <<batch, done, failed>>
       \/ Fault("link") /\ AppendFails /\ UNCHANGED <<dirs, segments, end, last, active>>
    /\ UNCHANGED <<files, safe, header_version, poison, scanVars, appends, knownVars, crashes>>

\* The next multiple of RotateAt at or above n.
Rounded(n) == ((n + RotateAt - 1) \div RotateAt) * RotateAt

\* A batch that does not fit makes the file longer first.
Grow ==
    /\ pc = "grow"
    /\ LET need == end[Active] + Len(batch)
           fits == need <= Len(files[Active].cells)
       IN  \/ /\ files' = IF fits THEN files
                          ELSE [files EXCEPT ![Active].cells = Sized(@, Rounded(need))]
              /\ pc' = "write" /\ UNCHANGED <<batch, done, failed>>
           \/ ~fits /\ Fault("grow") /\ files' = files /\ AppendFails
    /\ UNCHANGED <<safe, dirs, storeVars, scanVars, appends, knownVars, crashes>>

Put(n, slot, cell) == files' = [files EXCEPT ![n].cells[slot] = cell]

\* pwritev_all, a record at a time.
WriteRecord ==
    /\ pc = "write"
    /\ done < Len(batch)
    /\ Put(Active, end[Active] + done + 1, batch[done + 1])
    /\ done' = done + 1
    /\ UNCHANGED <<safe, dirs, storeVars, scanVars, batch, appends, knownVars, pc, failed,
                   crashes>>

Written ==
    /\ pc = "write"
    /\ done = Len(batch)
    /\ end' = [end EXCEPT ![Active] = @ + Len(batch)]
    /\ last' = [last EXCEPT ![Active] = batch[Len(batch)].version]
    /\ log' = log \o Datas(batch)
    /\ pc' = "ready" /\ batch' = <<>> /\ done' = 0
    /\ UNCHANGED <<diskVars, segments, active, header_version, poison, scanVars, appends,
                   flushed, promise, adopted, failed, crashes>>

\* The write fails, perhaps in the middle of a record.
WriteFails ==
    /\ pc = "write"
    /\ done < Len(batch)
    /\ Fault("write")
    /\ files' = files \/ Put(Active, end[Active] + done + 1, Torn)
    /\ pc' = "erase"
    /\ UNCHANGED <<safe, dirs, storeVars, scanVars, callVars, knownVars, crashes>>

\* zero_range has come over the first n slots the append would have written.
Zeroed(n) == [files EXCEPT ![Active].cells =
                 [i \in DOMAIN @ |-> IF i \in (end[Active] + 1)..(end[Active] + n)
                                       THEN Blank ELSE @[i]]]

\* By now the kernel may have written back what is being erased.
WrittenBack == safe' = safe \/ Flush(Active)

Erase ==
    /\ pc = "erase"
    /\ files' = Zeroed(Len(batch))
    /\ WrittenBack
    /\ pc' = "erased"
    /\ UNCHANGED <<dirs, storeVars, scanVars, callVars, knownVars, failed, crashes>>

FlushErased ==
    /\ pc = "erased"
    /\ Flush(Active)
    /\ AppendFails
    /\ UNCHANGED <<files, dirs, storeVars, scanVars, appends, knownVars, failed, crashes>>

\* The zeroes or their flush fail: no append is accepted until the log is loaded
\* again.
EraseFails ==
    /\ \/ pc = "erase" /\ WrittenBack /\ \E n \in 0..(Len(batch) - 1) : files' = Zeroed(n)
       \/ pc = "erased" /\ safe' = safe /\ files' = files
    /\ Fault("cleanup")
    /\ poison' = TRUE
    /\ pc' = "ready"
    /\ UNCHANGED <<dirs, segments, end, last, active, header_version, scanVars, callVars,
                   knownVars, crashes>>

-----------------------------------------------------------------------------
(* Storage::sync and Storage::write_header *)

\* fdatasync of the active segment; without one there is nothing to flush.
SyncActive == IF active THEN Flush(Active) ELSE safe' = safe

Sync ==
    /\ pc = "ready"
    /\ SyncActive
    /\ flushed' = Len(log)
    /\ UNCHANGED <<files, dirs, storeVars, scanVars, callVars, log, promise, adopted, pc, failed,
                   crashes>>

\* Seeded bug: the header is written without the flush ahead of it.
BeginHeaderUnflushed ==
    /\ pc = "ready"
    /\ pc' = "header"
    /\ UNCHANGED <<diskVars, storeVars, scanVars, callVars, knownVars, failed, crashes>>

BeginHeader ==
    /\ pc = "ready"
    /\ SyncActive
    /\ flushed' = Len(log)
    /\ pc' = "header"
    /\ UNCHANGED <<files, dirs, storeVars, scanVars, callVars, log, promise, adopted, failed,
                   crashes>>

\* The temporary file is complete and on stable storage before the rename.
PublishHeader ==
    /\ pc = "header"
    /\ \/ /\ Change([Directory EXCEPT !.version = Len(log), !.view = log])
          /\ pc' = "publish" /\ failed' = failed
       \/ Fault("header") /\ dirs' = dirs /\ pc' = "ready"
    /\ UNCHANGED <<files, safe, storeVars, scanVars, callVars, knownVars, crashes>>

LinkHeader ==
    /\ pc = "publish"
    /\ \/ SyncDir /\ header_version' = Len(log) /\ pc' = "reclaim" /\ failed' = failed
       \/ Fault("link") /\ pc' = "ready" /\ UNCHANGED <<dirs, header_version>>
    /\ UNCHANGED <<files, safe, segments, end, last, active, poison, scanVars, callVars,
                   knownVars, crashes>>

\* The oldest segment ends at or below the header, and is not the last one.
Covered ==
    /\ Cardinality(segments) > 1
    /\ Smallest(segments \ {Smallest(segments)}) <= header_version + 1

\* The segment is forgotten first and unlinked then.
RemoveSegment ==
    /\ pc \in {"reclaim", "reclaimed"}
    /\ Covered
    /\ LET n == Smallest(segments)
       IN  /\ segments' = segments \ {n}
           /\ \/ /\ Change([Directory EXCEPT !.names = @ \ {n}])
                 /\ pc' = "reclaimed" /\ failed' = failed
              \/ Fault("unlink") /\ dirs' = dirs /\ pc' = "ready"
    /\ UNCHANGED <<files, safe, end, last, active, header_version, poison, scanVars, callVars,
                   knownVars, crashes>>

\* The directory is flushed once, if anything went.
Reclaimed ==
    /\ pc \in {"reclaim", "reclaimed"}
    /\ ~Covered
    /\ pc' = "ready"
    /\ \/ (IF pc = "reclaimed" THEN SyncDir ELSE dirs' = dirs) /\ failed' = failed
       \/ pc = "reclaimed" /\ Fault("link") /\ dirs' = dirs
    /\ UNCHANGED <<files, safe, storeVars, scanVars, callVars, knownVars, crashes>>

-----------------------------------------------------------------------------
(* Crashes *)

Busy == pc \notin {"closed", "cut", "scan", "trim", "refused"}

\* Storage::append: a contiguous prefix of a batch under way may survive.  A
\* power cut leaves at least what was flushed, a killed process all there was.
Leaves(kind) ==
    IF Busy
      THEN [least |-> IF kind = "power" THEN flushed ELSE Len(log),
            all |-> log \o Datas(batch)]
      ELSE [promise EXCEPT !.least = IF kind = "power" /\ flushed < @ THEN flushed ELSE @]

\* What was only in memory.
Forgotten ==
    /\ segments' = {} /\ active' = FALSE /\ header_version' = 0 /\ poison' = FALSE
    /\ end' = [n \in Names |-> 0] /\ last' = end'
    /\ scanned' = {} /\ expect' = 0 /\ tail' = <<>> /\ trimmed' = FALSE
    /\ batch' = <<>> /\ done' = 0 /\ log' = <<>>
    /\ UNCHANGED <<appends, flushed, adopted, failed>>

Crash(kind) ==
    /\ kind \in CrashKinds
    /\ crashes < MaxCrashes /\ crashes' = crashes + 1
    /\ promise' = Leaves(kind)
    /\ Forgotten

\* The process dies; the page cache and the directory stay.
Killed ==
    /\ pc \notin {"closed", "cut", "refused"}
    /\ Crash("process")
    /\ pc' = "closed"
    /\ UNCHANGED diskVars

\* The power goes: the directory is one it was since its last flush.
PowerCut ==
    /\ pc # "cut"
    /\ Crash("power")
    /\ pc' = "cut"
    /\ \E i \in DOMAIN dirs :
          /\ dirs' = <<dirs[i]>>
          /\ files' = [n \in Names |-> IF n \in dirs[i].names THEN files[n] ELSE Fresh]
          /\ safe' = [n \in Names |-> IF n \in dirs[i].names THEN safe[n] ELSE Fresh]

Dirty == {n \in Names : files[n] # safe[n]}
Slot(file, i) == IF i <= Len(file.cells) THEN file.cells[i] ELSE Blank

\* What slot i of file n may hold after a power cut.
Survives(n, i) ==
    LET now == Slot(files[n], i)
        before == Slot(safe[n], i)
    IN  {now, before} \cup (IF now = before THEN {} ELSE {Torn})

\* What a file with unflushed slots turns out to hold.
Settle(n) ==
    /\ pc = "cut"
    /\ Dirty # {} /\ n = Smallest(Dirty)
    /\ \E magic \in {files[n].magic, safe[n].magic},
          length \in {Len(files[n].cells), Len(safe[n].cells)} :
         \E cells \in [1..length -> UNION {Survives(n, i) : i \in 1..length}] :
            /\ \A i \in 1..length : cells[i] \in Survives(n, i)
            /\ files' = [files EXCEPT ![n] = [magic |-> magic, cells |-> cells]]
            /\ safe' = [safe EXCEPT ![n] = files'[n]]
    /\ UNCHANGED <<dirs, storeVars, scanVars, callVars, knownVars, pc, failed, crashes>>

Settled ==
    /\ pc = "cut" /\ Dirty = {}
    /\ pc' = "closed"
    /\ UNCHANGED <<diskVars, storeVars, scanVars, callVars, knownVars, failed, crashes>>

-----------------------------------------------------------------------------
(* open_with, and Storage::load *)

\* list_segments and read_header.
ListSegments ==
    /\ pc = "closed"
    /\ segments' = Directory.names
    /\ header_version' = Directory.version
    /\ last' = [n \in Names |-> IF n \in segments' THEN n - 1 ELSE 0]
    /\ adopted' = (adopted \/ ~(segments' \subseteq dirs[1].names))
    /\ pc' = "scan"
    /\ UNCHANGED <<diskVars, end, active, poison, scanVars, callVars, log, flushed, promise,
                   failed, crashes>>

\* segment::scan: the records up to the first slot that is not one.
Intact(file) ==
    LET stops == {i \in DOMAIN file.cells : ~IsRecord(file.cells[i])}
    IN  IF stops = {} THEN Len(file.cells) ELSE Smallest(stops) - 1
Records(file) == SubSeq(file.cells, 1, Intact(file))
EndsTorn(file) == Slot(file, Intact(file) + 1) = Torn

\* Whether recovery takes the next segment: a prologue, the versions in
\* sequence, and no damage before the last segment.
Sound(n) ==
    LET read == Records(files[n])
        start == IF expect = 0 THEN n ELSE expect
    IN  /\ files[n].magic
        /\ \A i \in DOMAIN read : read[i].version = start + i - 1
        /\ EndsTorn(files[n]) => n = Active

\* Seeded bug: only a torn tail is cut off.
TrimTorn(file) ==
    IF EndsTorn(file) THEN [file EXCEPT !.cells = Records(file)] ELSE file

\* Whatever is above the end of a segment is cut off.
Trim(file) == [file EXCEPT !.cells = Records(file)]

NextScan == Smallest(segments \ scanned)

\* recover: the next segment is sound.
Accepted == pc = "scan" /\ segments # scanned /\ Sound(NextScan)

\* Its records count, and those above the header are the tail.
TakeSegment(n) ==
    LET read == Records(files[n])
        next == IF read = <<>> THEN expect ELSE read[Len(read)].version + 1
    IN  /\ end' = [end EXCEPT ![n] = Len(read)]
        /\ last' = [last EXCEPT ![n] = IF next = 0 THEN n - 1 ELSE next - 1]
        /\ expect' = next
        /\ tail' = tail \o SelectSeq(read, LAMBDA c : c.version > header_version)
        /\ scanned' = scanned \cup {n}

\* Stable storage holds something where the file has come to an end.
Leftover(n) ==
    \E i \in DOMAIN safe[n].cells : i > Len(files[n].cells) /\ safe[n].cells[i] # Blank

\* A file that ends where its records do is taken as it is, flushed or not.
ScanSegment ==
    /\ Accepted
    /\ Trim(files[NextScan]) = files[NextScan]
    /\ TakeSegment(NextScan)
    /\ adopted' = (adopted \/ Leftover(NextScan))
    /\ UNCHANGED <<diskVars, segments, active, header_version, poison, callVars, log, flushed,
                   promise, pc, trimmed, failed, crashes>>

\* truncate, first half: set_len.
CutTail ==
    /\ Accepted
    /\ Trim(files[NextScan]) # files[NextScan]
    /\ files' = [files EXCEPT ![NextScan] = Trim(@)]
    /\ pc' = "trim"
    /\ UNCHANGED <<safe, dirs, storeVars, scanVars, callVars, knownVars, failed, crashes>>

\* truncate, second half: fsync.
FlushTail ==
    /\ pc = "trim"
    /\ Flush(NextScan)
    /\ TakeSegment(NextScan)
    /\ trimmed' = (NextScan = Active)
    /\ pc' = "scan"
    /\ UNCHANGED <<files, dirs, segments, active, header_version, poison, callVars, knownVars,
                   failed, crashes>>

\* The header is not ahead of the records, nor the records of the header.
Whole ==
    /\ segments # {} => last[Active] >= header_version
    /\ tail # <<>> => tail[1].version = header_version + 1

\* The last segment is preallocated and opened for writing.
Loaded ==
    /\ pc = "scan"
    /\ segments = scanned
    /\ Whole
    /\ files' = IF segments = {} THEN files
                ELSE [files EXCEPT ![Active].cells = Sized(@, RotateAt)]
    /\ active' = (segments # {})
    /\ log' = Directory.view \o Datas(tail)
    /\ scanned' = {} /\ expect' = 0 /\ tail' = <<>> /\ trimmed' = FALSE
    /\ pc' = "ready"
    /\ UNCHANGED <<safe, dirs, segments, end, last, header_version, poison, callVars, flushed,
                   promise, adopted, failed, crashes>>

\* A log that does not add up, or a call that fails, is an error to the caller.
LoadFails ==
    /\ \/ pc \in {"scan", "trim"} /\ Fault("open")
       \/ /\ pc = "scan"
          /\ IF segments # scanned THEN ~Sound(NextScan) ELSE ~Whole
          /\ failed' = failed
    /\ pc' = "refused"
    /\ UNCHANGED <<diskVars, storeVars, scanVars, callVars, knownVars, crashes>>

\* The daemon is started again.
Reopen ==
    /\ pc = "refused"
    /\ pc' = "closed"
    /\ Forgotten
    /\ UNCHANGED <<diskVars, promise, crashes>>

-----------------------------------------------------------------------------
Rotation == Seal \/ FlushSealed \/ CreateSegment \/ WritePrologue \/ PersistSegment \/ LinkSegment
Writing == Grow \/ WriteRecord \/ Written \/ WriteFails
Erasing == Erase \/ FlushErased \/ EraseFails
Heading == BeginHeader \/ PublishHeader \/ LinkHeader \/ RemoveSegment \/ Reclaimed
Loading == ListSegments \/ ScanSegment \/ CutTail \/ FlushTail \/ Loaded \/ LoadFails \/ Reopen

Next ==
    \/ \E n \in 1..MaxBatch : BeginAppend(n)
    \/ Rotation
    \/ Writing
    \/ Erasing
    \/ Sync
    \/ Heading
    \/ Killed
    \/ PowerCut
    \/ \E n \in Names : Settle(n)
    \/ Settled
    \/ Loading

Spec == Init /\ [][Next]_vars

-----------------------------------------------------------------------------
(* Properties. *)

File == [magic : BOOLEAN, cells : Seq([version : Nat, data : Nat])]
Points == {"closed", "cut", "scan", "trim", "refused", "ready", "seal", "sealed", "create",
           "prologue", "persist", "link", "grow", "write", "erase", "erased", "header",
           "publish", "reclaim", "reclaimed"}

\* Every variable holds what the code's types let it hold, and the segment behind
\* the write handle is there and as long as its records (rotate and reclaim
\* `expect' it).
TypeOK ==
    /\ files \in [Names -> File] /\ safe \in [Names -> File]
    /\ \A i \in DOMAIN dirs : dirs[i].names \subseteq Names /\ dirs[i].version \in Nat
    /\ segments \subseteq Names /\ scanned \subseteq segments
    /\ pc \in Points /\ done \in 0..Len(batch) /\ flushed \in Nat
    /\ active => segments # {} /\ end[Active] <= Len(files[Active].cells)
    /\ poison => batch # <<>>

\* The records the caller knows of, or knew of before the crash.
Known == IF Busy THEN log ELSE promise.all

\* Wherever a power cut leaves the directory, the record is under its header or
\* in a segment, on stable storage.
Stable(v, data) ==
    \A i \in DOMAIN dirs :
        \/ v <= dirs[i].version /\ dirs[i].view[v] = data
        \/ \E n \in dirs[i].names :
              /\ safe[n].magic
              /\ \E j \in 1..Intact(safe[n]) : safe[n].cells[j] = Cell(v, data)

\* Storage::sync "returns once the bytes survive power loss": what a flush, or the
\* flush inside a checkpoint, reported is on stable storage from then on, however
\* segments are rotated and reclaimed afterwards.
FlushedIsStable == \A v \in 1..flushed : Stable(v, Known[v])

\* None of the ways past the flushes has happened: a rotation that failed to seal
\* its segment, a recovery that adopted a segment whose directory entry was never
\* flushed, or one that found a segment cut at its records by a recovery that was
\* stopped before it had flushed the cut.
Covering == "seal" \notin failed /\ ~adopted

\* The same, short of those.
CoveredIsStable == Covering => FlushedIsStable

\* The contract of Storage::append (storage.rs 41-64) across a crash: what load
\* returns is a prefix of what was appended and what was under way, holds every
\* record a killed process had appended, or all that was flushed before a power
\* cut, and nothing of an append that failed and was erased.  And what of it
\* survives the next power cut: every record below the last segment, and all of
\* them where this recovery cut that segment and flushed the cut.  It does not
\* flush a file that already ends at its records, full to its last slot or cut
\* by a process that was killed before its flush: Log::open takes those records
\* to be synced (log.rs 95), and they are not.
RecoversAsPromised ==
    [][pc = "scan" /\ pc' = "ready" /\ Covering =>
          /\ Len(log') \in promise.least..Len(promise.all)
          /\ log' = SubSeq(promise.all, 1, Len(log'))
          /\ \A v \in 1..Len(log') :
                trimmed \/ segments = {} \/ v < Active => Stable(v, log'[v])]_vars

\* Recovery always finds a log it can read, torn tails and all (SPEC.md 84).
\* Not so: a process killed inside a rotation is enough. See the README.
AlwaysOpens == pc # "refused"

\* The only crash that keeps a log from opening is one that leaves a segment
\* without its prologue; short of that, a call has failed.
OpensUnlessUnfinished ==
    pc = "refused" =>
        \/ failed \cap {"open", "seal", "unlink"} # {}
        \/ \E n \in Directory.names : ~files[n].magic

\* Storage::read_after: it scans the files from the segment that would hold the
\* version, wherever the logical end is.
ReadAfter(after) ==
    LET below == {n \in segments : n <= after + 1}
        from == IF below = {} THEN segments ELSE {n \in segments : n >= Largest(below)}
        found == UNION {{files[n].cells[j] : j \in 1..Intact(files[n])} : n \in from}
    IN  {c \in found : c.version > after}

\* Storage::oldest
Oldest == IF segments = {} THEN header_version + 1 ELSE Smallest(segments)

\* A subscriber that catches up reads exactly the records that were appended:
\* none of a failed append, none twice, none missing above the floor.
ReadsWhatWasAppended ==
    pc = "ready" /\ ~poison /\ Covering =>
        \A after \in (Oldest - 1)..Len(log) :
            ReadAfter(after) = {Cell(v, log[v]) : v \in (after + 1)..Len(log)}

\* The store keeps what it was given: reads return it, and stable storage holds
\* what was flushed of it.
KeepsWhatWasAppended == TypeOK /\ CoveredIsStable /\ ReadsWhatWasAppended
=============================================================================
