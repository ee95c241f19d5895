------------------------------- MODULE Daemon -------------------------------
(* The life of the lug daemon: binding and publishing its socket, finding    *)
(* the logs on disk and reopening them, creating logs, opening each on its    *)
(* core under the lock of its directory, accepting connections, and the clean *)
(* shutdown (lug-server/src/lib.rs, main.rs, unix.rs, registry.rs,             *)
(* storage.rs, cores.rs, acl.rs; the lock is lug-wal/src/lib.rs).              *)
(*                                                                            *)
(* A member of Daemons is one process. Nothing in the code stops a new        *)
(* process from starting while an old one still runs: unix.rs:21-23 counts    *)
(* on it. What a log does with its records is the subject of LogActor and      *)
(* SegmentStore; here a log is the number of its records.                      *)
EXTENDS Naturals, FiniteSets, TLC

CONSTANTS
    Daemons,        \* the processes, each started at most once
    Clients,
    Logs,           \* the names of the directories under the data root
    BadNames,       \* those check_name refuses
    Wishes,         \* the <<log, shape>> pairs clients ask for
    Owner,          \* clients with the owner's uid
    Allow,          \* clients with a uid of allow_uid
    AclOf,          \* per log, the clients its own list names
    Connections,    \* limits.connections
    MaxRecords,     \* bound: records per log
    MaxAsks,        \* bound: requests the clients make
    Mishaps,        \* which of "failure", "full", "kill" and "cut" may happen
    MaxMishaps,     \* bound: how many of them
    Nobody          \* no process, no client, nothing

Shapes == {"plain", "reducible"}

ASSUME DaemonAssumption ==
    /\ IsFiniteSet(Daemons) /\ IsFiniteSet(Logs) /\ IsFiniteSet(Clients)
    /\ BadNames \subseteq Logs /\ Wishes \subseteq Logs \X Shapes
    /\ Nobody \notin Daemons \cup Clients
    /\ Connections \in Nat \ {0}
    /\ MaxRecords \in Nat /\ MaxAsks \in Nat /\ MaxMishaps \in Nat

VARIABLES
    path,       \* the process the published socket path leads to
    phase,      \* how far each process is in its life
    found,      \* what discover listed and start has yet to reopen
    making,     \* the create that holds the registry's mutex
    reg,        \* the registry of each process
    todo,       \* the logs shutdown has yet to checkpoint
    holder,     \* who holds the lock of each directory
    disk,       \* what is under the data root
    client,     \* the connection and the request of each client
    asks,       \* how many requests the clients have made
    mishaps,    \* how many system calls failed, processes died, power cuts came
    told,       \* history: the shapes each log was acknowledged with
    acks,       \* history: <<log, version, process>> of every acknowledgement
    owed,       \* history: what each process must not forget
    overlapped, \* history: two processes were alive at once
    blurred     \* history: the logs whose kind a power cut took

registry == <<found, making, reg, todo, holder, owed>>
history == <<told, acks, overlapped, blurred>>
vars == <<path, phase, registry, disk, client, asks, mishaps, history>>

-----------------------------------------------------------------------------
(* Values *)

Absent == [at |-> "absent", shape |-> "plain", version |-> 0]
NoDir == [dir |-> FALSE, kind |-> "none", records |-> 0, header |-> 0, headed |-> "none"]
Free == [at |-> Nobody, st |-> "away", req |-> "none", log |-> Nobody, version |-> 0]
NothingOwed == [logs |-> {}, upto |-> [l \in Logs |-> 0]]
NotMaking == [log |-> Nobody, shape |-> "plain", for |-> Nobody, step |-> "none"]

Alive(p) == phase[p] \in {"bound", "starting", "serving", "stopping", "unlinked"}
Registered(p) == {l \in Logs : reg[p][l].at # "absent"}
MutexFree(p) == making[p] = NotMaking
Connected(p) == {c \in Clients : client[c].at = p /\ client[c].st = "open"}
AckedVersions(l) == {a[2] : a \in {b \in acks : b[1] = l}}
LastAcked(l) == IF AckedVersions(l) = {} THEN 0
                ELSE CHOOSE v \in AckedVersions(l) : \A w \in AckedVersions(l) : w <= v

(* Acl::accepts and Acl::allows, with a client for its uid. *)
Accepts(c) == c \in Owner \cup Allow
Allows(c, l) == c \in Owner \/ (c \in Allow /\ c \in AclOf[l])

(* check_name, which a create and the reopening of a directory both meet. *)
CheckName(l) == l \notin BadNames

(* Segments::discover: a missing, empty or unreadable kind reads as plain. *)
ShapeOnDisk(l) == IF disk[l].kind = "reducible" THEN "reducible" ELSE "plain"

Mishap(kind) == kind \in Mishaps /\ mishaps < MaxMishaps /\ mishaps' = mishaps + 1

Ask == asks < MaxAsks /\ asks' = asks + 1

(* What a process leaves behind when it ends, however it ends: its locks are *)
(* released, its connections and the requests on them are gone.              *)
Vanish(gone) ==
    /\ holder' = [l \in Logs |-> IF holder[l] \in gone THEN Nobody ELSE holder[l]]
    /\ client' = [c \in Clients |-> IF client[c].at \in gone THEN Free ELSE client[c]]
    /\ making' = [p \in Daemons |-> IF p \in gone THEN NotMaking ELSE making[p]]
    /\ reg' = [p \in Daemons |-> IF p \in gone THEN [l \in Logs |-> Absent] ELSE reg[p]]
    /\ found' = [p \in Daemons |-> IF p \in gone THEN {} ELSE found[p]]
    /\ todo' = [p \in Daemons |-> IF p \in gone THEN {} ELSE todo[p]]
    /\ owed' = [p \in Daemons |-> IF p \in gone THEN NothingOwed ELSE owed[p]]

Init ==
    /\ path = Nobody
    /\ phase = [p \in Daemons |-> "off"]
    /\ found = [p \in Daemons |-> {}]
    /\ making = [p \in Daemons |-> NotMaking]
    /\ reg = [p \in Daemons |-> [l \in Logs |-> Absent]]
    /\ todo = [p \in Daemons |-> {}]
    /\ holder = [l \in Logs |-> Nobody]
    /\ \E stray \in SUBSET BadNames :
          disk = [l \in Logs |-> [NoDir EXCEPT !.dir = l \in stray]]
    /\ client = [c \in Clients |-> Free]
    /\ asks = 0 /\ mishaps = 0
    /\ told = [l \in Logs |-> {}]
    /\ acks = {}
    /\ owed = [p \in Daemons |-> NothingOwed]
    /\ overlapped = FALSE
    /\ blurred = {}

-----------------------------------------------------------------------------
(* Server::start *)

(* unix::bind: the socket is renamed over the published path before anything *)
(* else is looked at, whoever the path led to.                               *)
Bind(p) ==
    /\ phase[p] = "off"
    /\ phase' = [phase EXCEPT ![p] = "bound"]
    /\ path' = p
    /\ overlapped' = (overlapped \/ \E q \in Daemons : Alive(q))
    /\ UNCHANGED <<registry, disk, client, mishaps, told, acks, blurred, asks>>

(* Segments::discover lists every directory with the shape its kind names. *)
Discover(p) ==
    /\ phase[p] = "bound"
    /\ phase' = [phase EXCEPT ![p] = "starting"]
    /\ found' = [found EXCEPT ![p] = {<<l, ShapeOnDisk(l)>> : l \in {k \in Logs : disk[k].dir}}]
    /\ owed' = [owed EXCEPT ![p].logs = {l \in Logs : told[l] # {} /\ disk[l].dir}]
    /\ UNCHANGED <<path, making, reg, todo, holder, disk, client, mishaps, history, asks>>

(* start returns an error and the process ends. The listener goes with it, *)
(* the path it published stays.                                            *)
FailStart(p) ==
    /\ phase' = [phase EXCEPT ![p] = "dead"]
    /\ Vanish({p})

(* The loop over the discovered logs, in the one order discover sorted them: *)
(* each goes through create.                                                *)
Reopen(p) ==
    /\ phase[p] = "starting" /\ MutexFree(p)
    /\ found[p] # {}
    /\ LET f == CHOOSE g \in found[p] : TRUE IN
          \/ /\ ~CheckName(f[1])
             /\ FailStart(p)
          \/ /\ CheckName(f[1])
             /\ found' = [found EXCEPT ![p] = @ \ {f}]
             /\ making' = [making EXCEPT ![p] =
                   [log |-> f[1], shape |-> f[2], for |-> Nobody, step |-> "dir"]]
             /\ UNCHANGED <<phase, reg, todo, holder, owed, client>>
    /\ UNCHANGED <<path, disk, mishaps, history, asks>>

(* The accept task is spawned; main waits for a signal. *)
Serving(p) == found[p] = {} /\ MutexFree(p)
Serve(p) ==
    /\ phase[p] = "starting" /\ Serving(p)
    /\ phase' = [phase EXCEPT ![p] = "serving"]
    /\ UNCHANGED <<path, registry, disk, client, mishaps, history, asks>>

(* The data directory, the listing, the token or the HTTP port fails start. *)
StartFails(p) ==
    /\ phase[p] \in {"bound", "starting"} /\ MutexFree(p)
    /\ Mishap("failure")
    /\ FailStart(p)
    /\ UNCHANGED <<path, disk, history, asks>>

-----------------------------------------------------------------------------
(* Registry::create, under the registry's mutex *)

(* The session answers and the client may ask again. *)
Answered(c) == client' = [client EXCEPT ![c].req = "none", ![c].log = Nobody, ![c].version = 0]

(* A client asks for a log. One that is known is answered at once, with *)
(* LogExists when the shape differs.                                    *)
AskCreate(c, l, shape) ==
    LET p == client[c].at IN
    /\ client[c].st = "open" /\ client[c].req = "none" /\ Ask
    /\ Allows(c, l) /\ CheckName(l) /\ MutexFree(p)
    /\ \/ /\ reg[p][l].at # "absent"
          /\ told' = [told EXCEPT ![l] = IF reg[p][l].shape = shape THEN @ \cup {shape} ELSE @]
          /\ UNCHANGED <<making, client>>
       \/ /\ reg[p][l].at = "absent"
          /\ making' = [making EXCEPT ![p] =
                [log |-> l, shape |-> shape, for |-> c, step |-> "dir"]]
          /\ client' = [client EXCEPT ![c].req = "create", ![c].log = l]
          /\ UNCHANGED told
    /\ UNCHANGED <<path, phase, found, reg, todo, holder, disk, mishaps, acks, owed, overlapped, blurred>>

(* create fails: the client is told, or start fails. *)
CreateFails(p) ==
    IF making[p].for = Nobody THEN FailStart(p)
    ELSE /\ making' = [making EXCEPT ![p] = NotMaking]
         /\ Answered(making[p].for)
         /\ UNCHANGED <<phase, reg, found, todo, holder, owed>>

(* Segments::remember: the directory, then the kind, renamed into place. *)
(* Nothing is flushed.                                                   *)
RememberDir(p) ==
    /\ making[p].step = "dir"
    /\ disk' = [disk EXCEPT ![making[p].log].dir = TRUE]
    /\ making' = [making EXCEPT ![p].step = "kind"]
    /\ UNCHANGED <<path, phase, found, reg, todo, holder, owed, client, mishaps, history, asks>>

(* MUTANT of RememberKind: a kind that is already there is left alone. *)
RememberKindOnce(p) ==
    /\ making[p].step = "kind"
    /\ disk' = [disk EXCEPT ![making[p].log].kind = IF @ = "none" THEN making[p].shape ELSE @]
    /\ making' = [making EXCEPT ![p].step = "place"]
    /\ UNCHANGED <<path, phase, found, reg, todo, holder, owed, client, mishaps, history, asks>>

RememberKind(p) ==
    /\ making[p].step = "kind"
    /\ disk' = [disk EXCEPT ![making[p].log].kind = making[p].shape]
    /\ making' = [making EXCEPT ![p].step = "place"]
    /\ UNCHANGED <<path, phase, found, reg, todo, holder, owed, client, mishaps, history, asks>>

RememberFails(p) ==
    /\ making[p].step \in {"dir", "kind"}
    /\ Mishap("failure")
    /\ CreateFails(p)
    /\ UNCHANGED <<path, disk, history, asks>>

(* Cores::spawn puts the task on the lane of its core without waiting, and *)
(* the log is registered and answered for before it is open. A lane that    *)
(* other logs fill while the core is busy opening one is an error.          *)
Place(p) ==
    LET l == making[p].log IN
    /\ making[p].step = "place"
    /\ \/ /\ Mishap("full")
          /\ CreateFails(p)
          /\ UNCHANGED told
       \/ /\ reg' = [reg EXCEPT ![p][l] = [Absent EXCEPT !.at = "queued", !.shape = making[p].shape]]
          /\ making' = [making EXCEPT ![p] = NotMaking]
          /\ IF making[p].for = Nobody THEN UNCHANGED <<client, told>>
             ELSE /\ Answered(making[p].for)
                  /\ told' = [told EXCEPT ![l] = @ \cup {making[p].shape}]
          /\ UNCHANGED <<phase, found, todo, holder, owed, mishaps>>
    /\ UNCHANGED <<path, disk, acks, overlapped, blurred, asks>>

-----------------------------------------------------------------------------
(* The core that owns a log *)

(* The core's loop takes a task off its lane and spawns it. *)
Spawn(p, l) ==
    /\ reg[p][l].at = "queued"
    /\ reg' = [reg EXCEPT ![p][l].at = "spawned"]
    /\ UNCHANGED <<path, phase, found, making, todo, holder, owed, disk, client, mishaps, history, asks>>

(* MUTANT of Opens: the directory is not locked. *)
OpensUnlocked(l, shape) == disk[l].headed \in {"none", shape}

(* SegmentStore::open_with and Log::open. A directory somebody else has *)
(* locked, or a header of the other shape, is refused for good; the log *)
(* stays registered and every command on it is answered with the error.  *)
Opens(l, shape) == holder[l] = Nobody /\ disk[l].headed \in {"none", shape}
OpenLog(p, l) ==
    /\ reg[p][l].at = "spawned"
    /\ \/ /\ Opens(l, reg[p][l].shape)
          /\ reg' = [reg EXCEPT ![p][l].at = "open", ![p][l].version = disk[l].records]
          /\ holder' = [holder EXCEPT ![l] = p]
       \/ /\ ~Opens(l, reg[p][l].shape)
          /\ reg' = [reg EXCEPT ![p][l].at = "refused"]
          /\ UNCHANGED holder
    /\ UNCHANGED <<path, phase, found, making, todo, owed, disk, client, mishaps, history, asks>>

-----------------------------------------------------------------------------
(* Connections: unix::accept and unix::serve *)

(* A connection waits in the backlog of the listening socket, also while *)
(* the daemon is still starting.                                         *)
Connect(c) ==
    /\ client[c].st = "away" /\ path # Nobody /\ Alive(path)
    /\ client' = [client EXCEPT ![c].at = path, ![c].st = "backlog"]
    /\ UNCHANGED <<path, phase, registry, disk, mishaps, history, asks>>

(* The accept loop: a foreign uid and a connection past the limit are told *)
(* why and closed, anyone else gets a session and a permit. The loop may    *)
(* accept until it notices the stop flag.                                   *)
Accept(c) ==
    LET p == client[c].at IN
    /\ client[c].st = "backlog"
    /\ phase[p] \in {"serving", "stopping", "unlinked"}
    /\ client' = [client EXCEPT ![c] =
          IF Accepts(c) /\ Cardinality(Connected(p)) < Connections
          THEN [@ EXCEPT !.st = "open"] ELSE Free]
    /\ UNCHANGED <<path, phase, registry, disk, mishaps, history, asks>>

(* The client hangs up between two requests; the permit is returned. *)
Hangup(c) ==
    /\ client[c].st = "open" /\ client[c].req = "none"
    /\ client' = [client EXCEPT ![c] = Free]
    /\ UNCHANGED <<path, phase, registry, disk, mishaps, history, asks>>

(* Session::dispatch of an append: a registered log gets the command, *)
(* opened or not; the lookup needs the registry's mutex.              *)
AskAppend(c, l) ==
    LET p == client[c].at IN
    /\ client[c].st = "open" /\ client[c].req = "none" /\ Ask
    /\ Allows(c, l) /\ MutexFree(p) /\ reg[p][l].at # "absent"
    /\ client' = [client EXCEPT ![c].req = "append", ![c].log = l]
    /\ UNCHANGED <<path, phase, registry, disk, mishaps, history>>

(* The actor records the patch after the last version it knows of and     *)
(* flushes it. The first record creates the segment and flushes the       *)
(* directory.                                                             *)
Record(c) ==
    LET p == client[c].at
        l == client[c].log
        v == reg[p][l].version + 1 IN
    /\ client[c].req = "append" /\ reg[p][l].at = "open" /\ v <= MaxRecords
    /\ reg' = [reg EXCEPT ![p][l].version = v]
    /\ disk' = [disk EXCEPT ![l].records = v]
    /\ client' = [client EXCEPT ![c].req = "recorded", ![c].version = v]
    /\ UNCHANGED <<path, phase, found, making, todo, holder, owed, mishaps, history, asks>>

(* The acknowledgement reaches the client. *)
Acknowledge(c) ==
    /\ client[c].req = "recorded"
    /\ acks' = acks \cup {<<client[c].log, client[c].version, client[c].at>>}
    /\ Answered(c)
    /\ UNCHANGED <<path, phase, registry, disk, mishaps, told, overlapped, blurred, asks>>

(* refuse answers in place of an actor whose log did not open; an append *)
(* past the bound of the model is refused as well.                       *)
RefuseAppend(c) ==
    LET e == reg[client[c].at][client[c].log] IN
    /\ client[c].req = "append"
    /\ e.at = "refused" \/ (e.at = "open" /\ e.version = MaxRecords)
    /\ Answered(c)
    /\ UNCHANGED <<path, phase, registry, disk, mishaps, history, asks>>

-----------------------------------------------------------------------------
(* Server::shutdown *)

Sigterm(p) ==
    /\ phase[p] = "serving" /\ MutexFree(p)
    /\ phase' = [phase EXCEPT ![p] = "stopping"]
    /\ todo' = [todo EXCEPT ![p] = Registered(p)]
    /\ owed' = [owed EXCEPT ![p].upto =
          [l \in Logs |-> IF l \in Registered(p) THEN LastAcked(l) ELSE 0]]
    /\ UNCHANGED <<path, found, making, reg, holder, disk, client, mishaps, history, asks>>

(* MUTANT of Passed: a log that is not open yet is passed over. *)
PassedUnopened(p, l) == reg[p][l].at # "open"

(* MUTANT of Passed: nobody answers for a log that did not open. *)
PassedNever(p, l) == FALSE

(* One log after the other is asked for a checkpoint and waited for, which *)
(* waits for the log to open; a refused log and a failed checkpoint are    *)
(* logged and passed over.                                                 *)
Passed(p, l) == reg[p][l].at = "refused"
Checkpoint(p, l) ==
    /\ phase[p] = "stopping" /\ l \in todo[p]
    /\ todo' = [todo EXCEPT ![p] = @ \ {l}]
    /\ \/ /\ reg[p][l].at = "open"
          /\ disk' = [disk EXCEPT ![l].header = reg[p][l].version, ![l].headed = reg[p][l].shape]
          /\ UNCHANGED <<owed, mishaps>>
       \/ /\ Passed(p, l)
          /\ owed' = [owed EXCEPT ![p].upto[l] = IF reg[p][l].at = "refused" THEN 0 ELSE @]
          /\ UNCHANGED <<disk, mishaps>>
       \/ /\ reg[p][l].at = "open" /\ Mishap("failure")
          /\ owed' = [owed EXCEPT ![p].upto[l] = 0]
          /\ UNCHANGED disk
    /\ UNCHANGED <<path, phase, found, making, reg, holder, client, history, asks>>

(* remove_file takes the name, whatever socket it leads to by now. *)
Unlink(p) ==
    /\ phase[p] = "stopping" /\ todo[p] = {}
    /\ phase' = [phase EXCEPT ![p] = "unlinked"]
    /\ path' = Nobody
    /\ UNCHANGED <<registry, disk, client, mishaps, history, asks>>

(* The tasks are aborted, the registry dropped, the cores joined. *)
Exit(p) ==
    /\ phase[p] = "unlinked" /\ MutexFree(p)
    /\ phase' = [phase EXCEPT ![p] = "stopped"]
    /\ Vanish({p})
    /\ UNCHANGED <<path, disk, mishaps, history, asks>>

-----------------------------------------------------------------------------
(* Faults *)

Kill(p) ==
    /\ Alive(p) /\ Mishap("kill")
    /\ phase' = [phase EXCEPT ![p] = "dead"]
    /\ Vanish({p})
    /\ UNCHANGED <<path, disk, history, asks>>

(* A power cut may take what no flush covers: the contents of the kind, and *)
(* the whole directory of a log in which nothing was flushed yet. Sockets of *)
(* a run directory do not survive the reboot.                                *)
Flushed(l) == disk[l].records > 0 \/ disk[l].headed # "none"
Survivors(l) ==
    {disk[l], [disk[l] EXCEPT !.kind = "none"]}
        \cup (IF Flushed(l) \/ l \in BadNames THEN {} ELSE {NoDir})
PowerCut ==
    /\ Mishap("cut")
    /\ phase' = [p \in Daemons |-> IF Alive(p) THEN "dead" ELSE phase[p]]
    /\ path' = Nobody
    /\ Vanish(Daemons)
    /\ disk' \in [Logs -> UNION {Survivors(l) : l \in Logs}]
    /\ \A l \in Logs : disk'[l] \in Survivors(l)
    /\ blurred' = blurred \cup {l \in Logs : disk'[l].kind # disk[l].kind}
    /\ UNCHANGED <<told, acks, overlapped, asks>>

-----------------------------------------------------------------------------
Core(p) == \E l \in Logs : Spawn(p, l) \/ OpenLog(p, l)
Start(p) == Discover(p) \/ Reopen(p) \/ Serve(p)
Create(p) == RememberDir(p) \/ RememberKind(p) \/ Place(p)
Shutdown(p) == (\E l \in Logs : Checkpoint(p, l)) \/ Unlink(p) \/ Exit(p)
Reply(c) == Record(c) \/ Acknowledge(c) \/ RefuseAppend(c)

Next ==
    \/ \E p \in Daemons :
          \/ Bind(p) \/ Start(p) \/ StartFails(p)
          \/ Create(p) \/ RememberFails(p) \/ Core(p)
          \/ Sigterm(p) \/ Shutdown(p) \/ Kill(p)
    \/ \E c \in Clients :
          \/ Connect(c) \/ Accept(c) \/ Hangup(c) \/ Reply(c)
          \/ \E w \in Wishes : AskCreate(c, w[1], w[2])
          \/ \E l \in Logs : AskAppend(c, l)
    \/ PowerCut

Spec == Init /\ [][Next]_vars

-----------------------------------------------------------------------------
(* Properties *)

TypeOK ==
    /\ path \in Daemons \cup {Nobody}
    /\ phase \in [Daemons -> {"off", "bound", "starting", "serving", "stopping",
                              "unlinked", "stopped", "dead"}]
    /\ found \in [Daemons -> SUBSET (Logs \X Shapes)]
    /\ making \in [Daemons -> [log: Logs \cup {Nobody}, shape: Shapes,
                               for: Clients \cup {Nobody}, step: {"none", "dir", "kind", "place"}]]
    /\ \A p \in Daemons, l \in Logs :
          reg[p][l] \in [at: {"absent", "queued", "spawned", "open", "refused"},
                         shape: Shapes, version: 0..MaxRecords]
    /\ todo \in [Daemons -> SUBSET Logs]
    /\ holder \in [Logs -> Daemons \cup {Nobody}]
    /\ \A l \in Logs :
          disk[l] \in [dir: BOOLEAN, kind: Shapes \cup {"none"},
                       records: 0..MaxRecords, header: 0..MaxRecords, headed: Shapes \cup {"none"}]
    /\ \A c \in Clients :
          client[c] \in [at: Daemons \cup {Nobody}, st: {"away", "backlog", "open"},
                         req: {"none", "create", "append", "recorded"},
                         log: Logs \cup {Nobody}, version: 0..MaxRecords]
    /\ asks \in 0..MaxAsks /\ mishaps \in 0..MaxMishaps
    /\ told \in [Logs -> SUBSET Shapes]
    /\ acks \subseteq Logs \X (1..MaxRecords) \X Daemons
    /\ overlapped \in BOOLEAN /\ blurred \subseteq Logs

(* Whatever processes overlap, are killed or restarted, one process at a time *)
(* has a log open, no version is acknowledged by two of them, and what was    *)
(* acknowledged is on disk (open_with, of the lock: "a second one writes over *)
(* the tail the first already acknowledged").                                 *)
OneHistory ==
    /\ \A l \in Logs, p, q \in Daemons : reg[p][l].at = "open" /\ reg[q][l].at = "open" => p = q
    /\ \A a, b \in acks : a[1] = b[1] /\ a[2] = b[2] => a[3] = b[3]
    /\ \A l \in Logs : disk[l].records >= LastAcked(l)

(* A daemon that accepts connections holds every log that had been           *)
(* acknowledged, by whichever process, when it looked at the disk: it never  *)
(* answers NoSuchLog for one of them (StorageFactory::discover).             *)
HoldsItsLogs ==
    \A p \in Daemons :
        phase[p] \in {"serving", "stopping", "unlinked"} => owed[p].logs \subseteq Registered(p)

(* A log keeps the shape it was created with across kills, failed creates    *)
(* and restarts, and no two clients are told different shapes, as long as    *)
(* processes do not overlap and no power cut takes its kind.                 *)
ShapeOutlivesRestart ==
    ~overlapped =>
        \A l \in Logs \ blurred :
            /\ Cardinality(told[l]) <= 1
            /\ \A p \in Daemons : l \in Registered(p) => told[l] \subseteq {reg[p][l].shape}

(* A log a client was told of is found again, and found to be what it was.   *)
LogsOutliveRestart == TypeOK /\ HoldsItsLogs /\ ShapeOutlivesRestart

(* A daemon that stops on a signal leaves a header over everything its   *)
(* logs had acknowledged when the signal came, logs still waiting for their *)
(* core included, unless the log was refused or the checkpoint failed       *)
(* (Server::shutdown, "checkpoint every log").                             *)
StopCovers ==
    \A p \in Daemons :
        phase[p] = "unlinked" => \A l \in Logs : disk[l].header >= owed[p].upto[l]

(* Nobody waits for something that cannot come. A process that is starting or *)
(* stopping can always go on: shutdown waits for logs that are unopened or    *)
(* refused, and start for its own creates. A connection in the backlog and a  *)
(* request, in whatever state its log is, can always be brought one step      *)
(* nearer to its answer. Each of these steps is taken finitely often, so the  *)
(* daemon starts, answers and stops if its tasks are polled.                  *)
NeverWedged ==
    /\ \A p \in Daemons :
          phase[p] \in {"bound", "starting", "stopping", "unlinked"} =>
              ENABLED (Start(p) \/ Create(p) \/ Core(p) \/ Shutdown(p))
    /\ \A c \in Clients :
          client[c].st = "backlog" \/ client[c].req # "none" =>
              ENABLED (Accept(c) \/ Reply(c) \/ Start(client[c].at)
                       \/ Create(client[c].at) \/ Core(client[c].at))

(* storage.rs:20, of the kind remember writes: "so a restart reopens it the *)
(* same way".                                                              *)
ReopensTheSameWay ==
    ~overlapped =>
        \A p \in Daemons, l \in Logs :
            reg[p][l].at = "open" => told[l] \subseteq {reg[p][l].shape}

(* unix.rs:21-22: "the published path never points at a dead socket". A    *)
(* start that fails after the bind leaves it on one: see the README.       *)
PathIsAlive == path # Nobody => Alive(path)

=============================================================================
