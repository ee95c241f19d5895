---------------------------- MODULE Daemon_proofs ----------------------------
(***************************************************************************)
(* The life of the daemon, proved for any number of processes, clients and *)
(* logs, and any number of failed calls, kills and power cuts: a log is    *)
(* open in one process at a time and has one history, a log a client was   *)
(* told of is found again, and a clean stop leaves it checkpointed.        *)
(***************************************************************************)
EXTENDS Daemon, FiniteSetTheorems, TLAPS

-----------------------------------------------------------------------------
(* The inductive invariant *)

Phases == {"off", "bound", "starting", "serving", "stopping", "unlinked", "stopped", "dead"}
Serves(p) == phase[p] \in {"serving", "stopping", "unlinked"}
Versions == 0..MaxRecords
Makings == [log: Logs \cup {Nobody}, shape: Shapes,
            for: Clients \cup {Nobody}, step: {"none", "dir", "kind", "place"}]
Entries == [at: {"absent", "queued", "spawned", "open", "refused"},
            shape: Shapes, version: Versions]
Directories == [dir: BOOLEAN, kind: Shapes \cup {"none"}, records: Versions,
                header: Versions, headed: Shapes \cup {"none"}]
Conns == [at: Daemons \cup {Nobody}, st: {"away", "backlog", "open"},
          req: {"none", "create", "append", "recorded"},
          log: Logs \cup {Nobody}, version: Versions]
Owings == [logs: SUBSET Logs, upto: [Logs -> Versions]]

(* Every variable is a function of its kind. TypeOK looks only at the values. *)
Shaped ==
    /\ path \in Daemons \cup {Nobody}
    /\ phase \in [Daemons -> Phases]
    /\ found \in [Daemons -> SUBSET (Logs \X Shapes)]
    /\ making \in [Daemons -> Makings]
    /\ reg \in [Daemons -> [Logs -> Entries]]
    /\ todo \in [Daemons -> SUBSET Logs]
    /\ holder \in [Logs -> Daemons \cup {Nobody}]
    /\ disk \in [Logs -> Directories]
    /\ client \in [Clients -> Conns]
    /\ owed \in [Daemons -> Owings]
    /\ asks \in 0..MaxAsks /\ mishaps \in 0..MaxMishaps
    /\ told \in [Logs -> SUBSET Shapes]
    /\ acks \subseteq Logs \X (1..MaxRecords) \X Daemons
    /\ overlapped \in BOOLEAN /\ blurred \subseteq Logs

(* A create holds the mutex of a process that starts, for the process, or of *)
(* one that serves, for a client.                                             *)
Creating ==
    \A p \in Daemons :
        /\ making[p].step = "none" <=> making[p] = NotMaking
        /\ making[p].step # "none" =>
              /\ making[p].log \in Logs
              /\ reg[p][making[p].log].at = "absent"
              /\ \/ phase[p] = "starting" /\ making[p].for = Nobody
                 \/ Serves(p) /\ making[p].for \in Clients
        /\ phase[p] \in {"off", "bound", "stopped", "dead"} =>
              \A l \in Logs : reg[p][l].at = "absent"

(* A request is on an open connection, and a connection is open only to a *)
(* process that serves.                                                   *)
Connecting ==
    \A c \in Clients :
        /\ client[c].st # "away" => client[c].at \in Daemons
        /\ client[c].st = "open" => Serves(client[c].at)
        /\ client[c].req # "none" => client[c].st = "open"
        /\ client[c].req \in {"append", "recorded"} => client[c].log \in Logs

Control == Creating /\ Connecting

(* Only the holder of a directory's lock has its log open, and it knows every *)
(* record; an answer under way is the holder's, and nobody else gave it.       *)
Locked ==
    /\ \A l \in Logs, p \in Daemons :
          /\ reg[p][l].at = "open" <=> holder[l] = p
          /\ reg[p][l].at = "open" => reg[p][l].version = disk[l].records
    /\ \A a \in acks : a[2] <= disk[a[1]].records
    /\ \A a, b \in acks : a[1] = b[1] /\ a[2] = b[2] => a[3] = b[3]
    /\ \A c \in Clients : client[c].req = "recorded" =>
          /\ holder[client[c].log] = client[c].at
          /\ client[c].version \in 1..disk[client[c].log].records
          /\ \A a \in acks :
                a[1] = client[c].log /\ a[2] = client[c].version => a[3] = client[c].at

(* LastAcked is defined: acknowledged versions have a greatest one. *)
Greatest ==
    \A l \in Logs : AckedVersions(l) # {} =>
        \E v \in AckedVersions(l) : \A w \in AckedVersions(l) : w <= v

(* What discover listed is reopened one by one, each log once; what a process *)
(* owes is listed still, being reopened, or registered.                        *)
InMaking(p, l) == making[p].step # "none" /\ making[p].log = l
Listed(p, l) == \E f \in found[p] : f[1] = l
Kept ==
    \A p \in Daemons :
        /\ found[p] # {} => phase[p] = "starting"
        /\ \A f, g \in found[p] : f[1] = g[1] => f = g
        /\ \A f \in found[p] : reg[p][f[1]].at = "absent" /\ ~InMaking(p, f[1])
        /\ phase[p] = "starting" =>
              \A l \in owed[p].logs : l \in Registered(p) \/ Listed(p, l) \/ InMaking(p, l)
        /\ Serves(p) => owed[p].logs \subseteq Registered(p)

(* Without overlap and off the logs a power cut blurred, the kind on disk is  *)
(* the shape of the log wherever it is, and the one shape clients were told.  *)
Alone == \A p, q \in Daemons : Alive(p) /\ Alive(q) => p = q
Kinded ==
    ~overlapped =>
        /\ Alone
        /\ \A p \in Daemons, l \in Logs :
              /\ InMaking(p, l) /\ making[p].step \in {"kind", "place"} => disk[l].dir
              /\ InMaking(p, l) /\ making[p].step = "place" => disk[l].kind = making[p].shape
              /\ l \in Registered(p) => disk[l].dir /\ disk[l].kind = reg[p][l].shape
        /\ \A l \in Logs \ blurred : told[l] # {} =>
              /\ disk[l].dir /\ told[l] = {disk[l].kind}
              /\ \A p \in Daemons :
                    /\ phase[p] = "starting" =>
                          l \in Registered(p) \/ Listed(p, l) \/ InMaking(p, l)
                    /\ Serves(p) => l \in Registered(p)
                    /\ \A f \in found[p] : f[1] = l => told[l] = {f[2]}
                    /\ InMaking(p, l) => told[l] = {making[p].shape}

(* A header covers no more than was recorded; what a stopping process owes is *)
(* covered, or still to be checkpointed and on disk.                          *)
Covered ==
    /\ \A l \in Logs : disk[l].header <= disk[l].records
    /\ \A p \in Daemons :
          /\ phase[p] = "unlinked" => todo[p] = {}
          /\ phase[p] \in {"stopping", "unlinked"} =>
                \A l \in Logs :
                    \/ owed[p].upto[l] <= disk[l].header
                    \/ l \in todo[p] /\ owed[p].upto[l] <= disk[l].records

TypeInv == Shaped /\ Control
IInv == TypeInv /\ Locked /\ Greatest /\ Kept /\ Kinded /\ Covered

-----------------------------------------------------------------------------
\* A wish names a log and a shape.
LEMMA Wished ==
    \A w \in Wishes : w[1] \in Logs /\ w[2] \in Shapes
  BY DaemonAssumption

\* No version yet is a version.
LEMMA Zero == 0 \in Versions
  BY DaemonAssumption DEF Versions

\* The values a process starts from and is left with are of their kinds.
LEMMA Blanks ==
    /\ Absent \in Entries /\ NoDir \in Directories /\ Free \in Conns
    /\ NothingOwed \in Owings /\ NotMaking \in Makings
  BY Zero DEF Absent, NoDir, Free, NothingOwed, NotMaking, Entries,
     Directories, Conns, Owings, Makings, Shapes

\* Changing fields of one row leaves a table of its kind.
LEMMA MakingUpdate ==
    ASSUME NEW f \in [Daemons -> Makings], NEW p \in Daemons
    PROVE  \A s \in {"kind", "place"} : [f EXCEPT ![p].step = s] \in [Daemons -> Makings]
  BY DEF Makings

\* Writing an entry of a registry keeps it a registry.
LEMMA EntryUpdate ==
    ASSUME NEW f \in [Daemons -> [Logs -> Entries]], NEW p \in Daemons, NEW l \in Logs
    PROVE  /\ \A e \in Entries : [f EXCEPT ![p][l] = e] \in [Daemons -> [Logs -> Entries]]
           /\ \A a \in {"spawned", "refused"} :
                 [f EXCEPT ![p][l].at = a] \in [Daemons -> [Logs -> Entries]]
           /\ \A v \in Versions :
                 /\ [f EXCEPT ![p][l].version = v] \in [Daemons -> [Logs -> Entries]]
                 /\ [f EXCEPT ![p][l].at = "open", ![p][l].version = v]
                       \in [Daemons -> [Logs -> Entries]]
  <1>1. f[p] \in [Logs -> Entries] /\ f[p][l] \in Entries
    OBVIOUS
  <1>2. \A e \in Entries : [f EXCEPT ![p][l] = e] \in [Daemons -> [Logs -> Entries]]
    OBVIOUS
  <1>3. \A a \in {"spawned", "refused"} : [f[p][l] EXCEPT !.at = a] \in Entries
    BY <1>1 DEF Entries
  <1>4. \A v \in Versions : /\ [f[p][l] EXCEPT !.version = v] \in Entries
                            /\ [f[p][l] EXCEPT !.at = "open", !.version = v] \in Entries
    BY <1>1 DEF Entries
  <1>5. \A v \in Versions : [f EXCEPT ![p][l].at = "open", ![p][l].version = v]
                          = [f EXCEPT ![p][l] = [f[p][l] EXCEPT !.at = "open", !.version = v]]
    BY <1>1 DEF Entries
  <1>. QED
    BY <1>2, <1>3, <1>4, <1>5

\* Writing a request into a connection keeps it a connection.
LEMMA ConnUpdate ==
    ASSUME NEW f \in [Clients -> Conns], NEW c \in Clients
    PROVE  /\ \A r \in {"create", "append"}, l \in Logs :
                 [f EXCEPT ![c].req = r, ![c].log = l] \in [Clients -> Conns]
           /\ \A v \in Versions :
                 [f EXCEPT ![c].req = "recorded", ![c].version = v] \in [Clients -> Conns]
  BY DEF Conns

\* A process that ends leaves every table well formed.
LEMMA VanishShaped ==
    ASSUME Shaped, NEW gone, Vanish(gone)
    PROVE  /\ holder' \in [Logs -> Daemons \cup {Nobody}]
           /\ client' \in [Clients -> Conns]
           /\ making' \in [Daemons -> Makings]
           /\ reg' \in [Daemons -> [Logs -> Entries]]
           /\ found' \in [Daemons -> SUBSET (Logs \X Shapes)]
           /\ todo' \in [Daemons -> SUBSET Logs]
           /\ owed' \in [Daemons -> Owings]
  BY Blanks DEF Shaped, Vanish

\* Answering a client clears its request and leaves the other connections.
LEMMA AnsweredShaped ==
    ASSUME Shaped, NEW c \in Clients, Answered(c)
    PROVE  /\ client' \in [Clients -> Conns]
           /\ client' = [client EXCEPT ![c] =
                 [@ EXCEPT !.req = "none", !.log = Nobody, !.version = 0]]
  <1>1. client[c] \in Conns /\ client \in [Clients -> Conns]
    BY DEF Shaped
  <1>2. [client[c] EXCEPT !.req = "none", !.log = Nobody, !.version = 0] \in Conns
    BY <1>1, Zero DEF Conns
  <1>3. client' = [client EXCEPT ![c] =
           [client[c] EXCEPT !.req = "none", !.log = Nobody, !.version = 0]]
    BY <1>1 DEF Conns, Answered
  <1>. QED
    BY <1>1, <1>2, <1>3

\* The last acknowledged version is a version, and bounds what was acknowledged.
LEMMA LastAckedBound ==
    ASSUME Shaped, Greatest, NEW l \in Logs
    PROVE  /\ LastAcked(l) \in Versions
           /\ LastAcked(l) = 0 \/ LastAcked(l) \in AckedVersions(l)
           /\ \A v \in AckedVersions(l) : v <= LastAcked(l)
  <1>1. AckedVersions(l) \subseteq 1..MaxRecords
    BY DEF AckedVersions, Shaped
  <1>2. CASE AckedVersions(l) = {}
    BY <1>2, DaemonAssumption DEF LastAcked, Versions
  <1>3. CASE AckedVersions(l) # {}
    <2>1. \E v \in AckedVersions(l) : \A w \in AckedVersions(l) : w <= v
      BY <1>3 DEF Greatest
    <2>2. /\ LastAcked(l) \in AckedVersions(l)
          /\ \A w \in AckedVersions(l) : w <= LastAcked(l)
      BY <1>3, <2>1 DEF LastAcked
    <2>. QED
      BY <1>1, <2>2, DaemonAssumption DEF Versions
  <1>. QED
    BY <1>2, <1>3

\* Every step keeps every variable a function of its kind.
LEMMA ShapedNext ==
    ASSUME Shaped, Control, Locked, Greatest, Next
    PROVE  Shaped'
  <1>1. ASSUME NEW p \in Daemons, Bind(p)
       PROVE  Shaped'
    BY <1>1 DEF Bind, Shaped, registry, history, Phases
  <1>2. ASSUME NEW p \in Daemons, Discover(p)
       PROVE  Shaped'
    <2>1. found' \in [Daemons -> SUBSET (Logs \X Shapes)]
      BY <1>2 DEF Discover, Shaped, ShapeOnDisk, Shapes
    <2>2. owed' \in [Daemons -> Owings]
      BY <1>2 DEF Discover, Shaped, Owings
    <2>. QED
      BY <1>2, <2>1, <2>2 DEF Discover, Shaped, registry, history, Phases
  <1>3. ASSUME NEW p \in Daemons, Reopen(p)
       PROVE  Shaped'
    <2>1. CASE FailStart(p)
      BY <1>3, <2>1, VanishShaped DEF Reopen, Shaped, history, FailStart, Phases
    <2>2. CASE ~FailStart(p)
      <3>1. PICK f \in found[p] : /\ found' = [found EXCEPT ![p] = found[p] \ {f}]
                                  /\ making' = [making EXCEPT ![p] =
                                        [log |-> f[1], shape |-> f[2], for |-> Nobody, step |-> "dir"]]
        BY <1>3, <2>2 DEF Reopen
      <3>2. f \in Logs \X Shapes
        BY <3>1 DEF Shaped
      <3>3. [log |-> f[1], shape |-> f[2], for |-> Nobody, step |-> "dir"] \in Makings
        BY <3>2 DEF Makings
      <3>4. making' \in [Daemons -> Makings]
        BY <3>1, <3>3 DEF Shaped
      <3>5. found' \in [Daemons -> SUBSET (Logs \X Shapes)]
        BY <3>1 DEF Shaped
      <3>. QED
        BY <1>3, <2>2, <3>4, <3>5 DEF Reopen, Shaped, history
    <2>. QED
      BY <2>1, <2>2
  <1>4. ASSUME NEW p \in Daemons, Serve(p)
       PROVE  Shaped'
    BY <1>4 DEF Serve, Shaped, registry, history, Phases
  <1>5. ASSUME NEW p \in Daemons, StartFails(p)
       PROVE  Shaped'
    BY <1>5, DaemonAssumption, VanishShaped
       DEF StartFails, Shaped, registry, history, FailStart, Phases, Mishap
  <1>6. ASSUME NEW p \in Daemons, RememberDir(p)
       PROVE  Shaped'
    <2>1. making' \in [Daemons -> Makings]
      BY <1>6, MakingUpdate DEF RememberDir, Shaped
    <2>2. disk' \in [Logs -> Directories]
      BY <1>6 DEF RememberDir, Shaped, Directories
    <2>. QED
      BY <1>6, <2>1, <2>2 DEF RememberDir, Shaped, registry, history
  <1>7. ASSUME NEW p \in Daemons, RememberKind(p)
       PROVE  Shaped'
    <2>1. making' \in [Daemons -> Makings]
      BY <1>7, MakingUpdate DEF RememberKind, Shaped
    <2>2. making[p].shape \in Shapes
      BY <1>7 DEF Shaped, Makings
    <2>3. disk' \in [Logs -> Directories]
      BY <1>7, <2>2 DEF RememberKind, Shaped, Directories
    <2>. QED
      BY <1>7, <2>1, <2>2, <2>3 DEF RememberKind, Shaped, registry, history
  <1>8. ASSUME NEW p \in Daemons, RememberFails(p)
       PROVE  Shaped'
    <2>1. mishaps' \in 0..MaxMishaps
      BY <1>8, DaemonAssumption DEF RememberFails, Mishap, Shaped
    <2>2. CASE making[p].for = Nobody
      BY <1>8, <2>1, <2>2, VanishShaped DEF RememberFails, CreateFails, FailStart,
         Shaped, history, Phases
    <2>3. CASE making[p].for # Nobody
      <3>1. making[p].for \in Clients
        BY <2>3 DEF Shaped, Makings
      <3>2. client' \in [Clients -> Conns]
        BY <1>8, <2>3, <3>1, AnsweredShaped DEF RememberFails, CreateFails
      <3>. QED
        BY <1>8, <2>1, <2>3, <3>2, Blanks DEF RememberFails, CreateFails, Shaped, history
    <2>. QED
      BY <2>2, <2>3
  <1>9. ASSUME NEW p \in Daemons, Place(p)
       PROVE  Shaped'
    <2> DEFINE full == Mishap("full") /\ CreateFails(p) /\ UNCHANGED told
    <2>1. CASE full
      <3>1. mishaps' \in 0..MaxMishaps
        BY <2>1, DaemonAssumption DEF Mishap, Shaped
      <3>2. CASE making[p].for = Nobody
        BY <1>9, <2>1, <3>1, <3>2, VanishShaped DEF Place, CreateFails, FailStart,
           Shaped, Phases
      <3>3. CASE making[p].for # Nobody
        <4>1. making[p].for \in Clients
          BY <3>3 DEF Shaped, Makings
        <4>2. client' \in [Clients -> Conns]
          BY <2>1, <3>3, <4>1, AnsweredShaped DEF CreateFails
        <4>. QED
          BY <1>9, <2>1, <3>1, <3>3, <4>2, Blanks DEF Place, CreateFails, Shaped
      <3>. QED
        BY <3>2, <3>3
    <2>2. CASE ~full
      <3>1. making[p].log \in Logs /\ making[p].shape \in Shapes
        BY <1>9 DEF Place, Control, Creating, Shaped, Makings
      <3>2. [Absent EXCEPT !.at = "queued", !.shape = making[p].shape] \in Entries
        BY <3>1, Blanks DEF Entries
      <3>3. reg' \in [Daemons -> [Logs -> Entries]]
        <4>1. reg' = [reg EXCEPT ![p][making[p].log] =
                         [Absent EXCEPT !.at = "queued", !.shape = making[p].shape]]
          BY <1>9, <2>2 DEF Place
        <4>2. reg \in [Daemons -> [Logs -> Entries]]
          BY DEF Shaped
        <4>. QED
          BY <4>1, <4>2, <3>1, <3>2, EntryUpdate
      <3>4. making[p].for = Nobody \/ making[p].for \in Clients
        BY DEF Shaped, Makings
      <3>5. client' \in [Clients -> Conns]
        BY <1>9, <2>2, <3>4, AnsweredShaped DEF Place, Shaped
      <3>7. making' \in [Daemons -> Makings]
        BY <1>9, <2>2, Blanks DEF Place, Shaped
      <3>6. told' \in [Logs -> SUBSET Shapes]
        BY <1>9, <2>2, <3>1 DEF Place, Shaped
      <3>. QED
        BY <1>9, <2>2, <3>3, <3>5, <3>6, <3>7 DEF Place, Shaped
    <2>. QED
      BY <2>1, <2>2
  <1>10. ASSUME NEW p \in Daemons, NEW l \in Logs, Spawn(p, l)
       PROVE  Shaped'
    <2>1. reg' \in [Daemons -> [Logs -> Entries]]
      BY <1>10, EntryUpdate DEF Spawn, Shaped
    <2>. QED
      BY <1>10, <2>1 DEF Spawn, Shaped, registry, history
  <1>11. ASSUME NEW p \in Daemons, NEW l \in Logs, OpenLog(p, l)
       PROVE  Shaped'
    <2>1. disk[l].records \in Versions
      BY DEF Shaped, Directories
    <2>2. reg' \in [Daemons -> [Logs -> Entries]]
      <3>1. reg \in [Daemons -> [Logs -> Entries]]
        BY DEF Shaped
      <3>2. \/ reg' = [reg EXCEPT ![p][l].at = "open", ![p][l].version = disk[l].records]
            \/ reg' = [reg EXCEPT ![p][l].at = "refused"]
        BY <1>11 DEF OpenLog
      <3>3. [reg EXCEPT ![p][l].at = "open", ![p][l].version = disk[l].records]
               \in [Daemons -> [Logs -> Entries]]
        BY <2>1, <3>1, EntryUpdate
      <3>4. [reg EXCEPT ![p][l].at = "refused"] \in [Daemons -> [Logs -> Entries]]
        BY <3>1, EntryUpdate
      <3>. QED
        BY <3>2, <3>3, <3>4
    <2>3. holder' \in [Logs -> Daemons \cup {Nobody}]
      BY <1>11 DEF OpenLog, Shaped
    <2>. QED
      BY <1>11, <2>2, <2>3 DEF OpenLog, Shaped, history
  <1>12. ASSUME NEW p \in Daemons, Sigterm(p)
       PROVE  Shaped'
    <2>1. [l \in Logs |-> IF l \in Registered(p) THEN LastAcked(l) ELSE 0] \in [Logs -> Versions]
      BY LastAckedBound, Zero
    <2>2. owed' \in [Daemons -> Owings]
      BY <1>12, <2>1 DEF Sigterm, Shaped, Owings
    <2>. QED
      BY <1>12, <2>2 DEF Sigterm, Shaped, history, Phases, Registered
  <1>13. ASSUME NEW p \in Daemons, NEW l \in Logs, Checkpoint(p, l)
       PROVE  Shaped'
    <2>1. disk' \in [Logs -> Directories]
      <3>1. reg[p][l].version \in Versions /\ reg[p][l].shape \in Shapes
        BY DEF Shaped, Entries
      <3>2. disk \in [Logs -> Directories]
        BY DEF Shaped
      <3>3. [disk EXCEPT ![l].header = reg[p][l].version, ![l].headed = reg[p][l].shape]
               \in [Logs -> Directories]
        BY <3>1, <3>2 DEF Directories
      <3>. QED
        BY <1>13, <3>2, <3>3 DEF Checkpoint
    <2>2. owed' \in [Daemons -> Owings]
      <3>1. owed \in [Daemons -> Owings] /\ owed[p].upto \in [Logs -> Versions]
        BY DEF Shaped, Owings
      <3>2. \A v \in Versions : [owed EXCEPT ![p].upto[l] = v] \in [Daemons -> Owings]
        BY <3>1 DEF Owings
      <3>. QED
        BY <1>13, <3>1, <3>2, Zero DEF Checkpoint
    <2>3. mishaps' \in 0..MaxMishaps
      BY <1>13, DaemonAssumption DEF Checkpoint, Mishap, Shaped
    <2>. QED
      BY <1>13, <2>1, <2>2, <2>3 DEF Checkpoint, Shaped, history
  <1>14. ASSUME NEW p \in Daemons, Unlink(p)
       PROVE  Shaped'
    BY <1>14 DEF Unlink, Shaped, registry, history, Phases
  <1>15. ASSUME NEW p \in Daemons, Exit(p)
       PROVE  Shaped'
    BY <1>15, VanishShaped DEF Exit, Shaped, registry, history, Phases
  <1>16. ASSUME NEW p \in Daemons, Kill(p)
       PROVE  Shaped'
    BY <1>16, VanishShaped, DaemonAssumption DEF Kill, Shaped, registry, history, Phases, Mishap
  <1>17. ASSUME NEW c \in Clients, Connect(c)
       PROVE  Shaped'
    BY <1>17 DEF Connect, Shaped, registry, history, Conns
  <1>18. ASSUME NEW c \in Clients, Accept(c)
       PROVE  Shaped'
    BY <1>18, Blanks DEF Accept, Shaped, registry, history, Conns
  <1>19. ASSUME NEW c \in Clients, Hangup(c)
       PROVE  Shaped'
    BY <1>19, Blanks DEF Hangup, Shaped, registry, history
  <1>20. ASSUME NEW c \in Clients, NEW l \in Logs, NEW s \in Shapes, AskCreate(c, l, s)
       PROVE  Shaped'
    <2>1. client' \in [Clients -> Conns]
      <3>1. client' = client \/ client' = [client EXCEPT ![c].req = "create", ![c].log = l]
        BY <1>20 DEF AskCreate
      <3>2. client \in [Clients -> Conns]
        BY DEF Shaped
      <3>3. [client EXCEPT ![c].req = "create", ![c].log = l] \in [Clients -> Conns]
        BY <3>2 DEF Conns
      <3>. QED
        BY <3>1, <3>2, <3>3
    <2>2. client[c].at \in Daemons
      BY <1>20 DEF AskCreate, Control, Creating, Connecting
    <2>3. making' \in [Daemons -> Makings]
      <3>1. \/ making' = making
            \/ making' = [making EXCEPT ![client[c].at] =
                              [log |-> l, shape |-> s, for |-> c, step |-> "dir"]]
        BY <1>20 DEF AskCreate
      <3>2. [log |-> l, shape |-> s, for |-> c, step |-> "dir"] \in Makings
        BY DEF Makings
      <3>. QED
        BY <2>2, <3>1, <3>2 DEF Shaped
    <2>4. told' \in [Logs -> SUBSET Shapes]
      BY <1>20 DEF AskCreate, Shaped
    <2>. QED
      BY <1>20, <2>1, <2>3, <2>4, DaemonAssumption DEF AskCreate, Shaped, Ask
  <1>21. ASSUME NEW c \in Clients, NEW l \in Logs, AskAppend(c, l)
       PROVE  Shaped'
    <2>1. client' \in [Clients -> Conns]
      BY <1>21, ConnUpdate DEF AskAppend, Shaped
    <2>. QED
      BY <1>21, <2>1, DaemonAssumption DEF AskAppend, Shaped, registry, history, Ask
  <1>22. ASSUME NEW c \in Clients, Record(c)
       PROVE  Shaped'
    <2>1. client[c].at \in Daemons /\ client[c].log \in Logs
      BY <1>22 DEF Record, Control, Creating, Connecting
    <2>2. reg[client[c].at][client[c].log].version + 1 \in Versions
      <3>1. reg[client[c].at][client[c].log].version \in Versions
        BY <2>1 DEF Shaped, Entries
      <3>. QED
        BY <1>22, <3>1, DaemonAssumption DEF Record, Versions
    <2>3. reg' \in [Daemons -> [Logs -> Entries]]
      <3>1. reg' = [reg EXCEPT ![client[c].at][client[c].log].version =
                       reg[client[c].at][client[c].log].version + 1]
        BY <1>22 DEF Record
      <3>2. reg \in [Daemons -> [Logs -> Entries]]
        BY DEF Shaped
      <3>3. [reg EXCEPT ![client[c].at][client[c].log].version =
                reg[client[c].at][client[c].log].version + 1] \in [Daemons -> [Logs -> Entries]]
        BY <2>1, <2>2, <3>2, EntryUpdate
      <3>. QED
        BY <3>1, <3>3
    <2>4. disk' \in [Logs -> Directories]
      BY <1>22, <2>1, <2>2 DEF Record, Shaped, Directories
    <2>5. client' \in [Clients -> Conns]
      BY <1>22, <2>1, <2>2, ConnUpdate DEF Record, Shaped
    <2>. QED
      BY <1>22, <2>3, <2>4, <2>5 DEF Record, Shaped, history
  <1>23. ASSUME NEW c \in Clients, Acknowledge(c)
       PROVE  Shaped'
    <2>1. client[c].at \in Daemons /\ client[c].log \in Logs
      BY <1>23 DEF Acknowledge, Control, Creating, Connecting
    <2>2. client[c].version \in 1..MaxRecords
      <3>1. disk[client[c].log].records \in Versions
        BY <2>1 DEF Shaped, Directories
      <3>. QED
        BY <1>23, <3>1, DaemonAssumption DEF Acknowledge, Locked, Versions
    <2>3. acks' \subseteq Logs \X (1..MaxRecords) \X Daemons
      BY <1>23, <2>1, <2>2 DEF Acknowledge, Shaped
    <2>. QED
      BY <1>23, <2>3, AnsweredShaped DEF Acknowledge, Shaped, registry
  <1>24. ASSUME NEW c \in Clients, RefuseAppend(c)
       PROVE  Shaped'
    BY <1>24, AnsweredShaped DEF RefuseAppend, Shaped, registry, history
  <1>25. CASE PowerCut
    <2>1. \A l \in Logs : Survivors(l) \subseteq Directories
      <3> SUFFICES ASSUME NEW l \in Logs PROVE Survivors(l) \subseteq Directories
        OBVIOUS
      <3>1. disk[l] \in Directories
        BY DEF Shaped
      <3>2. [disk[l] EXCEPT !.kind = "none"] \in Directories
        BY <3>1 DEF Directories
      <3>. QED
        BY <3>1, <3>2, Blanks DEF Survivors
    <2>2. disk' \in [Logs -> Directories]
      BY <1>25, <2>1 DEF PowerCut
    <2>. QED
      BY <1>25, <2>2, VanishShaped, DaemonAssumption DEF PowerCut, Shaped, Mishap, Phases
  <1>. QED
    BY <1>1, <1>2, <1>3, <1>4, <1>5, <1>6, <1>7, <1>8, <1>9, <1>10, <1>11, <1>12, <1>13,
       <1>14, <1>15, <1>16, <1>17, <1>18, <1>19, <1>20, <1>21, <1>22, <1>23, <1>24, <1>25, Wished
    DEF Next, Core, Start, Create, Shutdown, Reply

-----------------------------------------------------------------------------
\* What is left when processes end: their rows are blank, their clients free.
LEMMA VanishControl ==
    ASSUME Control, NEW gone \in SUBSET Daemons, Vanish(gone),
           \A p \in Daemons \ gone : phase'[p] = phase[p],
           \A p \in gone : phase'[p] \in {"off", "stopped", "dead"}
    PROVE  Control'
  <1>1. \A p \in Daemons :
          /\ p \in gone => making'[p] = NotMaking /\ reg'[p] = [l \in Logs |-> Absent]
          /\ p \notin gone => making'[p] = making[p] /\ reg'[p] = reg[p]
    BY DEF Vanish
  <1>2. \A c \in Clients : client'[c] = Free \/ (client'[c] = client[c] /\ client[c].at \notin gone)
    BY DEF Vanish
  <1>3. NotMaking.step = "none" /\ Absent.at = "absent" /\ Free.st = "away" /\ Free.req = "none"
    BY DEF NotMaking, Absent, Free
  <1>4. Creating'
    BY <1>1, <1>3 DEF Control, Creating, Serves
  <1>5. Connecting'
    BY <1>2, <1>3 DEF Control, Connecting, Serves
  <1>. QED
    BY <1>4, <1>5 DEF Control

\* An answer leaves the connection and clears the request.
LEMMA AnsweredEffect ==
    ASSUME Shaped, NEW c \in Clients, Answered(c)
    PROVE  /\ \A d \in Clients : d # c => client'[d] = client[d]
           /\ client'[c].at = client[c].at /\ client'[c].st = client[c].st
           /\ client'[c].req = "none"
  <1>1. client \in [Clients -> Conns] /\ client[c] \in Conns
    BY DEF Shaped
  <1>2. DEFINE y == [client[c] EXCEPT !.req = "none", !.log = Nobody, !.version = 0]
  <1>3. y.at = client[c].at /\ y.st = client[c].st /\ y.req = "none"
    BY <1>1 DEF Conns
  <1>4. client' = [client EXCEPT ![c] = y]
    BY AnsweredShaped
  <1> HIDE DEF y
  <1>. QED
    BY <1>1, <1>3, <1>4

\* Opening a log changes its entry only: it is open, under the lock and at the
\* last record, or refused.
LEMMA OpenEffect ==
    ASSUME Shaped, NEW p \in Daemons, NEW l \in Logs, OpenLog(p, l)
    PROVE  /\ \A q \in Daemons, k \in Logs : q # p \/ k # l => reg'[q][k] = reg[q][k]
           /\ reg'[p][l].shape = reg[p][l].shape
           /\ \/ /\ reg'[p][l].at = "open" /\ reg'[p][l].version = disk[l].records
                 /\ holder[l] = Nobody /\ holder' = [holder EXCEPT ![l] = p]
              \/ reg'[p][l].at = "refused" /\ UNCHANGED holder
  <1>1. reg \in [Daemons -> [Logs -> Entries]] /\ reg[p][l] \in Entries
    BY DEF Shaped
  <1>2. CASE reg' = [reg EXCEPT ![p][l].at = "refused"]
    BY <1>1, <1>2 DEF OpenLog, Entries
  <1>3. CASE reg' = [reg EXCEPT ![p][l].at = "open", ![p][l].version = disk[l].records]
    <2>1. DEFINE y == [reg[p][l] EXCEPT !.at = "open", !.version = disk[l].records]
    <2>2. y.at = "open" /\ y.version = disk[l].records /\ y.shape = reg[p][l].shape
      BY <1>1 DEF Entries
    <2>3. reg' = [reg EXCEPT ![p][l] = y]
      BY <1>1, <1>3 DEF Entries
    <2>4. y.at # "refused"
      BY <2>2
    <2>5. reg'[p][l] = y
      BY <1>1, <2>3
    <2>6. holder[l] = Nobody /\ holder' = [holder EXCEPT ![l] = p]
      <3>1. reg'[p][l].at # "refused"
        BY <2>5, <2>4
      <3>2. [reg EXCEPT ![p][l].at = "refused"][p][l].at = "refused"
        BY <1>1 DEF Entries
      <3>. QED
        BY <3>1, <3>2 DEF OpenLog, Opens
    <2> HIDE DEF y
    <2>. QED
      BY <1>1, <2>2, <2>3, <2>6
  <1>. QED
    BY <1>2, <1>3 DEF OpenLog

\* Answering a client changes no other request.
LEMMA AnsweredConnecting ==
    ASSUME Shaped, Connecting, NEW c \in Clients, Answered(c), UNCHANGED phase
    PROVE  Connecting'
  <1>1. client[c] \in Conns
    BY DEF Shaped
  <1>2. \A d \in Clients : /\ client'[d].at = client[d].at /\ client'[d].st = client[d].st
                           /\ client'[d] = client[d] \/ client'[d].req = "none"
    BY AnsweredEffect
  <1>. QED
    BY <1>2 DEF Connecting, Serves

\* One create at a time, on a log that is not registered.
LEMMA CreatingNext ==
    ASSUME Shaped, Control, Kept, Next
    PROVE  Creating'
  <1>a. making \in [Daemons -> Makings]
    BY DEF Shaped
  <1>b. reg \in [Daemons -> [Logs -> Entries]]
    BY DEF Shaped
  <1>d. phase \in [Daemons -> Phases]
    BY DEF Shaped
  <1>1. ASSUME NEW p \in Daemons, Bind(p)
       PROVE  Creating'
    BY <1>1 DEF Bind, Control, Creating, Serves, registry, MutexFree, Serving, NotMaking, Shaped
  <1>2. ASSUME NEW p \in Daemons, Discover(p)
       PROVE  Creating'
    BY <1>2 DEF Discover, Control, Creating, Serves, registry, MutexFree, Serving, NotMaking, Shaped
  <1>3. ASSUME NEW p \in Daemons, Reopen(p)
       PROVE  Creating'
    <2>1. CASE FailStart(p)
      BY <1>3, <2>1, VanishControl, <1>d DEF FailStart, Control
    <2>2. CASE ~FailStart(p)
      <3>1. PICK f \in found[p] : making' = [making EXCEPT ![p] =
                [log |-> f[1], shape |-> f[2], for |-> Nobody, step |-> "dir"]]
        BY <1>3, <2>2 DEF Reopen
      <3>2. f[1] \in Logs /\ reg[p][f[1]].at = "absent"
        BY <3>1 DEF Shaped, Kept
      <3>. QED
        BY <1>3, <2>2, <3>1, <3>2, <1>a DEF Reopen, Control, Creating, Serves, NotMaking
    <2>. QED
      BY <2>1, <2>2
  <1>4. ASSUME NEW p \in Daemons, Serve(p)
       PROVE  Creating'
    BY <1>4 DEF Serve, Control, Creating, Serves, registry, MutexFree, Serving, NotMaking, Shaped
  <1>5. ASSUME NEW p \in Daemons, StartFails(p)
       PROVE  Creating'
    BY <1>5, VanishControl, <1>d DEF StartFails, FailStart, Control
  <1>6. ASSUME NEW p \in Daemons, RememberDir(p)
       PROVE  Creating'
    BY <1>6, <1>a DEF RememberDir, Control, Creating, Serves, Makings, NotMaking
  <1>7. ASSUME NEW p \in Daemons, RememberKind(p)
       PROVE  Creating'
    BY <1>7, <1>a DEF RememberKind, Control, Creating, Serves, Makings, NotMaking
  <1>8. ASSUME NEW p \in Daemons, RememberFails(p)
       PROVE  Creating'
    <2>1. CASE making[p].for = Nobody
      BY <1>8, <2>1, VanishControl, <1>d DEF RememberFails, CreateFails, FailStart, Control
    <2>2. CASE making[p].for # Nobody
      BY <1>8, <2>2, <1>a DEF RememberFails, CreateFails, Control, Creating, Serves, NotMaking
    <2>. QED
      BY <2>1, <2>2
  <1>9. ASSUME NEW p \in Daemons, Place(p)
       PROVE  Creating'
    <2>1. CASE CreateFails(p)
      <3>1. CASE making[p].for = Nobody
        BY <1>9, <2>1, <3>1, VanishControl, <1>d DEF CreateFails, FailStart, Control
      <3>2. CASE making[p].for # Nobody
        BY <1>9, <2>1, <3>2, <1>a DEF CreateFails, Control, Creating, Serves, NotMaking
      <3>. QED
        BY <3>1, <3>2
    <2>2. CASE ~CreateFails(p)
      BY <1>9, <2>2, <1>a, <1>b DEF Place, Control, Creating, Serves, NotMaking
    <2>. QED
      BY <2>1, <2>2
  <1>10. ASSUME NEW p \in Daemons, NEW l \in Logs, Spawn(p, l)
       PROVE  Creating'
    BY <1>10, <1>b DEF Spawn, Control, Creating, Serves, Entries, Connecting
  <1>11. ASSUME NEW p \in Daemons, NEW l \in Logs, OpenLog(p, l)
       PROVE  Creating'
    <2>1. reg[p][l].at = "spawned" /\ UNCHANGED <<phase, making>>
      BY <1>11 DEF OpenLog
    <2>2. \A q \in Daemons, k \in Logs : reg'[q][k] = reg[q][k] \/ (q = p /\ k = l)
      BY <1>11, OpenEffect
    <2>3. \A k \in Logs : reg[p][k].at = "absent" => k # l
      BY <2>1
    <2>. QED
      BY <2>1, <2>2, <2>3 DEF Control, Creating, Serves
  <1>12. ASSUME NEW p \in Daemons, Sigterm(p)
       PROVE  Creating'
    BY <1>12 DEF Sigterm, Control, Creating, Serves, registry, MutexFree, Serving, NotMaking, Shaped
  <1>13. ASSUME NEW p \in Daemons, NEW l \in Logs, Checkpoint(p, l)
       PROVE  Creating'
    BY <1>13
       DEF Checkpoint, Control, Creating, Serves, registry, MutexFree, Serving, NotMaking, Shaped
  <1>14. ASSUME NEW p \in Daemons, Unlink(p)
       PROVE  Creating'
    BY <1>14 DEF Unlink, Control, Creating, Serves, registry, MutexFree, Serving, NotMaking, Shaped
  <1>15. ASSUME NEW p \in Daemons, Exit(p)
       PROVE  Creating'
    BY <1>15, VanishControl, <1>d DEF Exit, FailStart, Control
  <1>16. ASSUME NEW p \in Daemons, Kill(p)
       PROVE  Creating'
    BY <1>16, VanishControl, <1>d DEF Kill, FailStart, Control
  <1>17. ASSUME NEW c \in Clients, Connect(c)
       PROVE  Creating'
    BY <1>17 DEF Connect, Control, Creating, Serves, registry, MutexFree, Serving, NotMaking, Shaped
  <1>18. ASSUME NEW c \in Clients, Accept(c)
       PROVE  Creating'
    BY <1>18 DEF Accept, Control, Creating, Serves, registry, MutexFree, Serving, NotMaking, Shaped
  <1>19. ASSUME NEW c \in Clients, Hangup(c)
       PROVE  Creating'
    BY <1>19 DEF Hangup, Control, Creating, Serves, registry, MutexFree, Serving, NotMaking, Shaped
  <1>20. ASSUME NEW c \in Clients, NEW l \in Logs, NEW s \in Shapes, AskCreate(c, l, s)
       PROVE  Creating'
    <2>1. client[c].at \in Daemons /\ Serves(client[c].at)
      BY <1>20 DEF AskCreate, Control, Connecting
    <2>. QED
      BY <1>20, <2>1, <1>a DEF AskCreate, Control, Creating, Serves, NotMaking
  <1>21. ASSUME NEW c \in Clients, NEW l \in Logs, AskAppend(c, l)
       PROVE  Creating'
    BY <1>21
       DEF AskAppend, Control, Creating, Serves, registry, MutexFree, Serving, NotMaking, Shaped
  <1>22. ASSUME NEW c \in Clients, Record(c)
       PROVE  Creating'
    BY <1>22, <1>b DEF Record, Control, Creating, Serves, Entries, Connecting
  <1>23. ASSUME NEW c \in Clients, Acknowledge(c)
       PROVE  Creating'
    BY <1>23
       DEF Acknowledge, Control, Creating, Serves, registry, MutexFree, Serving, NotMaking, Shaped
  <1>24. ASSUME NEW c \in Clients, RefuseAppend(c)
       PROVE  Creating'
    BY <1>24
       DEF RefuseAppend, Control, Creating, Serves, registry, MutexFree, Serving, NotMaking, Shaped
  <1>25. CASE PowerCut
    BY <1>25, VanishControl, <1>d DEF PowerCut, Control, Alive, Phases
  <1>. QED
    BY <1>1, <1>2, <1>3, <1>4, <1>5, <1>6, <1>7, <1>8, <1>9, <1>10, <1>11, <1>12, <1>13,
       <1>14, <1>15, <1>16, <1>17, <1>18, <1>19, <1>20, <1>21, <1>22, <1>23, <1>24, <1>25, Wished
    DEF Next, Core, Start, Create, Shutdown, Reply

\* Every request stays on an open connection to a serving process.
LEMMA ConnectingNext ==
    ASSUME Shaped, Control, Next
    PROVE  Connecting'
  <1>a. making \in [Daemons -> Makings]
    BY DEF Shaped
  <1>d. phase \in [Daemons -> Phases]
    BY DEF Shaped
  <1>e. client \in [Clients -> Conns] /\ path \in Daemons \cup {Nobody}
    BY DEF Shaped
  <1>1. ASSUME NEW p \in Daemons, Bind(p)
       PROVE  Connecting'
    BY <1>1 DEF Bind, Control, Connecting, Serves, registry, Shaped
  <1>2. ASSUME NEW p \in Daemons, Discover(p)
       PROVE  Connecting'
    BY <1>2 DEF Discover, Control, Connecting, Serves, registry, Shaped
  <1>3. ASSUME NEW p \in Daemons, Reopen(p)
       PROVE  Connecting'
    <2>1. CASE FailStart(p)
      BY <1>3, <2>1, VanishControl, <1>d DEF FailStart, Control
    <2>2. CASE ~FailStart(p)
      BY <1>3, <2>2 DEF Reopen, Control, Connecting, Serves
    <2>. QED
      BY <2>1, <2>2
  <1>4. ASSUME NEW p \in Daemons, Serve(p)
       PROVE  Connecting'
    BY <1>4 DEF Serve, Control, Connecting, Serves, registry, Shaped
  <1>5. ASSUME NEW p \in Daemons, StartFails(p)
       PROVE  Connecting'
    BY <1>5, VanishControl, <1>d DEF StartFails, FailStart, Control
  <1>6. ASSUME NEW p \in Daemons, RememberDir(p)
       PROVE  Connecting'
    BY <1>6 DEF RememberDir, Control, Connecting, Serves, registry, Shaped
  <1>7. ASSUME NEW p \in Daemons, RememberKind(p)
       PROVE  Connecting'
    BY <1>7 DEF RememberKind, Control, Connecting, Serves, registry, Shaped
  <1>8. ASSUME NEW p \in Daemons, RememberFails(p)
       PROVE  Connecting'
    <2>1. CASE making[p].for = Nobody
      BY <1>8, <2>1, VanishControl, <1>d DEF RememberFails, CreateFails, FailStart, Control
    <2>2. CASE making[p].for # Nobody
      BY <1>8, <2>2, <1>a, AnsweredConnecting DEF RememberFails, CreateFails, Control, Makings
    <2>. QED
      BY <2>1, <2>2
  <1>9. ASSUME NEW p \in Daemons, Place(p)
       PROVE  Connecting'
    <2>1. CASE CreateFails(p)
      <3>1. CASE making[p].for = Nobody
        BY <1>9, <2>1, <3>1, VanishControl, <1>d DEF CreateFails, FailStart, Control
      <3>2. CASE making[p].for # Nobody
        BY <1>9, <2>1, <3>2, <1>a, AnsweredConnecting DEF CreateFails, Control, Makings
      <3>. QED
        BY <3>1, <3>2
    <2>2. CASE ~CreateFails(p)
      <3>1. CASE making[p].for = Nobody
        BY <1>9, <2>2, <3>1 DEF Place, Control, Connecting, Serves
      <3>2. CASE making[p].for # Nobody
        BY <1>9, <2>2, <3>2, <1>a, AnsweredConnecting DEF Place, Control, Makings
      <3>. QED
        BY <3>1, <3>2
    <2>. QED
      BY <2>1, <2>2
  <1>10. ASSUME NEW p \in Daemons, NEW l \in Logs, Spawn(p, l)
       PROVE  Connecting'
    BY <1>10 DEF Spawn, Control, Connecting, Serves, registry, Shaped
  <1>11. ASSUME NEW p \in Daemons, NEW l \in Logs, OpenLog(p, l)
       PROVE  Connecting'
    BY <1>11 DEF OpenLog, Control, Connecting, Serves, registry, Shaped
  <1>12. ASSUME NEW p \in Daemons, Sigterm(p)
       PROVE  Connecting'
    BY <1>12 DEF Sigterm, Control, Connecting, Serves, registry, Shaped
  <1>13. ASSUME NEW p \in Daemons, NEW l \in Logs, Checkpoint(p, l)
       PROVE  Connecting'
    BY <1>13 DEF Checkpoint, Control, Connecting, Serves, registry, Shaped
  <1>14. ASSUME NEW p \in Daemons, Unlink(p)
       PROVE  Connecting'
    BY <1>14 DEF Unlink, Control, Connecting, Serves, registry, Shaped
  <1>15. ASSUME NEW p \in Daemons, Exit(p)
       PROVE  Connecting'
    BY <1>15, VanishControl, <1>d DEF Exit, FailStart, Control
  <1>16. ASSUME NEW p \in Daemons, Kill(p)
       PROVE  Connecting'
    BY <1>16, VanishControl, <1>d DEF Kill, FailStart, Control
  <1>17. ASSUME NEW c \in Clients, Connect(c)
       PROVE  Connecting'
    BY <1>17, <1>e, DaemonAssumption DEF Connect, Control, Connecting, Serves, Conns, Alive
  <1>18. ASSUME NEW c \in Clients, Accept(c)
       PROVE  Connecting'
    BY <1>18, <1>e DEF Accept, Control, Connecting, Serves, Conns, Free
  <1>19. ASSUME NEW c \in Clients, Hangup(c)
       PROVE  Connecting'
    BY <1>19, <1>e DEF Hangup, Control, Connecting, Serves, Conns, Free
  <1>20. ASSUME NEW c \in Clients, NEW l \in Logs, NEW s \in Shapes, AskCreate(c, l, s)
       PROVE  Connecting'
    BY <1>20, <1>e, DaemonAssumption DEF AskCreate, Control, Connecting, Serves, Conns, Alive
  <1>21. ASSUME NEW c \in Clients, NEW l \in Logs, AskAppend(c, l)
       PROVE  Connecting'
    BY <1>21, <1>e, DaemonAssumption DEF AskAppend, Control, Connecting, Serves, Conns, Alive
  <1>22. ASSUME NEW c \in Clients, Record(c)
       PROVE  Connecting'
    BY <1>22, <1>e, DaemonAssumption DEF Record, Control, Connecting, Serves, Conns, Alive
  <1>23. ASSUME NEW c \in Clients, Acknowledge(c)
       PROVE  Connecting'
    BY <1>23, AnsweredConnecting DEF Acknowledge, Control
  <1>24. ASSUME NEW c \in Clients, RefuseAppend(c)
       PROVE  Connecting'
    BY <1>24, AnsweredConnecting DEF RefuseAppend, Control
  <1>25. CASE PowerCut
    BY <1>25, VanishControl, <1>d DEF PowerCut, Control, Alive, Phases
  <1>. QED
    BY <1>1, <1>2, <1>3, <1>4, <1>5, <1>6, <1>7, <1>8, <1>9, <1>10, <1>11, <1>12, <1>13,
       <1>14, <1>15, <1>16, <1>17, <1>18, <1>19, <1>20, <1>21, <1>22, <1>23, <1>24, <1>25, Wished
    DEF Next, Core, Start, Create, Shutdown, Reply

-----------------------------------------------------------------------------
\* A placed log is registered, in the shape it was made in, and nothing else is.
LEMMA PlaceEffect ==
    ASSUME Shaped, Control, NEW p \in Daemons, Place(p), ~CreateFails(p)
    PROVE  /\ making[p].log \in Logs /\ making[p].shape \in Shapes
           /\ reg'[p][making[p].log].at = "queued"
           /\ reg'[p][making[p].log].shape = making[p].shape
           /\ \A q \in Daemons, k \in Logs :
                 q # p \/ k # making[p].log => reg'[q][k] = reg[q][k]
           /\ making'[p] = NotMaking
           /\ \A q \in Daemons \ {p} : making'[q] = making[q]
  <1>1. making[p].log \in Logs /\ making[p].shape \in Shapes
    BY DEF Place, Control, Creating, Shaped, Makings
  <1>2. DEFINE e == [Absent EXCEPT !.at = "queued", !.shape = making[p].shape]
  <1>3. e.at = "queued" /\ e.shape = making[p].shape
    BY DEF Absent
  <1>4. reg' = [reg EXCEPT ![p][making[p].log] = e]
    BY DEF Place
  <1>5. making' = [making EXCEPT ![p] = NotMaking]
    BY DEF Place
  <1> HIDE DEF e
  <1>. QED
    BY <1>1, <1>3, <1>4, <1>5 DEF Shaped

-----------------------------------------------------------------------------
(* One history *)

\* A step that opens and closes no log, records and acknowledges nothing.
LEMMA LockedFrame ==
    ASSUME Locked, UNCHANGED <<holder, acks>>,
           \A p \in Daemons, l \in Logs :
               /\ reg'[p][l].at = "open" <=> reg[p][l].at = "open"
               /\ reg'[p][l].at = "open" => reg'[p][l].version = reg[p][l].version,
           \A l \in Logs : disk'[l].records = disk[l].records,
           \A c \in Clients : client'[c].req = "recorded" =>
               client'[c].at = client[c].at /\ client'[c].log = client[c].log
               /\ client'[c].version = client[c].version /\ client[c].req = "recorded",
           Shaped, Connecting
    PROVE  Locked'
  <1>1. \A a \in acks : a[1] \in Logs
    BY DEF Shaped
  <1>. QED
    BY <1>1 DEF Locked, Connecting

\* A process that ends releases its locks and drops its answers.
LEMMA VanishLocked ==
    ASSUME Shaped, Connecting, Locked, NEW gone \in SUBSET Daemons, Vanish(gone), UNCHANGED acks,
           \A a \in acks : disk'[a[1]].records = disk[a[1]].records,
           gone = Daemons \/ UNCHANGED disk
    PROVE  Locked'
  <1>1. \A p \in Daemons, l \in Logs :
          /\ p \in gone => reg'[p][l] = Absent
          /\ p \notin gone => reg'[p][l] = reg[p][l]
    BY DEF Vanish
  <1>2. \A c \in Clients : client'[c] = Free \/ (client'[c] = client[c] /\ client[c].at \notin gone)
    BY DEF Vanish
  <1>3. \A l \in Logs : holder'[l] = IF holder[l] \in gone THEN Nobody ELSE holder[l]
    BY DEF Vanish
  <1>4. Absent.at = "absent" /\ Free.req = "none" /\ Nobody \notin Daemons
    BY DaemonAssumption DEF Absent, Free
  <1>5. \A p \in Daemons, l \in Logs :
          /\ reg'[p][l].at = "open" <=> holder'[l] = p
          /\ reg'[p][l].at = "open" => reg'[p][l].version = disk'[l].records
    BY <1>1, <1>3, <1>4 DEF Locked
  <1>6. \A c \in Clients : client'[c].req = "recorded" =>
          client'[c] = client[c] /\ client[c].req = "recorded"
          /\ client[c].at \in Daemons \ gone /\ client[c].log \in Logs
    BY <1>2, <1>4 DEF Connecting
  <1>7. \A c \in Clients : client'[c].req = "recorded" => UNCHANGED disk
    BY <1>6
  <1>8. \A c \in Clients : client'[c].req = "recorded" => holder'[client[c].log] = client[c].at
    BY <1>3, <1>6 DEF Locked
  <1>. QED
    BY <1>5, <1>6, <1>7, <1>8 DEF Locked

\* The lock keeps one history per log.
LEMMA LockedNext ==
    ASSUME Shaped, Control, Locked, Next
    PROVE  Locked'
  <1>a. Shaped /\ Connecting
    BY DEF Control
  <1>b. reg \in [Daemons -> [Logs -> Entries]]
    BY DEF Shaped
  <1>c. disk \in [Logs -> Directories]
    BY DEF Shaped
  <1>d. making \in [Daemons -> Makings]
    BY DEF Shaped
  <1>e. client \in [Clients -> Conns]
    BY DEF Shaped
  <1>1. ASSUME NEW p \in Daemons, Bind(p)
       PROVE  Locked'
    BY <1>1, LockedFrame, <1>a DEF Bind, history, registry
  <1>2. ASSUME NEW p \in Daemons, Discover(p)
       PROVE  Locked'
    BY <1>2, LockedFrame, <1>a DEF Discover, history
  <1>3. ASSUME NEW p \in Daemons, Reopen(p)
       PROVE  Locked'
    <2>1. CASE FailStart(p)
      BY <1>3, <2>1, VanishLocked, <1>a DEF Reopen, FailStart, history
    <2>2. CASE ~FailStart(p)
      BY <1>3, <2>2, LockedFrame, <1>a DEF Reopen, history
    <2>. QED
      BY <2>1, <2>2
  <1>4. ASSUME NEW p \in Daemons, Serve(p)
       PROVE  Locked'
    BY <1>4, LockedFrame, <1>a DEF Serve, history, registry
  <1>5. ASSUME NEW p \in Daemons, StartFails(p)
       PROVE  Locked'
    BY <1>5, VanishLocked, <1>a DEF StartFails, FailStart, history
  <1>6. ASSUME NEW p \in Daemons, RememberDir(p)
       PROVE  Locked'
    BY <1>6, LockedFrame, <1>a, <1>c DEF RememberDir, history, Directories
  <1>7. ASSUME NEW p \in Daemons, RememberKind(p)
       PROVE  Locked'
    BY <1>7, LockedFrame, <1>a, <1>c DEF RememberKind, history, Directories
  <1>8. ASSUME NEW p \in Daemons, RememberFails(p)
       PROVE  Locked'
    <2>1. CASE making[p].for = Nobody
      BY <1>8, <2>1, VanishLocked, <1>a DEF RememberFails, CreateFails, FailStart, history
    <2>2. CASE making[p].for # Nobody
      BY <1>8, <2>2, LockedFrame, AnsweredEffect, <1>a, <1>d
      DEF RememberFails, CreateFails, history, Makings
    <2>. QED
      BY <2>1, <2>2
  <1>9. ASSUME NEW p \in Daemons, Place(p)
       PROVE  Locked'
    <2>1. CASE CreateFails(p) /\ making[p].for = Nobody
      BY <1>9, <2>1, VanishLocked, <1>a DEF Place, CreateFails, FailStart
    <2>2. CASE CreateFails(p) /\ making[p].for # Nobody
      BY <1>9, <2>2, LockedFrame, AnsweredEffect, <1>a, <1>d DEF Place, CreateFails, Makings
    <2>3. CASE ~CreateFails(p)
      <3>1. making[p].log \in Logs /\ reg[p][making[p].log].at = "absent"
        BY <1>9 DEF Place, Control, Creating
      <3>2. \A q \in Daemons, k \in Logs :
               /\ reg'[q][k].at = "open" <=> reg[q][k].at = "open"
               /\ reg'[q][k].at = "open" => reg'[q][k] = reg[q][k]
        BY <1>9, <2>3, <3>1, PlaceEffect
      <3>3. \A c \in Clients : client'[c].req = "recorded" => client'[c] = client[c]
        BY <1>9, <2>3, AnsweredEffect, <1>d DEF Place, Makings
      <3>. QED
        BY <1>9, <2>3, <3>2, <3>3, LockedFrame, <1>a DEF Place
    <2>. QED
      BY <2>1, <2>2, <2>3
  <1>10. ASSUME NEW p \in Daemons, NEW l \in Logs, Spawn(p, l)
       PROVE  Locked'
    BY <1>10, LockedFrame, <1>a, <1>b DEF Spawn, history, Entries
  <1>11. ASSUME NEW p \in Daemons, NEW l \in Logs, OpenLog(p, l)
       PROVE  Locked'
    <2>1. reg[p][l].at = "spawned" /\ UNCHANGED <<disk, client, acks>> /\ Nobody \notin Daemons
      BY <1>11, DaemonAssumption DEF OpenLog, history
    <2>2. CASE reg'[p][l].at = "refused"
      <3>1. UNCHANGED holder
        BY <1>11, <2>2, OpenEffect
      <3>2. \A q \in Daemons, k \in Logs :
               /\ reg'[q][k].at = "open" <=> reg[q][k].at = "open"
               /\ reg'[q][k].at = "open" => reg'[q][k] = reg[q][k]
        BY <1>11, <2>1, <2>2, OpenEffect
      <3>. QED
        BY <2>1, <3>1, <3>2, LockedFrame, <1>a
    <2>3. CASE reg'[p][l].at # "refused"
      <3>1. /\ reg'[p][l].at = "open" /\ reg'[p][l].version = disk[l].records
            /\ holder[l] = Nobody /\ holder' = [holder EXCEPT ![l] = p]
        BY <1>11, <2>3, OpenEffect
      <3>2. \A q \in Daemons, k \in Logs : q # p \/ k # l => reg'[q][k] = reg[q][k]
        BY <1>11, OpenEffect
      <3>3. \A k \in Logs : holder'[k] = IF k = l THEN p ELSE holder[k]
        BY <3>1, <1>a DEF Shaped
      <3>4. \A q \in Daemons : reg[q][l].at # "open"
        BY <2>1, <3>1 DEF Locked
      <3>5. \A q \in Daemons, k \in Logs :
               /\ reg'[q][k].at = "open" <=> holder'[k] = q
               /\ reg'[q][k].at = "open" => reg'[q][k].version = disk[k].records
        BY <3>1, <3>2, <3>3, <3>4 DEF Locked
      <3>6. \A c \in Clients : client[c].req = "recorded" =>
               client[c].log \in Logs \ {l} /\ holder'[client[c].log] = client[c].at
        BY <2>1, <3>1, <3>3, <1>a DEF Locked, Connecting
      <3>. QED
        BY <2>1, <3>5, <3>6 DEF Locked
    <2>. QED
      BY <2>2, <2>3
  <1>12. ASSUME NEW p \in Daemons, Sigterm(p)
       PROVE  Locked'
    BY <1>12, LockedFrame, <1>a DEF Sigterm, history
  <1>13. ASSUME NEW p \in Daemons, NEW l \in Logs, Checkpoint(p, l)
       PROVE  Locked'
    BY <1>13, LockedFrame, <1>a, <1>c DEF Checkpoint, history, Directories
  <1>14. ASSUME NEW p \in Daemons, Unlink(p)
       PROVE  Locked'
    BY <1>14, LockedFrame, <1>a DEF Unlink, history, registry
  <1>15. ASSUME NEW p \in Daemons, Exit(p)
       PROVE  Locked'
    BY <1>15, VanishLocked, <1>a DEF Exit, FailStart, history
  <1>16. ASSUME NEW p \in Daemons, Kill(p)
       PROVE  Locked'
    BY <1>16, VanishLocked, <1>a DEF Kill, FailStart, history
  <1>17. ASSUME NEW c \in Clients, Connect(c)
       PROVE  Locked'
    BY <1>17, LockedFrame, <1>a, <1>e DEF Connect, history, registry, Conns
  <1>18. ASSUME NEW c \in Clients, Accept(c)
       PROVE  Locked'
    BY <1>18, LockedFrame, <1>a, <1>e DEF Accept, history, registry, Free, Conns
  <1>19. ASSUME NEW c \in Clients, Hangup(c)
       PROVE  Locked'
    BY <1>19, LockedFrame, <1>a, <1>e DEF Hangup, history, registry, Free
  <1>20. ASSUME NEW c \in Clients, NEW l \in Logs, NEW s \in Shapes, AskCreate(c, l, s)
       PROVE  Locked'
    BY <1>20, LockedFrame, <1>a, <1>e DEF AskCreate, history, Conns
  <1>21. ASSUME NEW c \in Clients, NEW l \in Logs, AskAppend(c, l)
       PROVE  Locked'
    BY <1>21, LockedFrame, <1>a, <1>e DEF AskAppend, history, registry, Conns
  <1>22. ASSUME NEW c \in Clients, Record(c)
       PROVE  Locked'
    <2> DEFINE q == client[c].at
                l == client[c].log
                v == disk[l].records + 1
    <2>1. q \in Daemons /\ l \in Logs /\ reg[q][l].at = "open" /\ holder[l] = q
      BY <1>22 DEF Record, Control, Connecting, Locked
    <2>2. reg[q][l].version = disk[l].records /\ disk[l].records \in Nat
      BY <2>1, <1>c, DaemonAssumption DEF Locked, Directories, Versions
    <2>3. /\ reg' = [reg EXCEPT ![q][l].version = v]
          /\ disk' = [disk EXCEPT ![l].records = v]
          /\ client' = [client EXCEPT ![c].req = "recorded", ![c].version = v]
      BY <1>22, <2>2 DEF Record
    <2>4. \A p \in Daemons, k \in Logs :
             /\ p # q \/ k # l => reg'[p][k] = reg[p][k]
             /\ reg'[p][k].at = reg[p][k].at
      BY <2>1, <2>3, <1>b DEF Entries
    <2>5. reg'[q][l].version = v
      BY <2>1, <2>3, <1>b DEF Entries
    <2>6. disk'[l].records = v /\ \A k \in Logs \ {l} : disk'[k] = disk[k]
      BY <2>1, <2>3, <1>c DEF Directories
    <2>7. /\ client'[c].req = "recorded" /\ client'[c].version = v
          /\ client'[c].at = q /\ client'[c].log = l
          /\ \A d \in Clients \ {c} : client'[d] = client[d]
      BY <2>3, <1>e DEF Conns
    <2>8. UNCHANGED <<holder, acks>>
      BY <1>22 DEF Record, history
    <2>9. \A a \in acks : a[1] \in Logs /\ a[2] \in Nat /\ a[2] <= disk[a[1]].records
      BY <1>a, DaemonAssumption DEF Shaped, Locked
    <2>10. v \in Nat /\ v >= 1 /\ \A a \in acks : a[1] = l => a[2] # v /\ a[2] <= v
      BY <2>2, <2>9
    <2> HIDE DEF q, l, v
    <2>11. \A p \in Daemons, k \in Logs :
              /\ reg'[p][k].at = "open" <=> holder'[k] = p
              /\ reg'[p][k].at = "open" => reg'[p][k].version = disk'[k].records
      BY <2>1, <2>4, <2>5, <2>6, <2>8 DEF Locked
    <2>12. \A a \in acks' : a[2] <= disk'[a[1]].records
      BY <2>6, <2>8, <2>9, <2>10
    <2>13. ASSUME NEW d \in Clients, client'[d].req = "recorded"
           PROVE  /\ holder'[client'[d].log] = client'[d].at
                  /\ client'[d].version \in 1..disk'[client'[d].log].records
                  /\ \A a \in acks' : a[1] = client'[d].log /\ a[2] = client'[d].version
                                         => a[3] = client'[d].at
      <3>1. CASE d = c
        BY <3>1, <2>1, <2>6, <2>7, <2>8, <2>10
      <3>2. CASE d # c
        <4>1. client'[d] = client[d] /\ client[d].req = "recorded" /\ client[d].log \in Logs
          BY <3>2, <2>7, <2>13, <1>a DEF Connecting
        <4>2. client[d].version \in 1..disk[client[d].log].records
          BY <4>1 DEF Locked
        <4>3. client[d].version \in 1..disk'[client[d].log].records
          BY <4>1, <4>2, <2>2, <2>6 DEF v
        <4>. QED
          BY <4>1, <4>3, <2>8 DEF Locked
      <3>. QED
        BY <3>1, <3>2
    <2>. QED
      BY <2>8, <2>11, <2>12, <2>13 DEF Locked
  <1>23. ASSUME NEW c \in Clients, Acknowledge(c)
       PROVE  Locked'
    <2>1. /\ client[c].req = "recorded" /\ client[c].at \in Daemons /\ client[c].log \in Logs
          /\ UNCHANGED <<holder, reg, disk>>
      BY <1>23, <1>a DEF Acknowledge, Connecting, registry
    <2>2. \A d \in Clients : client'[d].req = "recorded" => client'[d] = client[d]
      BY <1>23, AnsweredEffect DEF Acknowledge
    <2>3. \A a \in acks' : a \in acks \/ a = <<client[c].log, client[c].version, client[c].at>>
      BY <1>23 DEF Acknowledge
    <2>4. \A d \in Clients : client[d].req = "recorded" /\ client[d].log = client[c].log
                                 => client[d].at = client[c].at
      BY <2>1 DEF Locked
    <2>5. \A a \in acks' : a[2] <= disk'[a[1]].records
      BY <2>1, <2>3 DEF Locked
    <2>6. \A a, b \in acks' : a[1] = b[1] /\ a[2] = b[2] => a[3] = b[3]
      BY <2>1, <2>3 DEF Locked
    <2>7. ASSUME NEW d \in Clients, client'[d].req = "recorded",
                 NEW a \in acks', a[1] = client[d].log, a[2] = client[d].version
          PROVE  a[3] = client[d].at
      BY <2>2, <2>3, <2>4, <2>7 DEF Locked
    <2>. QED
      BY <2>1, <2>2, <2>5, <2>6, <2>7 DEF Locked
  <1>24. ASSUME NEW c \in Clients, RefuseAppend(c)
       PROVE  Locked'
    BY <1>24, LockedFrame, AnsweredEffect, <1>a DEF RefuseAppend, registry, history
  <1>25. CASE PowerCut
    <2>1. \A a \in acks : a[1] \in Logs /\ disk[a[1]].records > 0
      BY <1>a, <1>c, DaemonAssumption DEF Shaped, Locked, Directories, Versions
    <2>2. \A l \in Logs : disk[l].records > 0 =>
             Survivors(l) = {disk[l], [disk[l] EXCEPT !.kind = "none"]}
      BY DEF Survivors, Flushed
    <2>3. \A l \in Logs : [disk[l] EXCEPT !.kind = "none"].records = disk[l].records
      BY <1>c DEF Directories
    <2>4. \A a \in acks : disk'[a[1]].records = disk[a[1]].records
      BY <1>25, <2>1, <2>2, <2>3 DEF PowerCut
    <2>. QED
      BY <1>25, <2>4, VanishLocked, <1>a DEF PowerCut
  <1>. QED
    BY <1>1, <1>2, <1>3, <1>4, <1>5, <1>6, <1>7, <1>8, <1>9, <1>10, <1>11, <1>12, <1>13,
       <1>14, <1>15, <1>16, <1>17, <1>18, <1>19, <1>20, <1>21, <1>22, <1>23, <1>24, <1>25, Wished
    DEF Next, Core, Start, Create, Shutdown, Reply

-----------------------------------------------------------------------------
\* An acknowledgement adds one version: there is a greatest one again.
LEMMA GreatestNext ==
    ASSUME Shaped, Control, Locked, Greatest, Next
    PROVE  Greatest'
  <1>1. CASE UNCHANGED acks
    BY <1>1 DEF Greatest, AckedVersions
  <1>2. ASSUME NEW c \in Clients, Acknowledge(c)
        PROVE  Greatest'
    <2> DEFINE a == <<client[c].log, client[c].version, client[c].at>>
    <2>1. acks' = acks \cup {a} /\ a[1] = client[c].log /\ a[2] = client[c].version
      BY <1>2 DEF Acknowledge
    <2>2. \A l \in Logs : AckedVersions(l)' = IF l = client[c].log
             THEN AckedVersions(l) \cup {client[c].version} ELSE AckedVersions(l)
      BY <2>1 DEF AckedVersions
    <2>3. client[c].version \in Int
      BY <1>2 DEF Acknowledge, Locked
    <2>4. \A l \in Logs : AckedVersions(l) \subseteq Int
      BY DEF AckedVersions, Shaped
    <2>5. ASSUME NEW l \in Logs, AckedVersions(l)' # {}
          PROVE  \E v \in AckedVersions(l)' : \A w \in AckedVersions(l)' : w <= v
      <3>1. CASE l # client[c].log
        BY <2>2, <2>5, <3>1 DEF Greatest
      <3>2. CASE l = client[c].log /\ AckedVersions(l) = {}
        BY <2>2, <2>3, <3>2
      <3>3. CASE l = client[c].log /\ AckedVersions(l) # {}
        <4>1. PICK v \in AckedVersions(l) : \A w \in AckedVersions(l) : w <= v
          BY <3>3 DEF Greatest
        <4>. QED
          BY <2>2, <2>3, <2>4, <3>3, <4>1
      <3>. QED
        BY <3>1, <3>2, <3>3
    <2>. QED
      BY <2>5 DEF Greatest
  <1>3. ASSUME NEW p \in Daemons,
               \/ Bind(p) \/ Start(p) \/ StartFails(p)
               \/ Create(p) \/ RememberFails(p) \/ Core(p)
               \/ Sigterm(p) \/ Shutdown(p) \/ Kill(p)
        PROVE  UNCHANGED acks
    <2>1. CASE Bind(p) \/ Start(p) \/ StartFails(p) \/ RememberFails(p)
      BY <2>1 DEF Bind, Start, Discover, Reopen, Serve, StartFails, RememberFails, history
    <2>2. CASE Create(p) \/ Core(p)
      BY <2>2 DEF Create, RememberDir, RememberKind, Place, Core, Spawn, OpenLog, history
    <2>3. CASE Sigterm(p) \/ Shutdown(p) \/ Kill(p)
      BY <2>3 DEF Sigterm, Shutdown, Checkpoint, Unlink, Exit, Kill, history
    <2>. QED
      BY <1>3, <2>1, <2>2, <2>3
  <1>4. ASSUME NEW c \in Clients,
               \/ Connect(c) \/ Accept(c) \/ Hangup(c) \/ Reply(c)
               \/ \E w \in Wishes : AskCreate(c, w[1], w[2])
               \/ \E l \in Logs : AskAppend(c, l)
        PROVE  Greatest'
    <2>1. CASE Acknowledge(c)
      BY <2>1, <1>2
    <2>2. CASE Connect(c) \/ Accept(c) \/ Hangup(c) \/ Record(c) \/ RefuseAppend(c)
      BY <2>2, <1>1 DEF Connect, Accept, Hangup, Record, RefuseAppend, history
    <2>3. CASE \/ \E w \in Wishes : AskCreate(c, w[1], w[2])
               \/ \E l \in Logs : AskAppend(c, l)
      BY <2>3, <1>1 DEF AskCreate, AskAppend, history
    <2>. QED
      BY <1>4, <2>1, <2>2, <2>3 DEF Reply
  <1>5. CASE PowerCut
    BY <1>5, <1>1 DEF PowerCut
  <1>. QED
    BY <1>1, <1>3, <1>4, <1>5 DEF Next

\* A checkpoint writes the header of its log, or waives what is owed of it.
LEMMA CheckpointEffect ==
    ASSUME Shaped, NEW p \in Daemons, NEW l \in Logs, Checkpoint(p, l)
    PROVE  /\ \A q \in Daemons : owed'[q].logs = owed[q].logs
           /\ \A q \in Daemons, k \in Logs :
                 q # p \/ k # l => owed'[q].upto[k] = owed[q].upto[k]
           /\ \/ /\ reg[p][l].at = "open" /\ disk'[l].header = reg[p][l].version
                 /\ UNCHANGED owed
              \/ owed'[p].upto[l] = 0 /\ UNCHANGED disk
           /\ \A k \in Logs :
                 /\ disk'[k].records = disk[k].records
                 /\ disk'[k].dir = disk[k].dir /\ disk'[k].kind = disk[k].kind
                 /\ k # l => disk'[k] = disk[k]
  <1>1. owed \in [Daemons -> Owings] /\ owed[p] \in Owings /\ owed[p].upto \in [Logs -> Versions]
    BY DEF Shaped, Owings
  <1>2. disk \in [Logs -> Directories] /\ disk[l] \in Directories
    BY DEF Shaped
  <1>3. CASE /\ reg[p][l].at = "open" /\ UNCHANGED owed
             /\ disk' = [disk EXCEPT ![l].header = reg[p][l].version, ![l].headed = reg[p][l].shape]
    <2> DEFINE y == [disk[l] EXCEPT !.header = reg[p][l].version, !.headed = reg[p][l].shape]
    <2>1. /\ y.header = reg[p][l].version /\ y.records = disk[l].records
          /\ y.dir = disk[l].dir /\ y.kind = disk[l].kind
      BY <1>2 DEF Directories
    <2>2. disk' = [disk EXCEPT ![l] = y]
      BY <1>2, <1>3 DEF Directories
    <2> HIDE DEF y
    <2>. QED
      BY <1>2, <1>3, <2>1, <2>2
  <1>4. CASE owed' = [owed EXCEPT ![p].upto[l] = 0] /\ UNCHANGED disk
    BY <1>1, <1>4 DEF Owings
  <1>. QED
    BY <1>3, <1>4 DEF Checkpoint, Passed

-----------------------------------------------------------------------------
(* Logs are found again *)

\* A step that moves no log between the listing, the mutex and the registry.
LEMMA KeptFrame ==
    ASSUME Kept, UNCHANGED found,
           \A p \in Daemons :
               /\ owed'[p].logs = owed[p].logs
               /\ making'[p].step # "none" <=> making[p].step # "none"
               /\ making'[p].log = making[p].log
               /\ phase'[p] = "starting" <=> phase[p] = "starting"
               /\ Serves(p)' => Serves(p),
           \A p \in Daemons, l \in Logs : reg'[p][l].at = "absent" <=> reg[p][l].at = "absent",
           Shaped
    PROVE  Kept'
  <1>1. \A p \in Daemons : \A f \in found[p] : f[1] \in Logs
    BY DEF Shaped
  <1>2. \A p \in Daemons : owed[p].logs \subseteq Logs
    BY DEF Shaped, Owings
  <1>. QED
    BY <1>1, <1>2 DEF Kept, Registered, Listed, InMaking

\* A process that ends owes nothing.
LEMMA VanishKept ==
    ASSUME Kept, NEW gone \in SUBSET Daemons, Vanish(gone),
           \A p \in Daemons \ gone : phase'[p] = phase[p],
           \A p \in gone : phase'[p] \in {"off", "stopped", "dead"}
    PROVE  Kept'
  <1>1. \A p \in Daemons :
          /\ p \in gone => found'[p] = {} /\ owed'[p] = NothingOwed
          /\ p \notin gone => /\ making'[p] = making[p] /\ reg'[p] = reg[p]
                              /\ found'[p] = found[p] /\ owed'[p] = owed[p]
    BY DEF Vanish
  <1>2. NothingOwed.logs = {}
    BY DEF NothingOwed
  <1>3. \A p \in gone : phase'[p] # "starting" /\ ~Serves(p)'
    BY DEF Serves
  <1>. QED
    BY <1>1, <1>2, <1>3 DEF Kept, Registered, Listed, InMaking, Serves

\* A client's create that fails gives back the mutex and nothing else.
LEMMA UnmadeKept ==
    ASSUME Shaped, Control, Kept, NEW p \in Daemons, CreateFails(p), making[p].for # Nobody,
           making[p].step # "none"
    PROVE  Kept'
  <1>1. Serves(p) /\ phase[p] # "starting"
    BY DEF Control, Creating, Serves
  <1>2. /\ making'[p] = NotMaking /\ \A q \in Daemons \ {p} : making'[q] = making[q]
        /\ UNCHANGED <<phase, reg, found, owed>>
    BY DEF CreateFails, Shaped
  <1>3. NotMaking.step = "none"
    BY DEF NotMaking
  <1>. QED
    BY <1>1, <1>2, <1>3 DEF Kept, Registered, Listed, InMaking, Serves

\* What a process owes stays within its reach.
LEMMA KeptNext ==
    ASSUME Shaped, Control, Kept, Next
    PROVE  Kept'
  <1>a. Shaped /\ Connecting /\ Creating
    BY DEF Control
  <1>b. reg \in [Daemons -> [Logs -> Entries]]
    BY DEF Shaped
  <1>c. disk \in [Logs -> Directories]
    BY DEF Shaped
  <1>d. making \in [Daemons -> Makings]
    BY DEF Shaped
  <1>e. client \in [Clients -> Conns]
    BY DEF Shaped
  <1>f. phase \in [Daemons -> Phases]
    BY DEF Shaped
  <1>g. owed \in [Daemons -> Owings]
    BY DEF Shaped
  <1>1. ASSUME NEW p \in Daemons, Bind(p)
       PROVE  Kept'
    BY <1>1, KeptFrame, <1>a, <1>f DEF Bind, Serves, Phases, registry
  <1>2. ASSUME NEW p \in Daemons, Discover(p)
       PROVE  Kept'
    <2>1. found[p] = {} /\ \A l \in Logs : reg[p][l].at = "absent"
      BY <1>2, <1>a DEF Discover, Kept, Creating
    <2>2. making[p].step = "none"
      BY <1>2, <1>a DEF Discover, Creating, Serves
    <2>3. /\ found'[p] = {<<l, ShapeOnDisk(l)>> : l \in {k \in Logs : disk[k].dir}}
          /\ \A q \in Daemons \ {p} : found'[q] = found[q]
      BY <1>2, <1>a DEF Discover, Shaped
    <2>4. /\ owed'[p].logs = {l \in Logs : told[l] # {} /\ disk[l].dir}
          /\ \A q \in Daemons \ {p} : owed'[q] = owed[q]
      BY <1>2, <1>g DEF Discover, Owings
    <2>5. /\ phase'[p] = "starting" /\ \A q \in Daemons \ {p} : phase'[q] = phase[q]
          /\ UNCHANGED <<making, reg>>
      BY <1>2, <1>f DEF Discover
    <2>6. \A l \in owed'[p].logs : \E f \in found'[p] : f[1] = l
      <3>1. ASSUME NEW l \in owed'[p].logs
            PROVE  <<l, ShapeOnDisk(l)>> \in found'[p]
        BY <2>3, <2>4
      <3>2. \A l : <<l, ShapeOnDisk(l)>>[1] = l
        OBVIOUS
      <3>. QED
        BY <3>1, <3>2
    <2>7. \A f, g \in found'[p] : f[1] = g[1] => f = g
      BY <2>3
    <2>8. \A f \in found'[p] : f[1] \in Logs
      BY <2>3
    <2>9. ASSUME NEW q \in Daemons
          PROVE  /\ found'[q] # {} => phase'[q] = "starting"
                 /\ \A f, g \in found'[q] : f[1] = g[1] => f = g
                 /\ \A f \in found'[q] : reg'[q][f[1]].at = "absent" /\ ~InMaking(q, f[1])'
                 /\ phase'[q] = "starting" => \A l \in owed'[q].logs :
                        l \in Registered(q)' \/ Listed(q, l)' \/ InMaking(q, l)'
                 /\ Serves(q)' => owed'[q].logs \subseteq Registered(q)'
      <3>1. CASE q = p
        BY <3>1, <2>1, <2>2, <2>5, <2>6, <2>7, <2>8 DEF InMaking, Listed, Serves
      <3>2. CASE q # p
        BY <3>2, <2>3, <2>4, <2>5 DEF Kept, InMaking, Listed, Serves, Registered
      <3>. QED
        BY <3>1, <3>2
    <2>. QED
      BY <2>9 DEF Kept
  <1>3. ASSUME NEW p \in Daemons, Reopen(p)
       PROVE  Kept'
    <2>1. CASE FailStart(p)
      BY <1>3, <2>1, VanishKept, <1>f DEF FailStart
    <2>2. CASE ~FailStart(p)
      <3>1. PICK f \in found[p] :
               /\ found' = [found EXCEPT ![p] = found[p] \ {f}]
               /\ making' = [making EXCEPT ![p] =
                      [log |-> f[1], shape |-> f[2], for |-> Nobody, step |-> "dir"]]
        BY <1>3, <2>2 DEF Reopen
      <3>2. /\ found'[p] = found[p] \ {f} /\ making'[p].step = "dir" /\ making'[p].log = f[1]
            /\ \A q \in Daemons \ {p} : found'[q] = found[q] /\ making'[q] = making[q]
        BY <3>1, <1>a, <1>d DEF Shaped
      <3>3. UNCHANGED <<phase, reg, owed>> /\ phase[p] = "starting" /\ making[p].step = "none"
        BY <1>3, <2>2, <1>a DEF Reopen, MutexFree, NotMaking
      <3>. QED
        BY <3>1, <3>2, <3>3 DEF Kept, Registered, Listed, InMaking, Serves
    <2>. QED
      BY <2>1, <2>2
  <1>4. ASSUME NEW p \in Daemons, Serve(p)
       PROVE  Kept'
    <2>1. found[p] = {} /\ making[p].step = "none" /\ phase[p] = "starting"
      BY <1>4 DEF Serve, Serving, MutexFree, NotMaking
    <2>2. /\ phase'[p] = "serving" /\ \A q \in Daemons \ {p} : phase'[q] = phase[q]
          /\ UNCHANGED <<making, reg, found, owed>>
      BY <1>4, <1>f DEF Serve, registry
    <2>3. owed[p].logs \subseteq Registered(p)
      BY <2>1 DEF Kept, Listed, InMaking
    <2>. QED
      BY <2>1, <2>2, <2>3 DEF Kept, Registered, Listed, InMaking, Serves
  <1>5. ASSUME NEW p \in Daemons, StartFails(p)
       PROVE  Kept'
    BY <1>5, VanishKept, <1>f DEF StartFails, FailStart
  <1>6. ASSUME NEW p \in Daemons, RememberDir(p)
       PROVE  Kept'
    BY <1>6, KeptFrame, <1>a, <1>f, <1>d DEF RememberDir, Serves, Phases, Makings
  <1>7. ASSUME NEW p \in Daemons, RememberKind(p)
       PROVE  Kept'
    BY <1>7, KeptFrame, <1>a, <1>f, <1>d DEF RememberKind, Serves, Phases, Makings
  <1>8. ASSUME NEW p \in Daemons, RememberFails(p)
       PROVE  Kept'
    <2>1. CASE making[p].for = Nobody
      BY <1>8, <2>1, VanishKept, <1>f DEF RememberFails, CreateFails, FailStart
    <2>2. CASE making[p].for # Nobody
      BY <1>8, <2>2, UnmadeKept DEF RememberFails
    <2>. QED
      BY <2>1, <2>2
  <1>9. ASSUME NEW p \in Daemons, Place(p)
       PROVE  Kept'
    <2>1. CASE CreateFails(p) /\ making[p].for = Nobody
      BY <1>9, <2>1, VanishKept, <1>f DEF CreateFails, FailStart
    <2>2. CASE CreateFails(p) /\ making[p].for # Nobody
      BY <1>9, <2>2, UnmadeKept DEF Place
    <2>3. CASE ~CreateFails(p)
      <3>1. /\ making[p].log \in Logs /\ making'[p].step = "none" /\ making[p].step # "none"
            /\ \A q \in Daemons \ {p} : making'[q] = making[q]
            /\ reg'[p][making[p].log].at # "absent"
            /\ \A q \in Daemons, k \in Logs :
                  q # p \/ k # making[p].log => reg'[q][k] = reg[q][k]
        <4>1. NotMaking.step = "none" /\ making[p].step = "place"
          BY <1>9 DEF NotMaking, Place
        <4>. QED
          BY <1>9, <2>3, <4>1, PlaceEffect
      <3>2. UNCHANGED <<phase, found, owed>>
        BY <1>9, <2>3 DEF Place
      <3>3. \A q \in Daemons : \A f \in found[q] : f[1] \in Logs
        BY DEF Shaped
      <3>4. \A q \in Daemons : owed[q].logs \subseteq Logs
        BY <1>g DEF Owings
      <3>5. ASSUME NEW q \in Daemons
            PROVE  /\ \A f \in found[q] : reg'[q][f[1]].at = "absent" /\ ~InMaking(q, f[1])'
                   /\ \A l \in Logs : l \in Registered(q) \/ InMaking(q, l) =>
                                         l \in Registered(q)' \/ InMaking(q, l)'
                   /\ \A l \in Logs : l \in Registered(q) => l \in Registered(q)'
        BY <3>1, <3>2, <3>3 DEF Kept, Registered, InMaking
      <3>. QED
        BY <3>2, <3>4, <3>5 DEF Kept, Listed, Serves
    <2>. QED
      BY <2>1, <2>2, <2>3
  <1>10. ASSUME NEW p \in Daemons, NEW l \in Logs, Spawn(p, l)
       PROVE  Kept'
    BY <1>10, KeptFrame, <1>a, <1>f, <1>b DEF Spawn, Serves, Phases, Entries
  <1>11. ASSUME NEW p \in Daemons, NEW l \in Logs, OpenLog(p, l)
       PROVE  Kept'
    <2>1. reg[p][l].at = "spawned" /\ UNCHANGED <<phase, making, found, owed>>
      BY <1>11 DEF OpenLog
    <2>2. \A q \in Daemons, k \in Logs : reg'[q][k].at = "absent" <=> reg[q][k].at = "absent"
      BY <1>11, <2>1, OpenEffect
    <2>. QED
      BY <2>1, <2>2, KeptFrame, <1>a DEF Serves
  <1>12. ASSUME NEW p \in Daemons, Sigterm(p)
       PROVE  Kept'
    BY <1>12, KeptFrame, <1>a, <1>f, <1>g DEF Sigterm, Serves, Phases, Owings
  <1>13. ASSUME NEW p \in Daemons, NEW l \in Logs, Checkpoint(p, l)
       PROVE  Kept'
    <2>1. UNCHANGED <<phase, making, reg, found>>
      BY <1>13 DEF Checkpoint
    <2>2. \A q \in Daemons : owed'[q].logs = owed[q].logs
      BY <1>13, CheckpointEffect
    <2>. QED
      BY <2>1, <2>2, KeptFrame, <1>a DEF Serves
  <1>14. ASSUME NEW p \in Daemons, Unlink(p)
       PROVE  Kept'
    BY <1>14, KeptFrame, <1>a, <1>f DEF Unlink, Serves, Phases, registry
  <1>15. ASSUME NEW p \in Daemons, Exit(p)
       PROVE  Kept'
    BY <1>15, VanishKept, <1>f DEF Exit, FailStart
  <1>16. ASSUME NEW p \in Daemons, Kill(p)
       PROVE  Kept'
    BY <1>16, VanishKept, <1>f DEF Kill, FailStart
  <1>17. ASSUME NEW c \in Clients, Connect(c)
       PROVE  Kept'
    BY <1>17, KeptFrame, <1>a, <1>f DEF Connect, Serves, Phases, registry
  <1>18. ASSUME NEW c \in Clients, Accept(c)
       PROVE  Kept'
    BY <1>18, KeptFrame, <1>a, <1>f DEF Accept, Serves, Phases, registry
  <1>19. ASSUME NEW c \in Clients, Hangup(c)
       PROVE  Kept'
    BY <1>19, KeptFrame, <1>a, <1>f DEF Hangup, Serves, Phases, registry
  <1>20. ASSUME NEW c \in Clients, NEW l \in Logs, NEW s \in Shapes, AskCreate(c, l, s)
       PROVE  Kept'
    <2> DEFINE p == client[c].at
    <2>1. p \in Daemons /\ Serves(p) /\ UNCHANGED <<phase, reg, found, owed>>
      BY <1>20, <1>a DEF AskCreate, Connecting
    <2>2. \A q \in Daemons : q # p => making'[q] = making[q]
      BY <1>20, <1>d DEF AskCreate
    <2>3. found[p] = {}
      BY <2>1 DEF Kept, Serves
    <2>4. phase[p] # "starting"
      BY <2>1 DEF Serves
    <2> HIDE DEF p
    <2>. QED
      BY <2>1, <2>2, <2>3, <2>4 DEF Kept, Registered, Listed, InMaking, Serves
  <1>21. ASSUME NEW c \in Clients, NEW l \in Logs, AskAppend(c, l)
       PROVE  Kept'
    BY <1>21, KeptFrame, <1>a, <1>f DEF AskAppend, Serves, Phases, registry
  <1>22. ASSUME NEW c \in Clients, Record(c)
       PROVE  Kept'
    BY <1>22, KeptFrame, <1>a, <1>f, <1>b DEF Record, Serves, Phases, Entries
  <1>23. ASSUME NEW c \in Clients, Acknowledge(c)
       PROVE  Kept'
    BY <1>23, KeptFrame, <1>a, <1>f DEF Acknowledge, Serves, Phases, registry
  <1>24. ASSUME NEW c \in Clients, RefuseAppend(c)
       PROVE  Kept'
    BY <1>24, KeptFrame, <1>a, <1>f DEF RefuseAppend, Serves, Phases, registry
  <1>25. CASE PowerCut
    BY <1>25, VanishKept, <1>f DEF PowerCut, Alive, Phases
  <1>. QED
    BY <1>1, <1>2, <1>3, <1>4, <1>5, <1>6, <1>7, <1>8, <1>9, <1>10, <1>11, <1>12, <1>13,
       <1>14, <1>15, <1>16, <1>17, <1>18, <1>19, <1>20, <1>21, <1>22, <1>23, <1>24, <1>25, Wished
    DEF Next, Core, Start, Create, Shutdown, Reply

-----------------------------------------------------------------------------
(* A clean stop covers what was acknowledged *)

\* A step that writes no header, records nothing and stops nobody.
LEMMA CoveredFrame ==
    ASSUME Covered, UNCHANGED <<owed, todo>>,
           \A p \in Daemons :
               /\ phase'[p] = "unlinked" => phase[p] = "unlinked"
               /\ phase'[p] \in {"stopping", "unlinked"} => phase[p] \in {"stopping", "unlinked"},
           \A l \in Logs : disk'[l].header = disk[l].header /\ disk'[l].records = disk[l].records
    PROVE  Covered'
  BY DEF Covered

\* A process that ends owes nothing.
LEMMA VanishCovered ==
    ASSUME Covered, NEW gone \in SUBSET Daemons, Vanish(gone),
           \A l \in Logs : disk'[l].header <= disk'[l].records,
           \A p \in Daemons \ gone : phase'[p] = phase[p] /\ UNCHANGED disk,
           \A p \in gone : phase'[p] \in {"off", "stopped", "dead"}
    PROVE  Covered'
  <1>1. \A p \in Daemons \ gone : owed'[p] = owed[p] /\ todo'[p] = todo[p]
    BY DEF Vanish
  <1>. QED
    BY <1>1 DEF Covered

\* What a stopping process owes is on disk and under a header before it leaves.
LEMMA CoveredNext ==
    ASSUME Shaped, Control, Locked, Greatest, Covered, Next
    PROVE  Covered'
  <1>a. Shaped /\ Connecting /\ Creating
    BY DEF Control
  <1>b. reg \in [Daemons -> [Logs -> Entries]]
    BY DEF Shaped
  <1>c. disk \in [Logs -> Directories]
    BY DEF Shaped
  <1>d. making \in [Daemons -> Makings]
    BY DEF Shaped
  <1>e. client \in [Clients -> Conns]
    BY DEF Shaped
  <1>f. phase \in [Daemons -> Phases]
    BY DEF Shaped
  <1>g. owed \in [Daemons -> Owings]
    BY DEF Shaped
  <1>1. ASSUME NEW p \in Daemons, Bind(p)
       PROVE  Covered'
    BY <1>1, CoveredFrame, <1>f DEF Bind, registry
  <1>2. ASSUME NEW p \in Daemons, Discover(p)
       PROVE  Covered'
    <2>1. \A q \in Daemons : owed'[q].upto = owed[q].upto
      BY <1>2, <1>g DEF Discover, Owings
    <2>2. /\ phase'[p] = "starting" /\ \A q \in Daemons \ {p} : phase'[q] = phase[q]
          /\ UNCHANGED <<todo, disk>>
      BY <1>2, <1>f DEF Discover
    <2>. QED
      BY <2>1, <2>2 DEF Covered
  <1>3. ASSUME NEW p \in Daemons, Reopen(p)
       PROVE  Covered'
    <2>1. CASE FailStart(p)
      BY <1>3, <2>1, VanishCovered, <1>f DEF Reopen, FailStart, Covered
    <2>2. CASE ~FailStart(p)
      BY <1>3, <2>2, CoveredFrame DEF Reopen
    <2>. QED
      BY <2>1, <2>2
  <1>4. ASSUME NEW p \in Daemons, Serve(p)
       PROVE  Covered'
    BY <1>4, CoveredFrame, <1>f DEF Serve, registry
  <1>5. ASSUME NEW p \in Daemons, StartFails(p)
       PROVE  Covered'
    BY <1>5, VanishCovered, <1>f DEF StartFails, FailStart, Covered
  <1>6. ASSUME NEW p \in Daemons, RememberDir(p)
       PROVE  Covered'
    BY <1>6, CoveredFrame, <1>f, <1>c DEF RememberDir, Directories
  <1>7. ASSUME NEW p \in Daemons, RememberKind(p)
       PROVE  Covered'
    BY <1>7, CoveredFrame, <1>f, <1>c DEF RememberKind, Directories
  <1>8. ASSUME NEW p \in Daemons, RememberFails(p)
       PROVE  Covered'
    <2>1. CASE making[p].for = Nobody
      BY <1>8, <2>1, VanishCovered, <1>f DEF RememberFails, CreateFails, FailStart, Covered
    <2>2. CASE making[p].for # Nobody
      BY <1>8, <2>2, CoveredFrame DEF RememberFails, CreateFails
    <2>. QED
      BY <2>1, <2>2
  <1>9. ASSUME NEW p \in Daemons, Place(p)
       PROVE  Covered'
    <2>1. CASE CreateFails(p) /\ making[p].for = Nobody
      BY <1>9, <2>1, VanishCovered, <1>f DEF Place, CreateFails, FailStart, Covered
    <2>2. CASE CreateFails(p) /\ making[p].for # Nobody
      BY <1>9, <2>2, CoveredFrame DEF Place, CreateFails
    <2>3. CASE ~CreateFails(p)
      BY <1>9, <2>3, CoveredFrame DEF Place
    <2>. QED
      BY <2>1, <2>2, <2>3
  <1>10. ASSUME NEW p \in Daemons, NEW l \in Logs, Spawn(p, l)
       PROVE  Covered'
    BY <1>10, CoveredFrame, <1>f DEF Spawn
  <1>11. ASSUME NEW p \in Daemons, NEW l \in Logs, OpenLog(p, l)
       PROVE  Covered'
    BY <1>11, CoveredFrame, <1>f DEF OpenLog
  <1>12. ASSUME NEW p \in Daemons, Sigterm(p)
       PROVE  Covered'
    <2>1. /\ phase'[p] = "stopping" /\ \A q \in Daemons \ {p} : phase'[q] = phase[q]
          /\ todo'[p] = Registered(p) /\ \A q \in Daemons \ {p} : todo'[q] = todo[q]
          /\ UNCHANGED disk
      BY <1>12, <1>a DEF Sigterm, Shaped
    <2> DEFINE upto == [l \in Logs |-> IF l \in Registered(p) THEN LastAcked(l) ELSE 0]
    <2>2. owed'[p].upto = upto /\ \A q \in Daemons \ {p} : owed'[q] = owed[q]
      BY <1>12, <1>g DEF Sigterm, Owings
    <2>3. \A l \in Logs : LastAcked(l) <= disk[l].records
      <3>1. ASSUME NEW l \in Logs, LastAcked(l) \in AckedVersions(l)
            PROVE  LastAcked(l) <= disk[l].records
        BY <3>1 DEF AckedVersions, Locked
      <3>2. \A l \in Logs : disk[l].records \in Nat
        BY <1>c, DaemonAssumption DEF Directories, Versions
      <3>. QED
        BY <3>1, <3>2, LastAckedBound, <1>a
    <2>4. \A l \in Logs : 0 <= disk[l].header
      BY <1>c, DaemonAssumption DEF Directories, Versions
    <2>5. \A l \in Logs : \/ upto[l] <= disk[l].header
                          \/ l \in todo'[p] /\ upto[l] <= disk[l].records
      BY <2>1, <2>3, <2>4
    <2> HIDE DEF upto
    <2>. QED
      BY <2>1, <2>2, <2>5 DEF Covered
  <1>13. ASSUME NEW p \in Daemons, NEW l \in Logs, Checkpoint(p, l)
       PROVE  Covered'
    <2>1. /\ phase[p] = "stopping" /\ UNCHANGED phase
          /\ todo'[p] = todo[p] \ {l} /\ \A q \in Daemons \ {p} : todo'[q] = todo[q]
      BY <1>13, <1>a DEF Checkpoint, Shaped
    <2>2. \A k \in Logs : disk[k].header \in Nat /\ disk[k].records \in Nat
      BY <1>c, DaemonAssumption DEF Directories, Versions
    <2>3. \A q \in Daemons, k \in Logs : owed[q].upto[k] \in Nat
      BY <1>g, DaemonAssumption DEF Owings, Versions
    <2>4. \A k \in Logs : /\ disk'[k].records = disk[k].records
                          /\ k # l => disk'[k] = disk[k]
      BY <1>13, CheckpointEffect, <1>a
    <2>5. CASE reg[p][l].at = "open" /\ disk'[l].header = reg[p][l].version /\ UNCHANGED owed
      <3>1. disk'[l].header = disk[l].records
        BY <2>5 DEF Locked
      <3>. QED
        BY <2>1, <2>2, <2>3, <2>4, <2>5, <3>1 DEF Covered
    <2>6. CASE owed'[p].upto[l] = 0 /\ UNCHANGED disk
      <3>1. \A q \in Daemons, k \in Logs : q # p \/ k # l => owed'[q].upto[k] = owed[q].upto[k]
        BY <1>13, CheckpointEffect, <1>a
      <3>. QED
        BY <2>1, <2>2, <2>6, <3>1 DEF Covered
    <2>. QED
      BY <1>13, CheckpointEffect, <1>a, <2>5, <2>6
  <1>14. ASSUME NEW p \in Daemons, Unlink(p)
       PROVE  Covered'
    <2>1. /\ phase[p] = "stopping" /\ todo[p] = {} /\ phase'[p] = "unlinked"
          /\ \A q \in Daemons \ {p} : phase'[q] = phase[q]
          /\ UNCHANGED <<todo, owed, disk>>
      BY <1>14, <1>f DEF Unlink, registry
    <2>. QED
      BY <2>1 DEF Covered
  <1>15. ASSUME NEW p \in Daemons, Exit(p)
       PROVE  Covered'
    BY <1>15, VanishCovered, <1>f DEF Exit, FailStart, Covered
  <1>16. ASSUME NEW p \in Daemons, Kill(p)
       PROVE  Covered'
    BY <1>16, VanishCovered, <1>f DEF Kill, FailStart, Covered
  <1>17. ASSUME NEW c \in Clients, Connect(c)
       PROVE  Covered'
    BY <1>17, CoveredFrame, <1>f DEF Connect, registry
  <1>18. ASSUME NEW c \in Clients, Accept(c)
       PROVE  Covered'
    BY <1>18, CoveredFrame, <1>f DEF Accept, registry
  <1>19. ASSUME NEW c \in Clients, Hangup(c)
       PROVE  Covered'
    BY <1>19, CoveredFrame, <1>f DEF Hangup, registry
  <1>20. ASSUME NEW c \in Clients, NEW l \in Logs, NEW s \in Shapes, AskCreate(c, l, s)
       PROVE  Covered'
    BY <1>20, CoveredFrame, <1>f DEF AskCreate
  <1>21. ASSUME NEW c \in Clients, NEW l \in Logs, AskAppend(c, l)
       PROVE  Covered'
    BY <1>21, CoveredFrame, <1>f DEF AskAppend, registry
  <1>22. ASSUME NEW c \in Clients, Record(c)
       PROVE  Covered'
    <2>1. client[c].at \in Daemons /\ client[c].log \in Logs /\ UNCHANGED <<phase, owed, todo>>
      BY <1>22, <1>a DEF Record, Connecting
    <2>2. reg[client[c].at][client[c].log].version = disk[client[c].log].records
      BY <1>22, <2>1 DEF Record, Locked
    <2>3. disk' = [disk EXCEPT ![client[c].log].records = disk[client[c].log].records + 1]
      BY <1>22, <2>2 DEF Record
    <2>4. \A k \in Logs :
             /\ disk[k].header \in Nat /\ disk[k].records \in Nat
             /\ disk'[k].header = disk[k].header
             /\ disk'[k].records \in {disk[k].records, disk[k].records + 1}
      BY <2>1, <2>3, <1>c, DaemonAssumption DEF Directories, Versions
    <2>5. \A q \in Daemons, k \in Logs : owed[q].upto[k] \in Nat
      BY <1>g, DaemonAssumption DEF Owings, Versions
    <2>. QED
      BY <2>1, <2>4, <2>5 DEF Covered
  <1>23. ASSUME NEW c \in Clients, Acknowledge(c)
       PROVE  Covered'
    BY <1>23, CoveredFrame, <1>f DEF Acknowledge, registry
  <1>24. ASSUME NEW c \in Clients, RefuseAppend(c)
       PROVE  Covered'
    BY <1>24, CoveredFrame, <1>f DEF RefuseAppend, registry
  <1>25. CASE PowerCut
    <2>1. \A l \in Logs : \A d \in Survivors(l) : d.header <= d.records
      <3> SUFFICES ASSUME NEW l \in Logs, NEW d \in Survivors(l)
                   PROVE  d.header <= d.records
        OBVIOUS
      <3>1. NoDir.header = 0 /\ NoDir.records = 0
        BY DEF NoDir
      <3>2. DEFINE e == [disk[l] EXCEPT !.kind = "none"]
      <3>3. e.header = disk[l].header /\ e.records = disk[l].records
        BY <1>c DEF Directories
      <3>4. d = disk[l] \/ d = e \/ d = NoDir
        BY DEF Survivors
      <3> HIDE DEF e
      <3>. QED
        BY <3>1, <3>3, <3>4 DEF Covered
    <2>2. \A l \in Logs : disk'[l].header <= disk'[l].records
      BY <1>25, <2>1 DEF PowerCut
    <2>3. Vanish(Daemons) /\ \A q \in Daemons : phase'[q] \in {"off", "stopped", "dead"}
      BY <1>25, <1>f DEF PowerCut, Alive, Phases
    <2>. QED
      BY <2>2, <2>3, VanishCovered
  <1>. QED
    BY <1>1, <1>2, <1>3, <1>4, <1>5, <1>6, <1>7, <1>8, <1>9, <1>10, <1>11, <1>12, <1>13,
       <1>14, <1>15, <1>16, <1>17, <1>18, <1>19, <1>20, <1>21, <1>22, <1>23, <1>24, <1>25, Wished
    DEF Next, Core, Start, Create, Shutdown, Reply

-----------------------------------------------------------------------------
(* A log keeps its shape *)

\* Only a live process registers, reopens or creates a log.
LEMMA OnlyTheLiving ==
    ASSUME Shaped, Creating, Kept, NEW p \in Daemons
    PROVE  /\ Registered(p) # {} => Alive(p)
           /\ making[p].step # "none" => Alive(p)
           /\ found[p] # {} => Alive(p)
           /\ phase[p] = "starting" \/ Serves(p) => Alive(p)
  BY DEF Shaped, Phases, Creating, Kept, Registered, Alive, Serves

\* A step that changes no shape, on disk or in a process, and tells nobody.
LEMMA KindedFrame ==
    ASSUME Kinded, UNCHANGED <<overlapped, told, blurred, found>>,
           \A p \in Daemons : /\ Alive(p)' => Alive(p)
                              /\ phase'[p] = "starting" => phase[p] = "starting"
                              /\ Serves(p)' => Serves(p),
           \A p \in Daemons, l \in Logs :
               /\ InMaking(p, l)' => /\ InMaking(p, l)
                                     /\ making'[p].step = making[p].step
                                     /\ making'[p].shape = making[p].shape
               /\ phase'[p] = "starting" /\ InMaking(p, l) => InMaking(p, l)'
               /\ l \in Registered(p)' <=> l \in Registered(p)
               /\ l \in Registered(p) => reg'[p][l].shape = reg[p][l].shape,
           \A l \in Logs : disk'[l].dir = disk[l].dir /\ disk'[l].kind = disk[l].kind
    PROVE  Kinded'
  <1> SUFFICES ASSUME ~overlapped'
               PROVE  Kinded'
    BY DEF Kinded
  <1>1. Alone'
    BY DEF Kinded, Alone
  <1>2. \A p \in Daemons, l \in Logs :
          /\ InMaking(p, l)' /\ making'[p].step \in {"kind", "place"} => disk'[l].dir
          /\ InMaking(p, l)' /\ making'[p].step = "place" => disk'[l].kind = making'[p].shape
          /\ l \in Registered(p)' => disk'[l].dir /\ disk'[l].kind = reg'[p][l].shape
    BY DEF Kinded
  <1>3. \A l \in Logs \ blurred' : told'[l] # {} =>
          /\ disk'[l].dir /\ told'[l] = {disk'[l].kind}
          /\ \A p \in Daemons :
                /\ phase'[p] = "starting" =>
                      l \in Registered(p)' \/ Listed(p, l)' \/ InMaking(p, l)'
                /\ Serves(p)' => l \in Registered(p)'
                /\ \A f \in found'[p] : f[1] = l => told'[l] = {f[2]}
                /\ InMaking(p, l)' => told'[l] = {making'[p].shape}
    BY DEF Kinded, Listed
  <1>. QED
    BY <1>1, <1>2, <1>3 DEF Kinded

\* The rows of a process that ends say nothing of any shape.
LEMMA VanishKinded ==
    ASSUME Shaped, Kinded, NEW gone \in SUBSET Daemons, Vanish(gone),
           UNCHANGED <<overlapped, told>>,
           \A p \in Daemons \ gone : phase'[p] = phase[p],
           \A p \in gone : phase'[p] \in {"off", "stopped", "dead"},
           blurred \subseteq blurred',
           \A l \in Logs \ blurred' : told[l] # {} /\ ~overlapped =>
               disk'[l].dir = disk[l].dir /\ disk'[l].kind = disk[l].kind,
           gone = Daemons \/ UNCHANGED disk
    PROVE  Kinded'
  <1> SUFFICES ASSUME ~overlapped'
               PROVE  Kinded'
    BY DEF Kinded
  <1>1. \A p \in gone : ~Alive(p)' /\ phase'[p] # "starting" /\ ~Serves(p)'
    BY DEF Alive, Serves
  <1>2. \A p \in gone : /\ found'[p] = {} /\ making'[p] = NotMaking
                        /\ reg'[p] = [l \in Logs |-> Absent]
    BY DEF Vanish
  <1>3. \A p \in Daemons \ gone : /\ found'[p] = found[p] /\ making'[p] = making[p]
                                  /\ reg'[p] = reg[p] /\ UNCHANGED disk
    BY DEF Vanish
  <1>4. NotMaking.step = "none" /\ Absent.at = "absent"
    BY DEF NotMaking, Absent
  <1>5. \A p \in gone, l \in Logs : ~InMaking(p, l)' /\ l \notin Registered(p)'
    BY <1>2, <1>4 DEF InMaking, Registered
  <1>6. Alone'
    BY <1>1 DEF Kinded, Alone, Alive
  <1>7. \A p \in Daemons, l \in Logs :
          /\ InMaking(p, l)' /\ making'[p].step \in {"kind", "place"} => disk'[l].dir
          /\ InMaking(p, l)' /\ making'[p].step = "place" => disk'[l].kind = making'[p].shape
          /\ l \in Registered(p)' => disk'[l].dir /\ disk'[l].kind = reg'[p][l].shape
    BY <1>3, <1>5 DEF Kinded, InMaking, Registered
  <1>8. ASSUME NEW l \in Logs \ blurred', told'[l] # {}, NEW p \in Daemons
        PROVE  /\ phase'[p] = "starting" =>
                     l \in Registered(p)' \/ Listed(p, l)' \/ InMaking(p, l)'
               /\ Serves(p)' => l \in Registered(p)'
               /\ \A f \in found'[p] : f[1] = l => told'[l] = {f[2]}
               /\ InMaking(p, l)' => told'[l] = {making'[p].shape}
    <2>1. CASE p \in gone
      BY <2>1, <1>1, <1>2, <1>5
    <2>2. CASE p \notin gone
      BY <2>2, <1>3, <1>8 DEF Kinded, InMaking, Registered, Listed, Serves
    <2>. QED
      BY <2>1, <2>2
  <1>9. \A l \in Logs \ blurred' : told'[l] # {} => disk'[l].dir /\ told'[l] = {disk'[l].kind}
    BY DEF Kinded
  <1>. QED
    BY <1>6, <1>7, <1>8, <1>9 DEF Kinded

\* A client's create that fails gives back the mutex and nothing else.
LEMMA UnmadeKinded ==
    ASSUME Shaped, Control, Kinded, NEW p \in Daemons, CreateFails(p), making[p].for # Nobody,
           making[p].step # "none", UNCHANGED <<disk, told, overlapped, blurred>>
    PROVE  Kinded'
  <1>1. Serves(p) /\ phase[p] # "starting"
    BY DEF Control, Creating, Serves
  <1>2. /\ making'[p] = NotMaking /\ \A q \in Daemons \ {p} : making'[q] = making[q]
        /\ UNCHANGED <<phase, reg, found>>
    BY DEF CreateFails, Shaped
  <1>3. NotMaking.step = "none"
    BY DEF NotMaking
  <1>. QED
    BY <1>1, <1>2, <1>3, KindedFrame DEF Registered, InMaking, Serves, Alive

\* A log has one shape, on disk and wherever it is known.
LEMMA KindedNext ==
    ASSUME Shaped, Control, Kept, Kinded, Next
    PROVE  Kinded'
  <1>a. Shaped /\ Connecting /\ Creating
    BY DEF Control
  <1>b. reg \in [Daemons -> [Logs -> Entries]]
    BY DEF Shaped
  <1>c. disk \in [Logs -> Directories]
    BY DEF Shaped
  <1>d. making \in [Daemons -> Makings]
    BY DEF Shaped
  <1>e. client \in [Clients -> Conns]
    BY DEF Shaped
  <1>f. phase \in [Daemons -> Phases]
    BY DEF Shaped
  <1>g. owed \in [Daemons -> Owings]
    BY DEF Shaped
  <1>1. ASSUME NEW p \in Daemons, Bind(p)
       PROVE  Kinded'
    <2>1. /\ phase[p] = "off" /\ phase'[p] = "bound"
          /\ \A q \in Daemons \ {p} : phase'[q] = phase[q]
          /\ UNCHANGED <<making, reg, found, disk, told, blurred>>
      BY <1>1, <1>f DEF Bind, registry
    <2>2. CASE overlapped'
      BY <2>2 DEF Kinded
    <2>3. CASE ~overlapped'
      <3>1. ~overlapped /\ \A q \in Daemons : ~Alive(q)
        BY <1>1, <2>3 DEF Bind
      <3>2. Alone'
        BY <2>1, <3>1 DEF Alone, Alive
      <3>3. \A q \in Daemons : /\ phase'[q] = "starting" <=> phase[q] = "starting"
                               /\ Serves(q)' <=> Serves(q)
        BY <2>1 DEF Serves
      <3>. QED
        BY <2>1, <3>1, <3>2, <3>3 DEF Kinded, InMaking, Registered, Listed
    <2>. QED
      BY <2>2, <2>3
  <1>2. ASSUME NEW p \in Daemons, Discover(p)
       PROVE  Kinded'
    <2> SUFFICES ASSUME ~overlapped'
                 PROVE  Kinded'
      BY DEF Kinded
    <2>1. /\ phase[p] = "bound" /\ phase'[p] = "starting"
          /\ \A q \in Daemons \ {p} : phase'[q] = phase[q]
          /\ UNCHANGED <<making, reg, disk, told, blurred, overlapped>>
      BY <1>2, <1>f DEF Discover, history
    <2>2. /\ found'[p] = {<<l, ShapeOnDisk(l)>> : l \in {k \in Logs : disk[k].dir}}
          /\ \A q \in Daemons \ {p} : found'[q] = found[q]
      BY <1>2, <1>a DEF Discover, Shaped
    <2>3. Alone'
      BY <2>1 DEF Kinded, Alone, Alive
    <2>4. making[p].step = "none"
      BY <2>1, <1>a DEF Creating, Serves
    <2>5. \A q \in Daemons, k \in Logs :
            /\ InMaking(q, k)' /\ making'[q].step \in {"kind", "place"} => disk'[k].dir
            /\ InMaking(q, k)' /\ making'[q].step = "place" => disk'[k].kind = making'[q].shape
            /\ k \in Registered(q)' => disk'[k].dir /\ disk'[k].kind = reg'[q][k].shape
      BY <2>1 DEF Kinded, InMaking, Registered
    <2>6. ASSUME NEW k \in Logs \ blurred', told'[k] # {}, NEW q \in Daemons
          PROVE  /\ disk'[k].dir /\ told'[k] = {disk'[k].kind}
                 /\ phase'[q] = "starting" =>
                       k \in Registered(q)' \/ Listed(q, k)' \/ InMaking(q, k)'
                 /\ Serves(q)' => k \in Registered(q)'
                 /\ \A f \in found'[q] : f[1] = k => told'[k] = {f[2]}
                 /\ InMaking(q, k)' => told'[k] = {making'[q].shape}
      <3>1. /\ disk[k].dir /\ told[k] = {disk[k].kind} /\ told[k] \subseteq Shapes
            /\ k \in Logs \ blurred
        BY <2>1, <2>6, <1>a DEF Kinded, Shaped
      <3>2. ShapeOnDisk(k) = disk[k].kind
        BY <3>1 DEF ShapeOnDisk, Shapes
      <3>3. CASE q = p
        <4>1. <<k, ShapeOnDisk(k)>> \in found'[p] /\ <<k, ShapeOnDisk(k)>>[1] = k
          BY <2>2, <3>1
        <4>2. \A f \in found'[p] : f[1] = k => f[2] = ShapeOnDisk(k)
          BY <2>2
        <4>. QED
          BY <2>1, <2>4, <3>1, <3>2, <3>3, <4>1, <4>2 DEF Listed, InMaking, Serves
      <3>4. CASE q # p
        <4>1. /\ phase[q] = "starting" =>
                    k \in Registered(q) \/ Listed(q, k) \/ InMaking(q, k)
              /\ Serves(q) => k \in Registered(q)
              /\ \A f \in found[q] : f[1] = k => told[k] = {f[2]}
              /\ InMaking(q, k) => told[k] = {making[q].shape}
          BY <2>1, <2>6, <3>1 DEF Kinded
        <4>2. found'[q] = found[q] /\ phase'[q] = phase[q]
          BY <2>1, <2>2, <3>4
        <4>. QED
          BY <2>1, <3>1, <4>1, <4>2 DEF Listed, InMaking, Registered, Serves
      <3>. QED
        BY <3>3, <3>4
    <2>. QED
      BY <2>3, <2>5, <2>6 DEF Kinded
  <1>3. ASSUME NEW p \in Daemons, Reopen(p)
       PROVE  Kinded'
    <2>1. CASE FailStart(p)
      BY <1>3, <2>1, VanishKinded, <1>a, <1>f DEF Reopen, FailStart, history
    <2>2. CASE ~FailStart(p) /\ ~overlapped'
      <3>1. PICK f \in found[p] :
               /\ found' = [found EXCEPT ![p] = found[p] \ {f}]
               /\ making' = [making EXCEPT ![p] =
                      [log |-> f[1], shape |-> f[2], for |-> Nobody, step |-> "dir"]]
        BY <1>3, <2>2 DEF Reopen
      <3>2. /\ found'[p] = found[p] \ {f}
            /\ making'[p].step = "dir" /\ making'[p].log = f[1] /\ making'[p].shape = f[2]
            /\ \A q \in Daemons \ {p} : found'[q] = found[q] /\ making'[q] = making[q]
        BY <3>1, <1>a, <1>d DEF Shaped
      <3>3. UNCHANGED <<phase, reg, disk, told, blurred, overlapped>> /\ phase[p] = "starting"
            /\ making[p].step = "none"
        BY <1>3, <2>2 DEF Reopen, MutexFree, NotMaking, history
      <3>4. Alone'
        BY <2>2, <3>3 DEF Kinded, Alone, Alive
      <3>5. \A q \in Daemons, k \in Logs :
               /\ InMaking(q, k)' /\ making'[q].step \in {"kind", "place"} => disk'[k].dir
               /\ InMaking(q, k)' /\ making'[q].step = "place" => disk'[k].kind = making'[q].shape
               /\ k \in Registered(q)' => disk'[k].dir /\ disk'[k].kind = reg'[q][k].shape
        BY <2>2, <3>2, <3>3 DEF Kinded, InMaking, Registered
      <3>6. ASSUME NEW k \in Logs \ blurred', told'[k] # {}, NEW q \in Daemons
          PROVE  /\ disk'[k].dir /\ told'[k] = {disk'[k].kind}
                 /\ phase'[q] = "starting" =>
                       k \in Registered(q)' \/ Listed(q, k)' \/ InMaking(q, k)'
                 /\ Serves(q)' => k \in Registered(q)'
                 /\ \A g \in found'[q] : g[1] = k => told'[k] = {g[2]}
                 /\ InMaking(q, k)' => told'[k] = {making'[q].shape}
        <4>1. CASE q = p
          BY <4>1, <2>2, <3>1, <3>2, <3>3, <3>6 DEF Kinded, Listed, InMaking, Registered, Serves
        <4>2. CASE q # p
          BY <4>2, <2>2, <3>2, <3>3, <3>6 DEF Kinded, Listed, InMaking, Registered, Serves
        <4>. QED
          BY <4>1, <4>2
      <3>. QED
        BY <3>4, <3>5, <3>6 DEF Kinded
    <2>3. CASE overlapped'
      BY <2>3 DEF Kinded
    <2>. QED
      BY <2>1, <2>2, <2>3
  <1>4. ASSUME NEW p \in Daemons, Serve(p)
       PROVE  Kinded'
    <2> SUFFICES ASSUME ~overlapped'
                 PROVE  Kinded'
      BY DEF Kinded
    <2>1. found[p] = {} /\ making[p].step = "none" /\ phase[p] = "starting"
      BY <1>4 DEF Serve, Serving, MutexFree, NotMaking
    <2>2. /\ phase'[p] = "serving" /\ \A q \in Daemons \ {p} : phase'[q] = phase[q]
          /\ UNCHANGED <<making, reg, found, disk, told, blurred, overlapped>>
      BY <1>4, <1>f DEF Serve, registry, history
    <2>3. Alone'
      BY <2>1, <2>2 DEF Kinded, Alone, Alive
    <2>4. \A q \in Daemons, k \in Logs :
               /\ InMaking(q, k)' /\ making'[q].step \in {"kind", "place"} => disk'[k].dir
               /\ InMaking(q, k)' /\ making'[q].step = "place" => disk'[k].kind = making'[q].shape
               /\ k \in Registered(q)' => disk'[k].dir /\ disk'[k].kind = reg'[q][k].shape
      BY <2>2 DEF Kinded, InMaking, Registered
    <2>5. ASSUME NEW k \in Logs \ blurred', told'[k] # {}, NEW q \in Daemons
          PROVE  /\ disk'[k].dir /\ told'[k] = {disk'[k].kind}
                 /\ phase'[q] = "starting" =>
                       k \in Registered(q)' \/ Listed(q, k)' \/ InMaking(q, k)'
                 /\ Serves(q)' => k \in Registered(q)'
                 /\ \A f \in found'[q] : f[1] = k => told'[k] = {f[2]}
                 /\ InMaking(q, k)' => told'[k] = {making'[q].shape}
      BY <2>1, <2>2, <2>5 DEF Kinded, Listed, InMaking, Registered, Serves
    <2>. QED
      BY <2>3, <2>4, <2>5 DEF Kinded
  <1>5. ASSUME NEW p \in Daemons, StartFails(p)
       PROVE  Kinded'
    BY <1>5, VanishKinded, <1>a, <1>f DEF StartFails, FailStart, history
  <1>6. ASSUME NEW p \in Daemons, RememberDir(p)
       PROVE  Kinded'
    <2> SUFFICES ASSUME ~overlapped'
                 PROVE  Kinded'
      BY DEF Kinded
    <2>1. making[p].step = "dir" /\ making[p].log \in Logs
      BY <1>6, <1>a DEF RememberDir, Creating
    <2>2. /\ making'[p].step = "kind" /\ making'[p].log = making[p].log
          /\ making'[p].shape = making[p].shape
          /\ \A q \in Daemons \ {p} : making'[q] = making[q]
      BY <1>6, <1>d DEF RememberDir, Makings
    <2>3. /\ disk'[making[p].log].dir
          /\ \A k \in Logs : disk'[k].kind = disk[k].kind /\ (disk[k].dir => disk'[k].dir)
      BY <1>6, <2>1, <1>c DEF RememberDir, Directories
    <2>4. UNCHANGED <<phase, reg, found, told, blurred, overlapped>>
      BY <1>6 DEF RememberDir, history
    <2>5. Alone'
      BY <2>4 DEF Kinded, Alone, Alive
    <2>6. \A q \in Daemons, k \in Logs :
               /\ InMaking(q, k)' /\ making'[q].step \in {"kind", "place"} => disk'[k].dir
               /\ InMaking(q, k)' /\ making'[q].step = "place" => disk'[k].kind = making'[q].shape
               /\ k \in Registered(q)' => disk'[k].dir /\ disk'[k].kind = reg'[q][k].shape
      BY <2>1, <2>2, <2>3, <2>4 DEF Kinded, InMaking, Registered
    <2>7. ASSUME NEW k \in Logs \ blurred', told'[k] # {}, NEW q \in Daemons
          PROVE  /\ disk'[k].dir /\ told'[k] = {disk'[k].kind}
                 /\ phase'[q] = "starting" =>
                       k \in Registered(q)' \/ Listed(q, k)' \/ InMaking(q, k)'
                 /\ Serves(q)' => k \in Registered(q)'
                 /\ \A f \in found'[q] : f[1] = k => told'[k] = {f[2]}
                 /\ InMaking(q, k)' => told'[k] = {making'[q].shape}
      BY <2>1, <2>2, <2>3, <2>4, <2>7 DEF Kinded, Listed, InMaking, Registered, Serves
    <2>. QED
      BY <2>5, <2>6, <2>7 DEF Kinded
  <1>7. ASSUME NEW p \in Daemons, RememberKind(p)
       PROVE  Kinded'
    <2> SUFFICES ASSUME ~overlapped'
                 PROVE  Kinded'
      BY DEF Kinded
    <2>1. /\ making[p].step = "kind" /\ making[p].log \in Logs
          /\ reg[p][making[p].log].at = "absent" /\ Alive(p)
      BY <1>7, <1>a, OnlyTheLiving DEF RememberKind, Creating
    <2>2. /\ making'[p].step = "place" /\ making'[p].log = making[p].log
          /\ making'[p].shape = making[p].shape
          /\ \A q \in Daemons \ {p} : making'[q] = making[q]
      BY <1>7, <1>d DEF RememberKind, Makings
    <2>3. /\ disk'[making[p].log].kind = making[p].shape
          /\ \A k \in Logs : disk'[k].dir = disk[k].dir /\ (k # making[p].log => disk'[k] = disk[k])
      BY <1>7, <2>1, <1>c DEF RememberKind, Directories
    <2>4. UNCHANGED <<phase, reg, found, told, blurred, overlapped>>
      BY <1>7 DEF RememberKind, history
    <2>5. Alone' /\ Alone
      BY <2>4 DEF Kinded, Alone, Alive
    <2>6. \A q \in Daemons \ {p}, k \in Logs : ~InMaking(q, k) /\ k \notin Registered(q)
      BY <2>1, <2>5, <1>a, OnlyTheLiving DEF Alone, InMaking
    <2>7. \A q \in Daemons, k \in Logs :
               /\ InMaking(q, k)' /\ making'[q].step \in {"kind", "place"} => disk'[k].dir
               /\ InMaking(q, k)' /\ making'[q].step = "place" => disk'[k].kind = making'[q].shape
               /\ k \in Registered(q)' => disk'[k].dir /\ disk'[k].kind = reg'[q][k].shape
      BY <2>1, <2>2, <2>3, <2>4, <2>6 DEF Kinded, InMaking, Registered
    <2>8. ASSUME NEW k \in Logs \ blurred', told'[k] # {}, NEW q \in Daemons
          PROVE  /\ disk'[k].dir /\ told'[k] = {disk'[k].kind}
                 /\ phase'[q] = "starting" =>
                       k \in Registered(q)' \/ Listed(q, k)' \/ InMaking(q, k)'
                 /\ Serves(q)' => k \in Registered(q)'
                 /\ \A f \in found'[q] : f[1] = k => told'[k] = {f[2]}
                 /\ InMaking(q, k)' => told'[k] = {making'[q].shape}
      <3>1. InMaking(p, making[p].log)
        BY <2>1 DEF InMaking
      <3>2. k = making[p].log => told[k] = {making[p].shape}
        BY <2>4, <2>8, <3>1 DEF Kinded
      <3>. QED
        BY <2>1, <2>2, <2>3, <2>4, <2>8, <3>2 DEF Kinded, Listed, InMaking, Registered, Serves
    <2>. QED
      BY <2>5, <2>7, <2>8 DEF Kinded
  <1>8. ASSUME NEW p \in Daemons, RememberFails(p)
       PROVE  Kinded'
    <2>1. CASE making[p].for = Nobody
      BY <1>8, <2>1, VanishKinded, <1>a, <1>f DEF RememberFails, CreateFails, FailStart, history
    <2>2. CASE making[p].for # Nobody
      BY <1>8, <2>2, UnmadeKinded DEF RememberFails, history
    <2>. QED
      BY <2>1, <2>2
  <1>9. ASSUME NEW p \in Daemons, Place(p)
       PROVE  Kinded'
    <2>1. CASE CreateFails(p) /\ making[p].for = Nobody
      <3>1. UNCHANGED told
        BY <1>9, <2>1 DEF Place
      <3>. QED
        BY <1>9, <2>1, <3>1, VanishKinded, <1>a, <1>f DEF Place, CreateFails, FailStart
    <2>2. CASE CreateFails(p) /\ making[p].for # Nobody
      <3>1. \/ UNCHANGED told
            \/ /\ reg' = [reg EXCEPT ![p][making[p].log] =
                      [Absent EXCEPT !.at = "queued", !.shape = making[p].shape]]
               /\ UNCHANGED reg
        BY <1>9, <2>2 DEF Place, CreateFails
      <3>2. UNCHANGED told
        <4>1. /\ making[p].log \in Logs /\ reg[p][making[p].log].at = "absent"
          BY <1>9, <1>a DEF Place, Creating
        <4>2. DEFINE e == [Absent EXCEPT !.at = "queued", !.shape = making[p].shape]
        <4>3. e.at = "queued"
          BY DEF Absent
        <4>4. [reg EXCEPT ![p][making[p].log] = e][p][making[p].log] = e
          BY <4>1, <1>b
        <4>. QED
          BY <3>1, <4>1, <4>3, <4>4
      <3>. QED
        BY <1>9, <2>2, <3>2, UnmadeKinded DEF Place
    <2>3. CASE ~CreateFails(p) /\ ~overlapped'
      <3> DEFINE l == making[p].log
      <3>1. /\ l \in Logs /\ making[p].step = "place" /\ Alive(p) /\ reg[p][l].at = "absent"
            /\ \/ phase[p] = "starting" /\ making[p].for = Nobody
               \/ Serves(p) /\ making[p].for \in Clients
        BY <1>9, <1>a, OnlyTheLiving DEF Place, Creating
      <3>2. /\ reg'[p][l].at = "queued" /\ reg'[p][l].shape = making[p].shape
            /\ \A q \in Daemons, k \in Logs : q # p \/ k # l => reg'[q][k] = reg[q][k]
            /\ making'[p].step = "none" /\ \A q \in Daemons \ {p} : making'[q] = making[q]
        <4>1. NotMaking.step = "none"
          BY DEF NotMaking
        <4>. QED
          BY <1>9, <2>3, <4>1, PlaceEffect
      <3>3. UNCHANGED <<phase, found, disk, blurred, overlapped>>
        BY <1>9, <2>3 DEF Place
      <3>4. /\ \A k \in Logs \ {l} : told'[k] = told[k]
            /\ told'[l] = told[l] \/ told'[l] = told[l] \cup {making[p].shape}
            /\ making[p].for = Nobody => told' = told
        BY <1>9, <2>3, <3>1, <1>a DEF Place, Shaped
      <3>5. Alone' /\ Alone
        BY <2>3, <3>3 DEF Kinded, Alone, Alive
      <3>6. \A q \in Daemons \ {p} :
               /\ found[q] = {} /\ phase[q] # "starting" /\ ~Serves(q)
               /\ \A k \in Logs : ~InMaking(q, k) /\ k \notin Registered(q)
        BY <3>1, <3>5, <1>a, OnlyTheLiving DEF Alone, InMaking
      <3>7. InMaking(p, l)
        BY <3>1 DEF InMaking
      <3>8. disk[l].dir /\ disk[l].kind = making[p].shape
        BY <2>3, <3>1, <3>3, <3>7 DEF Kinded
      <3>9. l \notin blurred /\ told[l] # {} => told[l] = {making[p].shape}
        BY <2>3, <3>1, <3>3, <3>7 DEF Kinded
      <3>10. \A f \in found[p] : f[1] # l
        BY <3>7 DEF Kept
      <3>11. l \in Registered(p)'
        BY <3>1, <3>2 DEF Registered
      <3>12. \A q \in Daemons, k \in Logs : k \in Registered(q) => k \in Registered(q)'
        BY <3>1, <3>2 DEF Registered
      <3>13. \A q \in Daemons, k \in Logs : ~InMaking(q, k)'
        BY <3>2, <3>6 DEF InMaking
      <3> HIDE DEF l
      <3>14. \A q \in Daemons, k \in Logs :
               /\ InMaking(q, k)' /\ making'[q].step \in {"kind", "place"} => disk'[k].dir
               /\ InMaking(q, k)' /\ making'[q].step = "place" => disk'[k].kind = making'[q].shape
               /\ k \in Registered(q)' => disk'[k].dir /\ disk'[k].kind = reg'[q][k].shape
        BY <2>3, <3>1, <3>2, <3>3, <3>8, <3>13 DEF Kinded, Registered
      <3>15. ASSUME NEW k \in Logs \ blurred', told'[k] # {}, NEW q \in Daemons
          PROVE  /\ disk'[k].dir /\ told'[k] = {disk'[k].kind}
                 /\ phase'[q] = "starting" =>
                       k \in Registered(q)' \/ Listed(q, k)' \/ InMaking(q, k)'
                 /\ Serves(q)' => k \in Registered(q)'
                 /\ \A f \in found'[q] : f[1] = k => told'[k] = {f[2]}
                 /\ InMaking(q, k)' => told'[k] = {making'[q].shape}
        <4>1. CASE k = l
          <5>1. told'[l] = {making[p].shape}
            BY <3>3, <3>4, <3>9, <3>15, <4>1
          <5>2. CASE q = p
            BY <3>3, <3>8, <3>10, <3>11, <3>13, <4>1, <5>1, <5>2
          <5>3. CASE q # p
            BY <3>3, <3>6, <3>8, <3>13, <4>1, <5>1, <5>3 DEF Serves
          <5>. QED
            BY <5>2, <5>3
        <4>2. CASE k # l
          <5>1. told[k] # {} /\ told'[k] = told[k] /\ k \in Logs \ blurred
            BY <3>3, <3>4, <3>15, <4>2
          <5>2. InMaking(q, k) => FALSE
            <6>1. CASE q = p
              BY <6>1, <4>2 DEF InMaking, l
            <6>2. CASE q # p
              BY <6>2, <3>6
            <6>. QED
              BY <6>1, <6>2
          <5>. QED
            BY <2>3, <3>3, <3>12, <3>13, <5>1, <5>2 DEF Kinded, Listed, Serves
        <4>. QED
          BY <4>1, <4>2
      <3>. QED
        BY <3>5, <3>14, <3>15 DEF Kinded
    <2>4. CASE overlapped'
      BY <2>4 DEF Kinded
    <2>. QED
      BY <2>1, <2>2, <2>3, <2>4
  <1>10. ASSUME NEW p \in Daemons, NEW l \in Logs, Spawn(p, l)
       PROVE  Kinded'
    BY <1>10, KindedFrame, <1>f, <1>b
       DEF Spawn, history, InMaking, Registered, Serves, Alive, Entries
  <1>11. ASSUME NEW p \in Daemons, NEW l \in Logs, OpenLog(p, l)
       PROVE  Kinded'
    <2>1. /\ reg[p][l].at = "spawned"
          /\ UNCHANGED <<phase, making, found, disk, told, overlapped, blurred>>
      BY <1>11 DEF OpenLog, history
    <2>2. \A q \in Daemons, k \in Logs : /\ reg'[q][k].at = "absent" <=> reg[q][k].at = "absent"
                                         /\ reg'[q][k].shape = reg[q][k].shape
      BY <1>11, <2>1, OpenEffect
    <2>. QED
      BY <2>1, <2>2, KindedFrame DEF InMaking, Registered, Serves, Alive
  <1>12. ASSUME NEW p \in Daemons, Sigterm(p)
       PROVE  Kinded'
    BY <1>12, KindedFrame, <1>f DEF Sigterm, history, InMaking, Registered, Serves, Alive
  <1>13. ASSUME NEW p \in Daemons, NEW l \in Logs, Checkpoint(p, l)
       PROVE  Kinded'
    <2>1. UNCHANGED <<phase, making, reg, found, told, overlapped, blurred>>
      BY <1>13 DEF Checkpoint, history
    <2>. QED
      BY <1>13, <2>1, CheckpointEffect, KindedFrame, <1>a DEF InMaking, Registered, Serves, Alive
  <1>14. ASSUME NEW p \in Daemons, Unlink(p)
       PROVE  Kinded'
    BY <1>14, KindedFrame, <1>f DEF Unlink, history, InMaking, Registered, Serves, Alive, registry
  <1>15. ASSUME NEW p \in Daemons, Exit(p)
       PROVE  Kinded'
    BY <1>15, VanishKinded, <1>a, <1>f DEF Exit, FailStart, history
  <1>16. ASSUME NEW p \in Daemons, Kill(p)
       PROVE  Kinded'
    BY <1>16, VanishKinded, <1>a, <1>f DEF Kill, FailStart, history
  <1>17. ASSUME NEW c \in Clients, Connect(c)
       PROVE  Kinded'
    BY <1>17, KindedFrame, <1>f DEF Connect, history, InMaking, Registered, Serves, Alive, registry
  <1>18. ASSUME NEW c \in Clients, Accept(c)
       PROVE  Kinded'
    BY <1>18, KindedFrame, <1>f DEF Accept, history, InMaking, Registered, Serves, Alive, registry
  <1>19. ASSUME NEW c \in Clients, Hangup(c)
       PROVE  Kinded'
    BY <1>19, KindedFrame, <1>f DEF Hangup, history, InMaking, Registered, Serves, Alive, registry
  <1>20. ASSUME NEW c \in Clients, NEW l \in Logs, NEW s \in Shapes, AskCreate(c, l, s)
       PROVE  Kinded'
    <2> SUFFICES ASSUME ~overlapped'
                 PROVE  Kinded'
      BY DEF Kinded
    <2> DEFINE p == client[c].at
    <2>1. /\ p \in Daemons /\ Serves(p) /\ making[p].step = "none"
          /\ UNCHANGED <<phase, reg, found, disk, blurred, overlapped>>
      BY <1>20, <1>a DEF AskCreate, Connecting, MutexFree, NotMaking
    <2>2. Alone' /\ Alone
      BY <2>1 DEF Kinded, Alone, Alive
    <2>3. \A q \in Daemons : q # p =>
             /\ found[q] = {} /\ phase[q] # "starting" /\ ~Serves(q)
             /\ \A k \in Logs : ~InMaking(q, k) /\ k \notin Registered(q)
      BY <2>1, <2>2, <1>a, OnlyTheLiving DEF Alone, InMaking
    <2>4. found[p] = {} /\ phase[p] # "starting"
      BY <2>1 DEF Kept, Serves
    <2>5. CASE reg[p][l].at # "absent"
      <3>1. /\ UNCHANGED making /\ \A k \in Logs \ {l} : told'[k] = told[k]
            /\ told'[l] = told[l] \/ told'[l] = told[l] \cup {reg[p][l].shape}
        BY <1>20, <2>5, <1>a DEF AskCreate, Shaped
      <3>2. l \in Registered(p)
        BY <2>5 DEF Registered
      <3>3. disk[l].dir /\ disk[l].kind = reg[p][l].shape
        BY <2>1, <3>2 DEF Kinded
      <3>4. l \notin blurred => told[l] = {} \/ told[l] = {disk[l].kind}
        BY <2>1 DEF Kinded
      <3>5. \A q \in Daemons, k \in Logs :
               /\ InMaking(q, k)' /\ making'[q].step \in {"kind", "place"} => disk'[k].dir
               /\ InMaking(q, k)' /\ making'[q].step = "place" => disk'[k].kind = making'[q].shape
               /\ k \in Registered(q)' => disk'[k].dir /\ disk'[k].kind = reg'[q][k].shape
        BY <2>1, <3>1 DEF Kinded, Registered, InMaking
      <3> HIDE DEF p
      <3>6. ASSUME NEW k \in Logs \ blurred', told'[k] # {}, NEW q \in Daemons
          PROVE  /\ disk'[k].dir /\ told'[k] = {disk'[k].kind}
                 /\ phase'[q] = "starting" =>
                       k \in Registered(q)' \/ Listed(q, k)' \/ InMaking(q, k)'
                 /\ Serves(q)' => k \in Registered(q)'
                 /\ \A f \in found'[q] : f[1] = k => told'[k] = {f[2]}
                 /\ InMaking(q, k)' => told'[k] = {making'[q].shape}
        <4>1. CASE k = l
          <5>1. told'[l] = {disk[l].kind}
            BY <2>1, <3>1, <3>3, <3>4, <3>6, <4>1
          <5>2. ~InMaking(q, l)'
            BY <2>1, <2>3, <3>1 DEF InMaking
          <5>3. Serves(q)' => l \in Registered(q)'
            BY <2>1, <2>3, <3>2 DEF Serves, Registered
          <5>4. found'[q] = {} /\ phase'[q] # "starting"
            BY <2>1, <2>3, <2>4
          <5>. QED
            BY <2>1, <3>3, <4>1, <5>1, <5>2, <5>3, <5>4
        <4>2. CASE k # l
          BY <2>1, <3>1, <3>6, <4>2 DEF Kinded, Registered, Listed, InMaking, Serves
        <4>. QED
          BY <4>1, <4>2
      <3>. QED
        BY <2>1, <2>2, <3>5, <3>6 DEF Kinded
    <2>6. CASE reg[p][l].at = "absent"
      <3>1. /\ making'[p].step = "dir" /\ making'[p].log = l /\ UNCHANGED told
            /\ \A q \in Daemons : q # p => making'[q] = making[q]
        BY <1>20, <2>1, <2>6, <1>d DEF AskCreate
      <3>2. l \notin blurred => told[l] = {}
        BY <2>1, <2>6 DEF Kinded, Registered
      <3> HIDE DEF p
      <3>3. \A q \in Daemons, k \in Logs :
               /\ InMaking(q, k)' /\ making'[q].step \in {"kind", "place"} => disk'[k].dir
               /\ InMaking(q, k)' /\ making'[q].step = "place" => disk'[k].kind = making'[q].shape
               /\ k \in Registered(q)' => disk'[k].dir /\ disk'[k].kind = reg'[q][k].shape
        BY <2>1, <2>3, <3>1 DEF Kinded, Registered, InMaking
      <3>4. ASSUME NEW k \in Logs \ blurred', told'[k] # {}, NEW q \in Daemons
          PROVE  /\ disk'[k].dir /\ told'[k] = {disk'[k].kind}
                 /\ phase'[q] = "starting" =>
                       k \in Registered(q)' \/ Listed(q, k)' \/ InMaking(q, k)'
                 /\ Serves(q)' => k \in Registered(q)'
                 /\ \A f \in found'[q] : f[1] = k => told'[k] = {f[2]}
                 /\ InMaking(q, k)' => told'[k] = {making'[q].shape}
        <4>1. k # l /\ k \in Logs \ blurred /\ told[k] # {}
          BY <2>1, <3>1, <3>2, <3>4
        <4>2. ~InMaking(q, k)'
          BY <2>3, <3>1, <4>1 DEF InMaking
        <4>3. found'[q] = {} /\ phase'[q] # "starting"
          BY <2>1, <2>3, <2>4
        <4>. QED
          BY <2>1, <3>1, <4>1, <4>2, <4>3 DEF Kinded, Registered, Serves
      <3>. QED
        BY <2>1, <2>2, <3>3, <3>4 DEF Kinded
    <2>. QED
      BY <2>5, <2>6
  <1>21. ASSUME NEW c \in Clients, NEW l \in Logs, AskAppend(c, l)
       PROVE  Kinded'
    BY <1>21, KindedFrame, <1>f
       DEF AskAppend, history, InMaking, Registered, Serves, Alive, registry
  <1>22. ASSUME NEW c \in Clients, Record(c)
       PROVE  Kinded'
    <2>1. /\ client[c].at \in Daemons /\ client[c].log \in Logs
          /\ UNCHANGED <<phase, making, found, told, overlapped, blurred>>
      BY <1>22, <1>a DEF Record, Connecting, history
    <2>2. \A v : /\ \A k \in Logs : /\ [disk EXCEPT ![client[c].log].records = v][k].dir = disk[k].dir
                                    /\ [disk EXCEPT ![client[c].log].records = v][k].kind = disk[k].kind
      BY <2>1, <1>c DEF Directories
    <2>3. \A k \in Logs : disk'[k].dir = disk[k].dir /\ disk'[k].kind = disk[k].kind
      BY <1>22, <2>2 DEF Record
    <2>4. \A q \in Daemons, k \in Logs : /\ reg'[q][k].at = reg[q][k].at
                                         /\ reg'[q][k].shape = reg[q][k].shape
      BY <1>22, <2>1, <1>b DEF Record, Entries
    <2>. QED
      BY <2>1, <2>3, <2>4, KindedFrame DEF InMaking, Registered, Serves, Alive
  <1>23. ASSUME NEW c \in Clients, Acknowledge(c)
       PROVE  Kinded'
    BY <1>23, KindedFrame, <1>f
       DEF Acknowledge, history, InMaking, Registered, Serves, Alive, registry
  <1>24. ASSUME NEW c \in Clients, RefuseAppend(c)
       PROVE  Kinded'
    BY <1>24, KindedFrame, <1>f
       DEF RefuseAppend, history, InMaking, Registered, Serves, Alive, registry
  <1>25. CASE PowerCut
    <2>1. /\ Vanish(Daemons) /\ blurred' = blurred \cup {l \in Logs : disk'[l].kind # disk[l].kind}
          /\ UNCHANGED <<told, overlapped>>
          /\ \A q \in Daemons : phase'[q] \in {"off", "stopped", "dead"}
      BY <1>25, <1>f DEF PowerCut, Alive, Phases
    <2>2. ASSUME NEW l \in Logs \ blurred', told[l] # {}, ~overlapped
          PROVE  disk'[l].dir = disk[l].dir /\ disk'[l].kind = disk[l].kind
      <3>1. l \in Logs \ blurred /\ disk'[l].kind = disk[l].kind
        BY <2>1, <2>2
      <3>2. disk[l].kind \in Shapes
        BY <2>2, <3>1, <1>a DEF Kinded, Shaped
      <3>3. NoDir.kind = "none" /\ "none" \notin Shapes
        BY DEF NoDir, Shapes
      <3>4. DEFINE e == [disk[l] EXCEPT !.kind = "none"]
      <3>5. e.kind = "none"
        BY <1>c DEF Directories
      <3>6. disk'[l] \in {disk[l], e, NoDir}
        BY <1>25 DEF PowerCut, Survivors
      <3> HIDE DEF e
      <3>. QED
        BY <3>1, <3>2, <3>3, <3>5, <3>6
    <2>. QED
      BY <2>1, <2>2, VanishKinded, <1>a
  <1>. QED
    BY <1>1, <1>2, <1>3, <1>4, <1>5, <1>6, <1>7, <1>8, <1>9, <1>10, <1>11, <1>12, <1>13,
       <1>14, <1>15, <1>16, <1>17, <1>18, <1>19, <1>20, <1>21, <1>22, <1>23, <1>24, <1>25, Wished
    DEF Next, Core, Start, Create, Shutdown, Reply

-----------------------------------------------------------------------------
(* The theorems *)

\* The daemon starts with nothing bound, opened or owed.
LEMMA InvInit == Init => IInv
  <1> SUFFICES ASSUME Init PROVE IInv
    OBVIOUS
  <1>1. \A b \in BOOLEAN : [NoDir EXCEPT !.dir = b] \in Directories
    BY Blanks DEF Directories
  <1>2. PICK stray \in SUBSET BadNames :
           disk = [l \in Logs |-> [NoDir EXCEPT !.dir = l \in stray]]
    BY DEF Init
  <1>3. disk \in [Logs -> Directories]
    <2>1. \A l \in Logs : (l \in stray) \in BOOLEAN
      OBVIOUS
    <2>2. \A l \in Logs : [NoDir EXCEPT !.dir = l \in stray] \in Directories
      BY <1>1, <2>1
    <2>. QED
      BY <1>2, <2>2
  <1>4. \A l \in Logs : disk[l].header = 0 /\ disk[l].records = 0
    BY <1>2 DEF NoDir
  <1>5. /\ NotMaking.step = "none" /\ Absent.at = "absent" /\ Nobody \notin Daemons
        /\ Free.st = "away" /\ Free.req = "none" /\ NothingOwed.logs = {}
    BY DaemonAssumption DEF NotMaking, Absent, Free, NothingOwed
  <1>6. Shaped
    <2>1. /\ reg \in [Daemons -> [Logs -> Entries]] /\ making \in [Daemons -> Makings]
          /\ client \in [Clients -> Conns] /\ owed \in [Daemons -> Owings]
      BY Blanks DEF Init
    <2>2. /\ phase \in [Daemons -> Phases] /\ found \in [Daemons -> SUBSET (Logs \X Shapes)]
          /\ todo \in [Daemons -> SUBSET Logs] /\ holder \in [Logs -> Daemons \cup {Nobody}]
          /\ told \in [Logs -> SUBSET Shapes]
      BY DEF Init, Phases
    <2>3. asks \in 0..MaxAsks /\ mishaps \in 0..MaxMishaps
      BY DaemonAssumption DEF Init
    <2>. QED
      BY <1>3, <2>1, <2>2, <2>3 DEF Init, Shaped
  <1>7. Control
    BY <1>5 DEF Init, Control, Creating, Connecting, Serves
  <1>8. Locked
    BY <1>5 DEF Init, Locked
  <1>9. Greatest
    BY DEF Init, Greatest, AckedVersions
  <1>10. Kept
    BY <1>5 DEF Init, Kept, Serves
  <1>11. Kinded
    BY <1>5 DEF Init, Kinded, Alone, Alive, InMaking, Registered
  <1>12. Covered
    BY <1>4 DEF Init, Covered
  <1>. QED
    BY <1>6, <1>7, <1>8, <1>9, <1>10, <1>11, <1>12 DEF IInv, TypeInv

\* Every step of the daemon and of its clients keeps the invariant.
THEOREM Invariance == Spec => []IInv
  <1>1. ASSUME IInv, [Next]_vars PROVE IInv'
    <2>1. CASE Next
      <3>1. Shaped' /\ Control'
        BY <1>1, <2>1, ShapedNext, CreatingNext, ConnectingNext DEF IInv, TypeInv, Control
      <3>2. Locked' /\ Greatest' /\ Kept' /\ Kinded' /\ Covered'
        BY <1>1, <2>1, LockedNext, GreatestNext, KeptNext, KindedNext, CoveredNext
        DEF IInv, TypeInv
      <3>. QED
        BY <3>1, <3>2 DEF IInv, TypeInv
    <2>2. CASE UNCHANGED vars
      <3>1. Shaped' /\ Control' /\ Locked' /\ Greatest'
        <4>1. Shaped'
          BY <1>1, <2>2 DEF IInv, TypeInv, vars, registry, history, Shaped
        <4>2. Control'
          BY <1>1, <2>2 DEF IInv, TypeInv, vars, registry, Control, Creating, Connecting, Serves
        <4>3. Locked' /\ Greatest'
          BY <1>1, <2>2 DEF IInv, vars, registry, history, Locked, Greatest, AckedVersions
        <4>. QED
          BY <4>1, <4>2, <4>3
      <3>2. Kept' /\ Kinded' /\ Covered'
        BY <1>1, <2>2 DEF IInv, vars, registry, history, Kept, Kinded, Covered, Alone,
           Alive, Serves, InMaking, Listed, Registered
      <3>. QED
        BY <3>1, <3>2 DEF IInv, TypeInv
    <2>. QED
      BY <1>1, <2>1, <2>2
  <1>. QED
    BY <1>1, InvInit, PTL DEF Spec

\* Whatever processes overlap, fail, are killed or lose power: a log is open in
\* one of them at a time, no version of it is acknowledged by two, and every
\* acknowledged version is on disk (the lock of lug-wal's open_with).
THEOREM LogsHaveOneHistory == Spec => []OneHistory
  <1>1. ASSUME IInv PROVE OneHistory
    <2>1. Shaped /\ Locked /\ Greatest
      BY <1>1 DEF IInv, TypeInv
    <2>2. \A l \in Logs, p, q \in Daemons : reg[p][l].at = "open" /\ reg[q][l].at = "open" => p = q
      BY <2>1 DEF Locked
    <2>3. \A a, b \in acks : a[1] = b[1] /\ a[2] = b[2] => a[3] = b[3]
      BY <2>1 DEF Locked
    <2>4. ASSUME NEW l \in Logs
          PROVE  disk[l].records >= LastAcked(l)
      <3>1. disk[l].records \in Nat /\ LastAcked(l) \in Nat
        BY <2>1, LastAckedBound, DaemonAssumption DEF Shaped, Directories, Versions
      <3>2. CASE LastAcked(l) = 0
        BY <3>1, <3>2
      <3>3. CASE LastAcked(l) \in AckedVersions(l)
        BY <2>1, <3>1, <3>3 DEF AckedVersions, Locked
      <3>. QED
        BY <2>1, <3>2, <3>3, LastAckedBound
    <2>. QED
      BY <2>2, <2>3, <2>4 DEF OneHistory
  <1>. QED
    BY <1>1, Invariance, PTL

\* A process that serves holds every log that was acknowledged when it looked at
\* the disk, and without overlap or a power cut every log has the one shape its
\* clients were told (Segments::remember and Segments::discover).
THEOREM LogsAreFoundAgain == Spec => []LogsOutliveRestart
  <1>1. ASSUME IInv PROVE LogsOutliveRestart
    <2>1. Shaped /\ Kept /\ Kinded
      BY <1>1 DEF IInv, TypeInv
    <2>2. TypeOK
      BY <2>1 DEF Shaped, TypeOK, Phases, Makings, Entries, Directories, Conns, Versions
    <2>3. HoldsItsLogs
      BY <2>1 DEF Kept, HoldsItsLogs, Serves
    <2>4. ASSUME ~overlapped, NEW l \in Logs \ blurred
          PROVE  /\ Cardinality(told[l]) <= 1
                 /\ \A p \in Daemons : l \in Registered(p) => told[l] \subseteq {reg[p][l].shape}
      <3>1. told[l] = {} \/ told[l] = {disk[l].kind}
        BY <2>1, <2>4 DEF Kinded
      <3>2. Cardinality({}) = 0 /\ Cardinality({disk[l].kind}) = 1
        BY FS_EmptySet, FS_Singleton
      <3>3. Cardinality(told[l]) <= 1
        BY <3>1, <3>2
      <3>4. ASSUME NEW p \in Daemons, l \in Registered(p)
            PROVE  told[l] \subseteq {reg[p][l].shape}
        <4>1. disk[l].kind = reg[p][l].shape
          BY <2>1, <2>4, <3>4 DEF Kinded
        <4>. QED
          BY <3>1, <4>1
      <3>. QED
        BY <3>3, <3>4
    <2>. QED
      BY <2>2, <2>3, <2>4 DEF LogsOutliveRestart, ShapeOutlivesRestart
  <1>. QED
    BY <1>1, Invariance, PTL

\* A process that stops on a signal leaves the header of every log over all that
\* was acknowledged when the signal came, unless the log was refused or its
\* checkpoint failed (Server::shutdown).
THEOREM StopsCover == Spec => []StopCovers
  <1>1. ASSUME IInv PROVE StopCovers
    <2>1. Shaped /\ Covered
      BY <1>1 DEF IInv, TypeInv
    <2>2. \A l \in Logs : disk[l].header \in Nat
      BY <2>1, DaemonAssumption DEF Shaped, Directories, Versions
    <2>3. \A p \in Daemons, l \in Logs : owed[p].upto[l] \in Nat
      BY <2>1, DaemonAssumption DEF Shaped, Owings, Versions
    <2>. QED
      BY <2>1, <2>2, <2>3 DEF Covered, StopCovers
  <1>. QED
    BY <1>1, Invariance, PTL
=============================================================================
