------------------------------ MODULE LeaderLock ------------------------------
(***************************************************************************)
(* How the processes of one machine agree on a leader: the lock file whose *)
(* flock makes a process the leader, the socket clients connect to, the    *)
(* clients that spawn a leader when they find none, and the eviction of a  *)
(* leader that holds the lock and cannot be reached.                       *)
(*                                                                         *)
(* Files are modelled as Unix has them: the lock path names an inode or    *)
(* nothing, a flock belongs to an inode, and an inode that was unlinked    *)
(* lives on for whoever has it open.  Opening and locking are two steps.   *)
(*                                                                         *)
(* Abstractions: a connection attempt succeeds at once if the process that *)
(* bound the socket serves it; waiting ends with a failed attempt; one     *)
(* waiting period is long enough to hold two sightings of an unreachable   *)
(* leader against it; process ids are not reused.  Left out: leaders below *)
(* the version floor of a client, and Windows, where the socket is a pipe. *)
(***************************************************************************)
EXTENDS Naturals, FiniteSets

CONSTANTS
    None,              \* no process
    Clients,           \* calls of connect_or_spawn
    Leaders,           \* processes that run run_leader once they are spawned
    ConfirmsHolder,    \* /proc/locks exists: the flock's holder can be confirmed
    MaxSelfSpawn,      \* MAX_SELF_SPAWN_ATTEMPTS
    MaxEvictAttempts   \* MAX_ZOMBIE_EVICT_ATTEMPTS

ASSUME LeaderAssumption ==
    /\ Clients \cap Leaders = {} /\ None \notin Clients \cup Leaders
    /\ ConfirmsHolder \in BOOLEAN
    /\ IsFiniteSet(Clients) /\ IsFiniteSet(Leaders)
    /\ MaxSelfSpawn \in Nat \ {0} /\ MaxEvictAttempts \in Nat \ {0}

Procs  == Clients \cup Leaders
Inodes == 1..(Cardinality(Procs) + 1)     \* one at the path, one open in each process
NoFile == 0

VARIABLES
    client,    \* where each client is in connect_or_spawn
    leader,    \* where each leader process is in run_leader
    path,      \* the inode at the lock path
    written,   \* the pid in each lock file
    holder,    \* who holds the flock of each lock file
    fd,        \* the lock file each process has open
    sock,      \* who bound the socket file
    timer,     \* zombie_timer of each client
    spawns,    \* self_spawn_attempts of each client
    evictions, \* evict_attempts of each client
    exited     \* whether a holder of the lock has ended in its Drop

lockVars   == <<path, written, holder, fd>>
clientVars == <<client, timer, spawns, evictions>>
vars       == <<client, leader, path, written, holder, fd, sock, timer, spawns, evictions,
                exited>>

Alive(p) == p \in Leaders /\ leader[p] \notin {"unborn", "dead"}
Serving(p) == p \in Leaders /\ leader[p] = "serving"

TypeOK ==
    /\ client \in [Clients -> {"start", "loop", "opened", "holding", "spawned", "probing",
                               "dropping", "connected", "failed"}]
    /\ leader \in [Leaders -> {"unborn", "start", "opened", "waiting", "reopened", "locked",
                               "recorded", "removed", "cleaned", "serving", "unserved", "closing",
                               "dropping", "dead"}]
    /\ path \in Inodes \cup {NoFile}
    /\ written \in [Inodes -> Leaders \cup {None}]
    /\ holder \in [Inodes -> Procs \cup {None}]
    /\ fd \in [Procs -> Inodes \cup {NoFile}]
    /\ \A i \in Inodes : holder[i] # None => fd[holder[i]] = i
    /\ sock \in Leaders \cup {None}
    /\ timer \in [Clients -> Leaders \cup {None}]
    /\ spawns \in [Clients -> 0..MaxSelfSpawn]
    /\ evictions \in [Clients -> [pid : Leaders \cup {None}, count : 0..MaxEvictAttempts]]
    /\ exited \in BOOLEAN

Init ==
    /\ client = [c \in Clients |-> "start"]
    /\ leader = [p \in Leaders |-> "unborn"]
    /\ path = NoFile
    /\ written = [i \in Inodes |-> None] /\ holder = [i \in Inodes |-> None]
    /\ fd = [x \in Procs |-> NoFile]
    /\ sock = None
    /\ timer = [c \in Clients |-> None]
    /\ spawns = [c \in Clients |-> 0]
    /\ evictions = [c \in Clients |-> [pid |-> None, count |-> 0]]
    /\ exited = FALSE

----------------------------------------------------------------------------
\* LeaderLock

\* The file system reuses inodes that have neither a name nor an open file.
FreeInode == CHOOSE i \in Inodes : \A x \in Procs : fd[x] # i

\* open_lock_file: the file at the path, a new one if there is none
Open(x) ==
    /\ path' = IF path = NoFile THEN FreeInode ELSE path
    /\ written' = IF path = NoFile THEN [written EXCEPT ![FreeInode] = None] ELSE written
    /\ fd' = [fd EXCEPT ![x] = path']
    /\ UNCHANGED holder

\* try_lock_exclusive and mark_acquired
Free(x) == holder[fd[x]] = None
Lock(x) == holder' = [holder EXCEPT ![fd[x]] = x] /\ UNCHANGED <<path, written, fd>>
MutClose(x) == fd' = [fd EXCEPT ![x] = NoFile] /\ UNCHANGED <<path, written, holder>>
\* Closing the file releases the flock: release(), a contended attempt, the end of a process.
Close(x) ==
    /\ holder' = [i \in Inodes |-> IF holder[i] = x THEN None ELSE holder[i]]
    /\ fd' = [fd EXCEPT ![x] = NoFile]
    /\ UNCHANGED <<path, written>>
\* The first half of Drop: the path is unlinked, whatever file it names by now.
UnlinkLock == path' = NoFile /\ exited' = TRUE /\ UNCHANGED <<written, holder, fd>>

\* read_pid, from the file at the path
ReadPid == IF path = NoFile THEN None ELSE written[path]
ListenerIsReady == sock # None
Connectable == Serving(sock)

----------------------------------------------------------------------------
\* run_leader

Goes(p, there) == leader' = [leader EXCEPT ![p] = there]

LeaderOpens(p) ==
    /\ leader[p] \in {"start", "waiting"}
    /\ Open(p) /\ Goes(p, IF leader[p] = "start" THEN "opened" ELSE "reopened")
    /\ UNCHANGED <<clientVars, sock, exited>>

\* try_acquire, or an attempt of acquire_reopen_timeout
LeaderLocks(p) ==
    /\ leader[p] \in {"opened", "reopened"} /\ Free(p)
    /\ Lock(p) /\ Goes(p, "locked")
    /\ UNCHANGED <<clientVars, sock, exited>>

\* write_pid, to the file that is locked
WritePid(p) ==
    /\ leader[p] = "locked"
    /\ written' = [written EXCEPT ![fd[p]] = p] /\ Goes(p, "recorded")
    /\ UNCHANGED <<clientVars, path, holder, fd, sock, exited>>

\* Contended: exit if a socket is bound, else poll until the deadline.
LeaderLoses(p) ==
    /\ leader[p] \in {"opened", "reopened"} /\ ~Free(p)
    /\ Close(p)
    /\ \/ leader[p] = "opened" /\ Goes(p, IF ListenerIsReady THEN "dead" ELSE "waiting")
       \/ leader[p] = "reopened" /\ Goes(p, "waiting")
       \/ leader[p] = "reopened" /\ Goes(p, "dead")
    /\ UNCHANGED <<clientVars, sock, exited>>

\* cleanup_socket, and once more in run_leader_server
CleanupSocket(p) ==
    /\ leader[p] \in {"recorded", "removed"}
    /\ sock' = None /\ Goes(p, IF leader[p] = "recorded" THEN "removed" ELSE "cleaned")
    /\ UNCHANGED <<clientVars, lockVars, exited>>

\* bind fails on a socket file that is there, which run_leader takes for its own.  If it
\* fails otherwise, run_leader waits for a socket file and then gives up.
Bind(p) ==
    /\ leader[p] = "cleaned"
    /\ \/ ~ListenerIsReady /\ sock' = p /\ Goes(p, "serving")
       \/ ListenerIsReady /\ sock' = sock /\ Goes(p, "unserved")
       \/ ~ListenerIsReady /\ sock' = sock /\ Goes(p, "closing")
    /\ UNCHANGED <<clientVars, lockVars, exited>>

\* write_pid or cleanup_socket fails: run_leader returns, and its lock is dropped.
StartFails(p) ==
    /\ leader[p] \in {"locked", "recorded"} /\ Goes(p, "closing")
    /\ UNCHANGED <<clientVars, lockVars, sock, exited>>

\* The leader is told to end; the server removes the socket file.
Stop(p) ==
    /\ leader[p] \in {"serving", "unserved"}
    /\ sock' = IF leader[p] = "serving" THEN None ELSE sock
    /\ Goes(p, "closing")
    /\ UNCHANGED <<clientVars, lockVars, exited>>

\* Drop: remove the lock file; remove the socket and close the file.
DropLockFile(p) ==
    /\ leader[p] = "closing"
    /\ UnlinkLock /\ Goes(p, "dropping")
    /\ UNCHANGED <<clientVars, sock>>
DropSocket(p) ==
    /\ leader[p] = "dropping"
    /\ sock' = None /\ Close(p) /\ Goes(p, "dead")
    /\ UNCHANGED <<clientVars, exited>>

\* A process dies without its Drop.
Dies(p) ==
    /\ Alive(p)
    /\ Close(p) /\ Goes(p, "dead")
    /\ UNCHANGED <<clientVars, sock, exited>>

----------------------------------------------------------------------------
\* connect_or_spawn

Moves(c, there) == client' = [client EXCEPT ![c] = there]
Keeps == UNCHANGED <<timer, spawns, evictions>>

\* The fast path skips a socket whose recorded leader is dead.
FastPath(c) ==
    /\ client[c] = "start"
    /\ Moves(c, IF (ReadPid = None \/ Alive(ReadPid)) /\ Connectable THEN "connected" ELSE "loop")
    /\ Keeps /\ UNCHANGED <<leader, lockVars, sock, exited>>

ClientOpens(c) ==
    /\ client[c] = "loop"
    /\ Open(c) /\ Moves(c, "opened")
    /\ Keeps /\ UNCHANGED <<leader, sock, exited>>

\* try_acquire
ClientLocks(c) ==
    /\ client[c] = "opened"
    /\ IF Free(c) THEN Lock(c) /\ Moves(c, "holding") ELSE Close(c) /\ Moves(c, "probing")
    /\ Keeps /\ UNCHANGED <<leader, sock, exited>>

\* A sibling's leader came up meanwhile: release and adopt it.
Adopt(c) ==
    /\ client[c] = "holding" /\ Alive(ReadPid) /\ Connectable
    /\ Close(c) /\ Moves(c, "connected")
    /\ Keeps /\ UNCHANGED <<leader, sock, exited>>

MutSpawnLeader(c, p) ==
    /\ client[c] = "holding" /\ ~(Alive(ReadPid) /\ Connectable)
    /\ leader[p] = "unborn"
    /\ path' = NoFile /\ fd' = [fd EXCEPT ![c] = NoFile]
    /\ holder' = [i \in Inodes |-> IF holder[i] = c THEN None ELSE holder[i]]
    /\ Moves(c, "spawned") /\ Goes(p, "start")
    /\ Keeps /\ UNCHANGED <<written, sock, exited>>
\* Release, so that the subprocess can take the lock, and spawn it.
SpawnLeader(c, p) ==
    /\ client[c] = "holding" /\ ~(Alive(ReadPid) /\ Connectable)
    /\ leader[p] = "unborn"
    /\ Close(c) /\ Moves(c, "spawned") /\ Goes(p, "start")
    /\ Keeps /\ UNCHANGED <<sock, exited>>

SpawnFails(c) ==
    /\ client[c] = "holding" /\ ~(Alive(ReadPid) /\ Connectable)
    /\ Close(c) /\ Moves(c, "failed")
    /\ Keeps /\ UNCHANGED <<leader, sock, exited>>

\* wait_for_socket_connectable
Connects(c) ==
    /\ client[c] \in {"spawned", "probing"} /\ Connectable
    /\ Moves(c, "connected")
    /\ Keeps /\ UNCHANGED <<leader, lockVars, sock, exited>>

\* ... of a leader this client spawned: it times out, which is an error of its own if no
\* attempt was made, and else the last attempt's, also if the socket is gone by then.
\* Whether there was an attempt is not remembered.
SpawnTimesOut(c) ==
    /\ client[c] = "spawned" /\ ~Connectable
    /\ \/ spawns' = [spawns EXCEPT ![c] = @ + 1]
          /\ Moves(c, IF spawns'[c] >= MaxSelfSpawn THEN "failed" ELSE "loop")
       \/ Moves(c, "failed") /\ UNCHANGED spawns
    /\ UNCHANGED <<leader, lockVars, sock, timer, evictions, exited>>

\* live_grok_lock_holder: the recorded pid, if it is confirmed to hold the flock
Zombie ==
    IF ConfirmsHolder /\ Alive(ReadPid) /\ holder[path] = ReadPid THEN ReadPid ELSE None

MutProbeTimesOut(c) ==            \* each sighting starts the timer afresh
    /\ client[c] = "probing" /\ ~Connectable
    /\ timer' = [timer EXCEPT ![c] = None] /\ Moves(c, "loop")
    /\ UNCHANGED <<leader, lockVars, sock, spawns, evictions, exited>>
\* zombie_evict_decision: Clear, or the first sighting of this pid
ProbeTimesOut(c) ==
    /\ client[c] = "probing" /\ ~Connectable
    /\ Zombie # None => timer[c] # Zombie
    /\ timer' = [timer EXCEPT ![c] = Zombie] /\ Moves(c, "loop")
    /\ UNCHANGED <<leader, lockVars, sock, spawns, evictions, exited>>

\* register_evict_attempt
Attempt(c, p) == [pid |-> p, count |-> IF evictions[c].pid = p THEN evictions[c].count + 1 ELSE 1]

\* The same pid again, unreachable past the deadline: SIGTERM, then SIGKILL.  Signals may fail.
EvictZombie(c) ==
    /\ client[c] = "probing" /\ ~Connectable
    /\ Zombie # None /\ timer[c] = Zombie
    /\ timer' = [timer EXCEPT ![c] = None]
    /\ \/ Attempt(c, Zombie).count > MaxEvictAttempts
          /\ Moves(c, "failed")
          /\ UNCHANGED <<leader, lockVars, evictions>>
       \/ Attempt(c, Zombie).count <= MaxEvictAttempts
          /\ evictions' = [evictions EXCEPT ![c] = Attempt(c, Zombie)]
          /\ Moves(c, "loop")
          /\ \/ UNCHANGED <<leader, lockVars>>
             \/ Close(Zombie) /\ Goes(Zombie, "dead")
    /\ UNCHANGED <<sock, spawns, exited>>

\* The process dies: its flock goes, the files stay.
ClientDies(c) ==
    /\ client[c] \notin {"connected", "failed"}
    /\ Close(c) /\ Moves(c, "failed")
    /\ Keeps /\ UNCHANGED <<leader, sock, exited>>

\* The call is dropped while it awaits a connection with the lock held: its Drop
\* removes the files.
Abandon(c) ==
    /\ client[c] = "holding" /\ ListenerIsReady /\ Alive(ReadPid)
    /\ UnlinkLock /\ Moves(c, "dropping")
    /\ Keeps /\ UNCHANGED <<leader, sock>>
AbandonDrops(c) ==
    /\ client[c] = "dropping"
    /\ sock' = None /\ Close(c) /\ Moves(c, "failed")
    /\ Keeps /\ UNCHANGED <<leader, exited>>

----------------------------------------------------------------------------
LeaderStep(p) ==
    \/ LeaderOpens(p) \/ LeaderLocks(p) \/ LeaderLoses(p) \/ WritePid(p) \/ CleanupSocket(p)
    \/ Bind(p) \/ DropLockFile(p) \/ DropSocket(p)

ClientStep(c) ==
    \/ FastPath(c) \/ ClientOpens(c) \/ ClientLocks(c) \/ Adopt(c) \/ SpawnFails(c)
    \/ Connects(c) \/ SpawnTimesOut(c) \/ ProbeTimesOut(c) \/ EvictZombie(c) \/ AbandonDrops(c)
    \/ \E p \in Leaders : SpawnLeader(c, p)

Next ==
    \/ \E p \in Leaders : LeaderStep(p) \/ StartFails(p) \/ Stop(p) \/ Dies(p)
    \/ \E c \in Clients : ClientStep(c) \/ Abandon(c) \/ ClientDies(c)

Spec == Init /\ [][Next]_vars

\* The system runs every process that has something to do; nobody is told to stop.
FairSpec ==
    /\ Spec
    /\ \A p \in Leaders : WF_vars(LeaderStep(p))
    /\ \A c \in Clients : WF_vars(ClientStep(c))

----------------------------------------------------------------------------
\* Properties

Leads(p) ==
    leader[p] \in {"locked", "recorded", "removed", "cleaned", "serving", "unserved", "closing"}

\* Until somebody who held the lock ended in its Drop, spawners hand over cleanly:
\* whatever clients and would-be leaders race, die or are evicted, there is one
\* leader, it is the pid in the lock file once it wrote it, and its socket is not taken
\* from it.
HandoffIsClean ==
    ~exited =>
        \A p \in Leaders : Leads(p) =>
            /\ \A q \in Leaders \ {p} : ~Leads(q)
            /\ leader[p] \notin {"locked", "closing"} => ReadPid = p
            /\ Serving(p) => sock = p

\* connect_or_spawn returns: it connects, or it fails.  No order of deaths, lost
\* races, deleted sockets and unreachable holders keeps a client in its loop.
ClientsSettle == \A c \in Clients : <>(client[c] \in {"connected", "failed"})

\* The claim of lock.rs: the leader holds the flock for its lifetime, so no second
\* leader can acquire it while the leader is alive.  A process that opened the lock
\* file before it was unlinked locks a file that nobody else will ever open.
SingleLeader == \A p, q \in Leaders : Leads(p) /\ Leads(q) => p = q
=============================================================================
