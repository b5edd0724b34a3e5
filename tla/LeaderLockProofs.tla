--------------------------- MODULE LeaderLockProofs ---------------------------
(***************************************************************************)
(* Proofs about the leader lock, for every set of clients and of leader    *)
(* processes: the type invariant, which says that a flock always belongs   *)
(* to an open file, and the clean handover until a holder ends in its      *)
(* Drop.  The invariant relates where a process is in its code to the file *)
(* it has open, the flock it holds and the pid that file carries.          *)
(***************************************************************************)
EXTENDS LeaderLock, FiniteSetTheorems, TLAPS

----------------------------------------------------------------------------
\* The inductive invariant

\* A process has the lock file open exactly from its open to its close.
Files ==
    /\ \A p \in Leaders : fd[p] = NoFile <=> leader[p] \in {"unborn", "start", "waiting", "dead"}
    /\ \A c \in Clients : fd[c] # NoFile <=> client[c] \in {"opened", "holding", "dropping"}

\* From try_lock_exclusive to the close it holds the flock of that file.
Flocks ==
    /\ \A p \in Leaders : Leads(p) \/ leader[p] = "dropping" => holder[fd[p]] = p
    /\ \A c \in Clients : client[c] \in {"holding", "dropping"} => holder[fd[c]] = c

\* The file a leader holds carries its pid once it wrote it.
Pids == \A p \in Leaders : Leads(p) /\ leader[p] \notin {"locked", "closing"} => written[fd[p]] = p

\* Before the first Drop nothing was unlinked: whoever has a lock file open has the
\* one at the path.
OneFile == ~exited => \A x \in Procs : fd[x] \in {NoFile, path}

\* A process inside its Drop has unlinked.
Drops ==
    ~exited => /\ \A p \in Leaders : leader[p] # "dropping"
               /\ \A c \in Clients : client[c] # "dropping"

\* Before the first Drop the socket of a serving leader stays its own.
Sockets == ~exited => \A p \in Leaders : Serving(p) => sock = p

\* A client that has used up its spawns gives up.
Attempts == \A c \in Clients : client[c] = "failed" \/ spawns[c] < MaxSelfSpawn

IInv == TypeOK /\ Files /\ Flocks /\ Pids /\ OneFile /\ Drops /\ Sockets /\ Attempts

----------------------------------------------------------------------------
\* Lemmas about files and processes

\* Clients, leaders and no process are told apart; no inode is NoFile.
LEMMA Apart ==
    /\ \A c \in Clients : c \in Procs /\ c \notin Leaders /\ c # None
    /\ \A p \in Leaders : p \in Procs /\ p \notin Clients /\ p # None
    /\ NoFile \notin Inodes
  BY LeaderAssumption DEF Procs, NoFile, Inodes

\* There are more inodes than processes, so open_lock_file finds one to create the
\* lock file in that no process has open.
LEMMA FreeInodeExists ==
    ASSUME TypeOK
    PROVE  FreeInode \in Inodes /\ \A x \in Procs : fd[x] # FreeInode
  <1> DEFINE n == Cardinality(Procs)
  <1>1. IsFiniteSet(Procs) /\ n \in Nat
    BY LeaderAssumption, FS_Union, FS_CardinalityType DEF Procs
  <1>2. IsFiniteSet(Inodes) /\ n < Cardinality(Inodes)
    <2>1. IsFiniteSet(1..(n + 1)) /\ Cardinality(1..(n + 1)) = n + 1
      BY <1>1, FS_Interval
    <2> QED
      BY <1>1, <2>1 DEF Inodes
  <1>3. ASSUME \A i \in Inodes : \E x \in Procs : fd[x] = i
        PROVE  FALSE
    <2> DEFINE f == [i \in Inodes |-> CHOOSE x \in Procs : fd[x] = i]
    <2>1. \A i \in Inodes : f[i] \in Procs /\ fd[f[i]] = i
      BY <1>3
    <2>2. f \in [Inodes -> Procs]
      BY <2>1
    <2> HIDE DEF f
    <2>3. \E i, j \in Inodes : i # j /\ f[i] = f[j]
      BY <1>1, <1>2, <2>2, FS_PigeonHole
    <2> QED
      BY <2>1, <2>3
  <1>4. \E i \in Inodes : \A x \in Procs : fd[x] # i
    BY <1>3
  <1> QED
    BY <1>4 DEF FreeInode

\* What a close leaves: the flock is free and no other process is touched.
AfterClose(x) ==
    /\ path' = path /\ written' = written
    /\ holder' \in [Inodes -> Procs \cup {None}]
    /\ fd' \in [Procs -> Inodes \cup {NoFile}]
    /\ \A i \in Inodes : holder'[i] # None => fd'[holder'[i]] = i
    /\ fd'[x] = NoFile
    /\ \A z \in Procs \ {x} : fd'[z] = fd[z]
    /\ \A z \in Procs \ {x} : fd[z] \in Inodes /\ holder[fd[z]] = z => holder'[fd[z]] = z

\* Closing a file frees its flock and touches no other process.
LEMMA CloseFacts ==
    ASSUME TypeOK, NEW x \in Procs, Close(x) PROVE AfterClose(x)
  BY DEF TypeOK, Close, AfterClose

\* What an open leaves: the file at the path, an old one or an empty one.
AfterOpen(x) ==
    /\ path' \in Inodes /\ (path # NoFile => path' = path)
    /\ written' \in [Inodes -> Leaders \cup {None}]
    /\ holder' = holder
    /\ fd' \in [Procs -> Inodes \cup {NoFile}]
    /\ \A i \in Inodes : holder'[i] # None => fd'[holder'[i]] = i
    /\ fd'[x] = path'
    /\ \A z \in Procs \ {x} : fd'[z] = fd[z]
    /\ \A z \in Procs : fd[z] \in Inodes => written'[fd[z]] = written[fd[z]]

\* Opening the lock file gives the file at the path; the pids in the files of the
\* other processes are left alone.
LEMMA OpenFacts ==
    ASSUME TypeOK, NEW x \in Procs, fd[x] = NoFile, Open(x) PROVE AfterOpen(x)
  <1>1. FreeInode \in Inodes /\ \A z \in Procs : fd[z] # FreeInode
    BY FreeInodeExists
  <1>2. path' \in Inodes /\ (path # NoFile => path' = path)
    BY <1>1 DEF TypeOK, Open
  <1>3. written' \in [Inodes -> Leaders \cup {None}]
    BY <1>1 DEF TypeOK, Open
  <1>4. \A z \in Procs : fd[z] \in Inodes => written'[fd[z]] = written[fd[z]]
    BY <1>1 DEF TypeOK, Open
  <1>5. /\ fd' \in [Procs -> Inodes \cup {NoFile}] /\ fd'[x] = path'
        /\ \A z \in Procs \ {x} : fd'[z] = fd[z]
    BY <1>2 DEF TypeOK, Open
  <1>6. holder' = holder /\ \A i \in Inodes : holder'[i] # None => fd'[holder'[i]] = i
    BY <1>5, Apart DEF TypeOK, Open
  <1> QED
    BY <1>2, <1>3, <1>4, <1>5, <1>6 DEF AfterOpen

\* What read_pid returns is a leader or nobody.
LEMMA ReadPidType ==
    ASSUME TypeOK PROVE ReadPid \in Leaders \cup {None} /\ Zombie \in Leaders \cup {None}
  BY DEF TypeOK, ReadPid, Zombie

\* Before the first Drop, two leaders would hold the same flock.
LEMMA OneLeader ==
    ASSUME IInv, ~exited, NEW p \in Leaders, NEW q \in Leaders, Leads(p), Leads(q)
    PROVE  p = q
  <1>1. fd[p] = path /\ fd[q] = path
    BY Apart DEF IInv, Files, OneFile, Leads
  <1> QED
    BY <1>1 DEF IInv, Flocks

----------------------------------------------------------------------------
\* Every action preserves the invariant

\* A leader opens the file at the path, or creates it.
LEMMA LeaderOpensIInv ==
    ASSUME IInv, NEW p \in Leaders, LeaderOpens(p) PROVE IInv'
  <1> USE DEF IInv, LeaderOpens, Goes, clientVars
  <1>a. AfterOpen(p)
    BY Apart, OpenFacts DEF Files
  <1>1. TypeOK' /\ Files' /\ Flocks' /\ Pids' /\ OneFile' /\ Drops' /\ Sockets' /\ Attempts'
    BY <1>a, Apart DEF TypeOK, AfterClose, AfterOpen, Files, Flocks, Leads, Pids, OneFile,
       Drops, Sockets, Serving, Attempts
  <1> QED
    BY <1>1

\* The flock was free, so no other leader had this file locked.
LEMMA LeaderLocksIInv ==
    ASSUME IInv, NEW p \in Leaders, LeaderLocks(p) PROVE IInv'
  <1> USE DEF IInv, LeaderLocks, Lock, Goes, Free, clientVars
  <1>1. TypeOK' /\ Files' /\ Flocks' /\ Pids' /\ OneFile' /\ Drops' /\ Sockets' /\ Attempts'
    BY Apart DEF TypeOK, AfterClose, AfterOpen, Files, Flocks, Leads, Pids, OneFile, Drops,
       Sockets, Serving, Attempts
  <1> QED
    BY <1>1

\* The pid goes to the file that is locked.
LEMMA WritePidIInv ==
    ASSUME IInv, NEW p \in Leaders, WritePid(p) PROVE IInv'
  <1> USE DEF IInv, WritePid, Goes, clientVars
  <1>1. TypeOK' /\ Files' /\ Flocks' /\ OneFile' /\ Drops' /\ Sockets' /\ Attempts'
    BY DEF TypeOK, Files, Flocks, Leads, OneFile, Drops, Sockets, Serving, Attempts
  <1>2. \A q \in Leaders : Leads(q) /\ q # p => fd[q] # fd[p]
    BY DEF Flocks, Leads
  <1>3. fd' = fd /\ fd[p] \in Inodes /\ written \in [Inodes -> Leaders \cup {None}]
        /\ leader' = [leader EXCEPT ![p] = "recorded"]
    BY Apart DEF TypeOK, Files, NoFile
  <1>4. \A q \in Leaders \ {p} : leader'[q] = leader[q] /\ (Leads(q) => written'[fd[q]] = written[fd[q]])
    BY <1>2, <1>3 DEF TypeOK
  <1>5. written'[fd[p]] = p
    BY <1>3
  <1>6. Pids'
    BY <1>3, <1>4, <1>5 DEF Pids, Leads
  <1> QED
    BY <1>1, <1>6

\* Nothing but the leader moves.
LEMMA StartFailsIInv ==
    ASSUME IInv, NEW p \in Leaders, StartFails(p) PROVE IInv'
  <1> USE DEF IInv, StartFails, Goes, clientVars, lockVars
  <1>1. TypeOK' /\ Files' /\ Flocks' /\ Pids' /\ OneFile' /\ Drops' /\ Sockets' /\ Attempts'
    BY DEF TypeOK, Files, Flocks, Leads, Pids, OneFile, Drops, Sockets, Serving, Attempts
  <1> QED
    BY <1>1

\* A close leaves every other holder's flock in place.
LEMMA FlocksAfterClose ==
    ASSUME IInv, NEW x \in Procs, AfterClose(x),
           \A p \in Leaders : (Leads(p) \/ leader[p] = "dropping")' =>
              p # x /\ (Leads(p) \/ leader[p] = "dropping"),
           \A c \in Clients : client'[c] \in {"holding", "dropping"} =>
              c # x /\ client[c] \in {"holding", "dropping"}
    PROVE  Flocks'
  <1>1. ASSUME NEW p \in Leaders, (Leads(p) \/ leader[p] = "dropping")' PROVE holder'[fd'[p]] = p
    <2>1. p # x /\ (Leads(p) \/ leader[p] = "dropping") /\ p \in Procs
      BY <1>1, Apart
    <2>2. fd[p] \in Inodes /\ holder[fd[p]] = p
      BY <2>1 DEF IInv, Files, Flocks, Leads, TypeOK
    <2> QED
      BY <2>1, <2>2 DEF AfterClose
  <1>2. ASSUME NEW c \in Clients, client'[c] \in {"holding", "dropping"} PROVE holder'[fd'[c]] = c
    <2>1. c # x /\ client[c] \in {"holding", "dropping"} /\ c \in Procs
      BY <1>2, Apart
    <2>2. fd[c] \in Inodes /\ holder[fd[c]] = c
      BY <2>1 DEF IInv, Files, Flocks, TypeOK
    <2> QED
      BY <2>1, <2>2 DEF AfterClose
  <1> QED
    BY <1>1, <1>2 DEF Flocks

\* The file is closed; nothing was held.
LEMMA LeaderLosesIInv ==
    ASSUME IInv, NEW p \in Leaders, LeaderLoses(p) PROVE IInv'
  <1> USE DEF IInv, LeaderLoses, Goes, Free, clientVars
  <1>a. AfterClose(p)
    BY Apart, CloseFacts
  <1>1. TypeOK'
    BY <1>a DEF TypeOK, AfterClose, AfterOpen
  <1>2. Files'
    BY <1>a, Apart DEF Files, TypeOK, AfterClose, AfterOpen
  <1>3. Flocks'
    BY <1>a, Apart, FlocksAfterClose DEF TypeOK, Leads
  <1>4. Pids'
    BY <1>a, Apart DEF Pids, TypeOK, Files, Leads, Flocks, AfterClose, AfterOpen
  <1>5. OneFile'
    BY <1>a DEF OneFile, TypeOK, Files, AfterClose, AfterOpen
  <1>6. Drops'
    BY <1>a DEF Drops, TypeOK, AfterClose, AfterOpen
  <1>7. Sockets'
    BY <1>a DEF Sockets, TypeOK, Serving, Leads, AfterClose, AfterOpen
  <1>8. Attempts'
    BY <1>a DEF Attempts, TypeOK, AfterClose, AfterOpen
  <1> QED
    BY <1>1, <1>2, <1>3, <1>4, <1>5, <1>6, <1>7, <1>8

\* The leader removes the socket; before the first Drop no other one serves.
LEMMA CleanupSocketIInv ==
    ASSUME IInv, NEW p \in Leaders, CleanupSocket(p) PROVE IInv'
  <1> USE DEF IInv, CleanupSocket, Goes, clientVars, lockVars
  <1>o. ~exited => \A q \in Leaders : Leads(q) => q = p
    BY OneLeader DEF Leads
  <1>1. TypeOK' /\ Files' /\ Flocks' /\ Pids' /\ OneFile' /\ Drops' /\ Sockets' /\ Attempts'
    BY <1>o DEF TypeOK, AfterClose, AfterOpen, Files, Flocks, Leads, Pids, OneFile, Drops,
       Sockets, Serving, Attempts
  <1> QED
    BY <1>1

\* The leader binds the socket.
LEMMA BindIInv ==
    ASSUME IInv, NEW p \in Leaders, Bind(p) PROVE IInv'
  <1> USE DEF IInv, Bind, Goes, clientVars, lockVars
  <1>o. ~exited => \A q \in Leaders : Leads(q) => q = p
    BY OneLeader DEF Leads
  <1>1. TypeOK' /\ Files' /\ Flocks' /\ Pids' /\ OneFile' /\ Drops' /\ Sockets' /\ Attempts'
    BY <1>o DEF TypeOK, AfterClose, AfterOpen, Files, Flocks, Leads, Pids, OneFile, Drops,
       Sockets, Serving, Attempts
  <1> QED
    BY <1>1

\* The server removes its own socket.
LEMMA StopIInv ==
    ASSUME IInv, NEW p \in Leaders, Stop(p) PROVE IInv'
  <1> USE DEF IInv, Stop, Goes, clientVars, lockVars
  <1>o. ~exited => \A q \in Leaders : Leads(q) => q = p
    BY OneLeader DEF Leads
  <1>1. TypeOK' /\ Files' /\ Flocks' /\ Pids' /\ OneFile' /\ Drops' /\ Sockets' /\ Attempts'
    BY <1>o DEF TypeOK, AfterClose, AfterOpen, Files, Flocks, Leads, Pids, OneFile, Drops,
       Sockets, Serving, Attempts
  <1> QED
    BY <1>1

\* From here on exited is TRUE: the path names no file.
LEMMA DropLockFileIInv ==
    ASSUME IInv, NEW p \in Leaders, DropLockFile(p) PROVE IInv'
  <1> USE DEF IInv, DropLockFile, Goes, UnlinkLock, clientVars
  <1>1. TypeOK' /\ Files' /\ Flocks' /\ Pids' /\ OneFile' /\ Drops' /\ Sockets' /\ Attempts'
    BY DEF TypeOK, AfterClose, AfterOpen, Files, Flocks, Leads, Pids, OneFile, Drops, Sockets,
       Serving, Attempts
  <1> QED
    BY <1>1

\* Only after exited.
LEMMA DropSocketIInv ==
    ASSUME IInv, NEW p \in Leaders, DropSocket(p) PROVE IInv'
  <1> USE DEF IInv, DropSocket, Goes, clientVars
  <1>a. AfterClose(p)
    BY Apart, CloseFacts
  <1>1. Sockets'
    BY <1>a DEF Sockets, Drops
  <1>2. TypeOK' /\ Files' /\ Flocks' /\ Pids' /\ OneFile' /\ Drops' /\ Attempts'
    BY <1>a, Apart DEF TypeOK, AfterClose, AfterOpen, Files, Flocks, Leads, Pids, OneFile,
       Drops, Attempts
  <1> QED
    BY <1>1, <1>2

\* A death releases the flock with the file.
LEMMA DiesIInv ==
    ASSUME IInv, NEW p \in Leaders, Dies(p) PROVE IInv'
  <1> USE DEF IInv, Dies, Goes, Alive, clientVars
  <1>a. AfterClose(p)
    BY Apart, CloseFacts
  <1>1. TypeOK'
    BY <1>a DEF TypeOK, AfterClose, AfterOpen
  <1>2. Files'
    BY <1>a, Apart DEF Files, TypeOK, AfterClose, AfterOpen
  <1>3. Flocks'
    BY <1>a, Apart DEF Flocks, TypeOK, Files, Leads, AfterClose, AfterOpen
  <1>4. Pids'
    BY <1>a, Apart DEF Pids, TypeOK, Files, Leads, Flocks, AfterClose, AfterOpen
  <1>5. OneFile'
    BY <1>a DEF OneFile, TypeOK, Files, AfterClose, AfterOpen
  <1>6. Drops'
    BY <1>a DEF Drops, TypeOK, AfterClose, AfterOpen
  <1>7. Sockets'
    BY <1>a DEF Sockets, TypeOK, Serving, Leads, AfterClose, AfterOpen
  <1>8. Attempts'
    BY <1>a DEF Attempts, TypeOK, AfterClose, AfterOpen
  <1> QED
    BY <1>1, <1>2, <1>3, <1>4, <1>5, <1>6, <1>7, <1>8

\* Nothing but the client moves.
LEMMA FastPathIInv ==
    ASSUME IInv, NEW c \in Clients, FastPath(c) PROVE IInv'
  <1> USE DEF IInv, FastPath, Moves, Keeps, lockVars
  <1>1. TypeOK' /\ Files' /\ Flocks' /\ Pids' /\ OneFile' /\ Drops' /\ Sockets' /\ Attempts'
    BY DEF TypeOK, AfterClose, AfterOpen, Files, Flocks, Leads, Pids, OneFile, Drops, Sockets,
       Serving, Attempts
  <1> QED
    BY <1>1

\* A client opens the file at the path, or creates it.
LEMMA ClientOpensIInv ==
    ASSUME IInv, NEW c \in Clients, ClientOpens(c) PROVE IInv'
  <1> USE DEF IInv, ClientOpens, Moves, Keeps
  <1>a. AfterOpen(c)
    BY Apart, OpenFacts DEF Files
  <1>1. TypeOK'
    BY <1>a DEF TypeOK, AfterClose, AfterOpen
  <1>2. Files'
    BY <1>a, Apart DEF Files, TypeOK, AfterClose, AfterOpen
  <1>3. Flocks'
    BY <1>a, Apart DEF Flocks, TypeOK, Files, Leads, AfterClose, AfterOpen
  <1>4. Pids'
    BY <1>a, Apart DEF Pids, TypeOK, Files, Leads, Flocks, AfterClose, AfterOpen
  <1>5. OneFile'
    BY <1>a DEF OneFile, TypeOK, Files, AfterClose, AfterOpen
  <1>6. Drops'
    BY <1>a DEF Drops, TypeOK, AfterClose, AfterOpen
  <1>7. Sockets'
    BY <1>a DEF Sockets, TypeOK, Serving, Leads, AfterClose, AfterOpen
  <1>8. Attempts'
    BY <1>a DEF Attempts, TypeOK, AfterClose, AfterOpen
  <1> QED
    BY <1>1, <1>2, <1>3, <1>4, <1>5, <1>6, <1>7, <1>8

\* try_acquire locks the file or closes it.
LEMMA ClientLocksIInv ==
    ASSUME IInv, NEW c \in Clients, ClientLocks(c) PROVE IInv'
  <1> USE DEF IInv, ClientLocks, Keeps
  <1>a. \/ Free(c) /\ Lock(c) /\ client' = [client EXCEPT ![c] = "holding"]
        \/ AfterClose(c) /\ client' = [client EXCEPT ![c] = "probing"]
    BY Apart, CloseFacts DEF Moves
  <1>b. fd[c] \in Inodes /\ c \in Procs
    BY Apart DEF TypeOK, Files
  <1>1. TypeOK'
    <2>1. CASE Free(c) /\ Lock(c) /\ client' = [client EXCEPT ![c] = "holding"]
      BY <1>b, <2>1, Apart DEF Free, Lock, TypeOK
    <2>2. CASE AfterClose(c) /\ client' = [client EXCEPT ![c] = "probing"]
      BY <1>b, <2>2, Apart DEF AfterClose, TypeOK
    <2> QED
      BY <1>a, <2>1, <2>2
  <1>2. Files'
    <2>1. CASE Free(c) /\ Lock(c) /\ client' = [client EXCEPT ![c] = "holding"]
      BY <1>b, <2>1, Apart DEF Free, Lock, TypeOK, Files
    <2>2. CASE AfterClose(c) /\ client' = [client EXCEPT ![c] = "probing"]
      BY <1>b, <2>2, Apart DEF AfterClose, TypeOK, Files
    <2> QED
      BY <1>a, <2>1, <2>2
  <1>3. Flocks'
    <2>1. CASE Free(c) /\ Lock(c) /\ client' = [client EXCEPT ![c] = "holding"]
      BY <1>b, <2>1, Apart DEF Free, Lock, TypeOK, Files, Flocks, Leads
    <2>2. CASE AfterClose(c) /\ client' = [client EXCEPT ![c] = "probing"]
      BY <1>b, <2>2, Apart DEF AfterClose, TypeOK, Files, Flocks, Leads
    <2> QED
      BY <1>a, <2>1, <2>2
  <1>4. Pids'
    <2>1. CASE Free(c) /\ Lock(c) /\ client' = [client EXCEPT ![c] = "holding"]
      BY <1>b, <2>1, Apart DEF Free, Lock, TypeOK, Files, Flocks, Pids, Leads
    <2>2. CASE AfterClose(c) /\ client' = [client EXCEPT ![c] = "probing"]
      BY <1>b, <2>2, Apart DEF AfterClose, TypeOK, Files, Flocks, Pids, Leads
    <2> QED
      BY <1>a, <2>1, <2>2
  <1>5. OneFile'
    <2>1. CASE Free(c) /\ Lock(c) /\ client' = [client EXCEPT ![c] = "holding"]
      BY <1>b, <2>1, Apart DEF Free, Lock, TypeOK, Files, OneFile
    <2>2. CASE AfterClose(c) /\ client' = [client EXCEPT ![c] = "probing"]
      BY <1>b, <2>2, Apart DEF AfterClose, TypeOK, Files, OneFile
    <2> QED
      BY <1>a, <2>1, <2>2
  <1>6. Drops' /\ Sockets' /\ Attempts'
    BY <1>a, <1>b DEF Drops, TypeOK, AfterClose, AfterOpen, Sockets, Serving, Leads, Attempts
  <1> QED
    BY <1>1, <1>2, <1>3, <1>4, <1>5, <1>6

\* The client releases the lock.
LEMMA AdoptIInv ==
    ASSUME IInv, NEW c \in Clients, Adopt(c) PROVE IInv'
  <1> USE DEF IInv, Adopt, Moves, Keeps
  <1>a. AfterClose(c)
    BY Apart, CloseFacts
  <1>1. Flocks'
    <2>1. ASSUME NEW q \in Leaders, (Leads(q) \/ leader[q] = "dropping")' PROVE holder'[fd'[q]] = q
      <3>1. (Leads(q) \/ leader[q] = "dropping") /\ fd[q] \in Inodes
        BY <2>1, Apart DEF Leads, Files, TypeOK
      <3> QED
        BY <3>1, <1>a, Apart DEF Flocks, AfterClose
    <2>2. ASSUME NEW d \in Clients, client'[d] \in {"holding", "dropping"}
          PROVE  holder'[fd'[d]] = d
      <3>1. d # c /\ client[d] \in {"holding", "dropping"} /\ fd[d] \in Inodes
        BY <2>2, Apart DEF Files, TypeOK
      <3> QED
        BY <3>1, <1>a, Apart DEF Flocks, AfterClose
    <2> QED
      BY <2>1, <2>2 DEF Flocks
  <1>2. TypeOK' /\ Files' /\ Pids' /\ OneFile' /\ Drops' /\ Sockets' /\ Attempts'
    BY <1>a, Apart DEF TypeOK, AfterClose, AfterOpen, Files, Pids, Leads, Flocks, OneFile,
       Drops, Sockets, Serving, Attempts
  <1> QED
    BY <1>1, <1>2

\* The client releases the lock, the new process has opened nothing.
LEMMA SpawnLeaderIInv ==
    ASSUME IInv, NEW c \in Clients, NEW p \in Leaders, SpawnLeader(c, p) PROVE IInv'
  <1> USE DEF IInv, SpawnLeader, Moves, Keeps, Goes
  <1>a. AfterClose(c)
    BY Apart, CloseFacts
  <1>1. TypeOK'
    BY <1>a DEF TypeOK, AfterClose, AfterOpen
  <1>2. Files'
    BY <1>a, Apart DEF Files, TypeOK, AfterClose, AfterOpen
  <1>3. Flocks'
    <2>1. ASSUME NEW q \in Leaders, (Leads(q) \/ leader[q] = "dropping")' PROVE holder'[fd'[q]] = q
      <3>1. (Leads(q) \/ leader[q] = "dropping") /\ fd[q] \in Inodes
        BY <2>1, Apart DEF Leads, Files, TypeOK
      <3> QED
        BY <3>1, <1>a, Apart DEF Flocks, AfterClose
    <2>2. ASSUME NEW d \in Clients, client'[d] \in {"holding", "dropping"}
          PROVE  holder'[fd'[d]] = d
      <3>1. d # c /\ client[d] \in {"holding", "dropping"} /\ fd[d] \in Inodes
        BY <2>2, Apart DEF Files, TypeOK
      <3> QED
        BY <3>1, <1>a, Apart DEF Flocks, AfterClose
    <2> QED
      BY <2>1, <2>2 DEF Flocks
  <1>4. Pids'
    BY <1>a, Apart DEF Pids, TypeOK, Files, Leads, Flocks, AfterClose, AfterOpen
  <1>5. OneFile'
    BY <1>a DEF OneFile, TypeOK, Files, AfterClose, AfterOpen
  <1>6. Drops'
    BY <1>a DEF Drops, TypeOK, AfterClose, AfterOpen
  <1>7. Sockets'
    BY <1>a DEF Sockets, TypeOK, Serving, Leads, AfterClose, AfterOpen
  <1>8. Attempts'
    BY <1>a DEF Attempts, TypeOK, AfterClose, AfterOpen
  <1> QED
    BY <1>1, <1>2, <1>3, <1>4, <1>5, <1>6, <1>7, <1>8

\* The client releases the lock.
LEMMA SpawnFailsIInv ==
    ASSUME IInv, NEW c \in Clients, SpawnFails(c) PROVE IInv'
  <1> USE DEF IInv, SpawnFails, Moves, Keeps
  <1>a. AfterClose(c)
    BY Apart, CloseFacts
  <1>1. TypeOK'
    BY <1>a DEF TypeOK, AfterClose, AfterOpen
  <1>2. Files'
    BY <1>a, Apart DEF Files, TypeOK, AfterClose, AfterOpen
  <1>3. Flocks'
    <2>1. ASSUME NEW q \in Leaders, (Leads(q) \/ leader[q] = "dropping")' PROVE holder'[fd'[q]] = q
      <3>1. (Leads(q) \/ leader[q] = "dropping") /\ fd[q] \in Inodes
        BY <2>1, Apart DEF Leads, Files, TypeOK
      <3> QED
        BY <3>1, <1>a, Apart DEF Flocks, AfterClose
    <2>2. ASSUME NEW d \in Clients, client'[d] \in {"holding", "dropping"}
          PROVE  holder'[fd'[d]] = d
      <3>1. d # c /\ client[d] \in {"holding", "dropping"} /\ fd[d] \in Inodes
        BY <2>2, Apart DEF Files, TypeOK
      <3> QED
        BY <3>1, <1>a, Apart DEF Flocks, AfterClose
    <2> QED
      BY <2>1, <2>2 DEF Flocks
  <1>4. Pids'
    BY <1>a, Apart DEF Pids, TypeOK, Files, Leads, Flocks, AfterClose, AfterOpen
  <1>5. OneFile'
    BY <1>a DEF OneFile, TypeOK, Files, AfterClose, AfterOpen
  <1>6. Drops'
    BY <1>a DEF Drops, TypeOK, AfterClose, AfterOpen
  <1>7. Sockets'
    BY <1>a DEF Sockets, TypeOK, Serving, Leads, AfterClose, AfterOpen
  <1>8. Attempts'
    BY <1>a DEF Attempts, TypeOK, AfterClose, AfterOpen
  <1> QED
    BY <1>1, <1>2, <1>3, <1>4, <1>5, <1>6, <1>7, <1>8

\* Nothing but the client moves.
LEMMA ConnectsIInv ==
    ASSUME IInv, NEW c \in Clients, Connects(c) PROVE IInv'
  <1> USE DEF IInv, Connects, Moves, Keeps, lockVars
  <1>1. TypeOK' /\ Files' /\ Flocks' /\ Pids' /\ OneFile' /\ Drops' /\ Sockets' /\ Attempts'
    BY DEF TypeOK, AfterClose, AfterOpen, Files, Flocks, Leads, Pids, OneFile, Drops, Sockets,
       Serving, Attempts
  <1> QED
    BY <1>1

\* The spawn budget: the client fails when it is used up.
LEMMA SpawnTimesOutIInv ==
    ASSUME IInv, NEW c \in Clients, SpawnTimesOut(c) PROVE IInv'
  <1> USE DEF IInv, SpawnTimesOut, Moves, lockVars
  <1>1. TypeOK'
    <2>1. spawns' \in [Clients -> 0..MaxSelfSpawn]
      <3>1. spawns[c] \in 0..MaxSelfSpawn /\ spawns[c] < MaxSelfSpawn
        BY DEF TypeOK, Attempts
      <3> QED
        BY <3>1, LeaderAssumption DEF TypeOK
    <2>2. client' \in [Clients -> {"start", "loop", "opened", "holding", "spawned", "probing",
                                   "dropping", "connected", "failed"}]
      BY DEF TypeOK
    <2> QED
      BY <2>1, <2>2 DEF TypeOK
  <1>2. Attempts'
    <2>1. \A d \in Clients : spawns[d] \in 0..MaxSelfSpawn /\ MaxSelfSpawn \in Nat
      BY LeaderAssumption DEF TypeOK
    <2> QED
      BY <2>1 DEF Attempts, TypeOK
  <1>3. Files' /\ Flocks' /\ Pids' /\ OneFile' /\ Drops' /\ Sockets'
    BY DEF Files, TypeOK, AfterClose, AfterOpen, Flocks, Leads, Pids, OneFile, Drops, Sockets,
       Serving
  <1> QED
    BY <1>1, <1>2, <1>3

\* The timer takes the sighted leader.
LEMMA ProbeTimesOutIInv ==
    ASSUME IInv, NEW c \in Clients, ProbeTimesOut(c) PROVE IInv'
  <1> USE DEF IInv, ProbeTimesOut, Moves, lockVars
  <1>z. Zombie \in Leaders \cup {None}
    BY ReadPidType
  <1>1. TypeOK' /\ Files' /\ Flocks' /\ Pids' /\ OneFile' /\ Drops' /\ Sockets' /\ Attempts'
    BY <1>z DEF TypeOK, AfterClose, AfterOpen, Files, Flocks, Leads, Pids, OneFile, Drops,
       Sockets, Serving, Attempts
  <1> QED
    BY <1>1

\* The evicted leader dies with its file, or nothing happens to it.
LEMMA EvictZombieIInv ==
    ASSUME IInv, NEW c \in Clients, EvictZombie(c) PROVE IInv'
  <1> USE DEF IInv, EvictZombie, Moves, Goes, lockVars
  <1>z. Zombie \in Leaders /\ Alive(Zombie)
    BY ReadPidType DEF Zombie
  <1>a. \/ UNCHANGED <<leader, path, written, holder, fd>>
        \/ AfterClose(Zombie) /\ leader' = [leader EXCEPT ![Zombie] = "dead"]
    BY <1>z, Apart, CloseFacts DEF lockVars
  <1>b. \E there \in {"loop", "failed"} : client' = [client EXCEPT ![c] = there]
    OBVIOUS
  <1>1. TypeOK'
    <2>1. Attempt(c, Zombie).count <= MaxEvictAttempts
            => Attempt(c, Zombie) \in [pid : Leaders \cup {None}, count : 0..MaxEvictAttempts]
      BY <1>z, LeaderAssumption DEF Attempt, TypeOK
    <2>2. evictions' \in [Clients -> [pid : Leaders \cup {None}, count : 0..MaxEvictAttempts]]
      BY <2>1 DEF TypeOK
    <2>3. /\ path' \in Inodes \cup {NoFile} /\ written' \in [Inodes -> Leaders \cup {None}]
          /\ holder' \in [Inodes -> Procs \cup {None}] /\ fd' \in [Procs -> Inodes \cup {NoFile}]
          /\ \A i \in Inodes : holder'[i] # None => fd'[holder'[i]] = i
      BY <1>a DEF TypeOK, AfterClose
    <2>4. leader' \in [Leaders -> {"unborn", "start", "opened", "waiting", "reopened", "locked",
                                   "recorded", "removed", "cleaned", "serving", "unserved", "closing",
                                   "dropping", "dead"}]
      BY <1>a, <1>z DEF TypeOK
    <2>5. client' \in [Clients -> {"start", "loop", "opened", "holding", "spawned", "probing",
                                   "dropping", "connected", "failed"}]
      BY <1>b DEF TypeOK
    <2> QED
      BY <2>2, <2>3, <2>4, <2>5, Apart DEF TypeOK
  <1>2. Files'
    <2>1. CASE UNCHANGED <<leader, path, written, holder, fd>>
      BY <1>b, <2>1 DEF TypeOK, Files
    <2>2. CASE AfterClose(Zombie) /\ leader' = [leader EXCEPT ![Zombie] = "dead"]
      BY <1>z, <1>b, <2>2, Apart DEF AfterClose, TypeOK, Files
    <2> QED
      BY <1>a, <2>1, <2>2
  <1>3. Flocks'
    <2>1. CASE UNCHANGED <<leader, path, written, holder, fd>>
      BY <1>b, <2>1 DEF TypeOK, Files, Flocks, Leads
    <2>2. CASE AfterClose(Zombie) /\ leader' = [leader EXCEPT ![Zombie] = "dead"]
      BY <1>z, <1>b, <2>2, Apart, FlocksAfterClose DEF TypeOK, Leads
    <2> QED
      BY <1>a, <2>1, <2>2
  <1>4. Pids'
    <2>1. CASE UNCHANGED <<leader, path, written, holder, fd>>
      BY <1>b, <2>1 DEF TypeOK, Files, Pids, Leads
    <2>2. CASE AfterClose(Zombie) /\ leader' = [leader EXCEPT ![Zombie] = "dead"]
      BY <1>z, <1>b, <2>2, Apart DEF AfterClose, TypeOK, Files, Pids, Leads
    <2> QED
      BY <1>a, <2>1, <2>2
  <1>5. OneFile'
    <2>1. CASE UNCHANGED <<leader, path, written, holder, fd>>
      BY <1>b, <2>1 DEF TypeOK, OneFile
    <2>2. CASE AfterClose(Zombie) /\ leader' = [leader EXCEPT ![Zombie] = "dead"]
      BY <1>z, <1>b, <2>2, Apart DEF AfterClose, TypeOK, OneFile
    <2> QED
      BY <1>a, <2>1, <2>2
  <1>6. Drops' /\ Sockets' /\ Attempts'
    BY <1>a, <1>b, <1>z DEF Drops, TypeOK, AfterClose, AfterOpen, Sockets, Serving, Leads,
       Attempts
  <1> QED
    BY <1>1, <1>2, <1>3, <1>4, <1>5, <1>6

\* A death releases the flock with the file.
LEMMA ClientDiesIInv ==
    ASSUME IInv, NEW c \in Clients, ClientDies(c) PROVE IInv'
  <1> USE DEF IInv, ClientDies, Moves, Keeps
  <1>a. AfterClose(c)
    BY Apart, CloseFacts
  <1>1. Flocks'
    BY <1>a, Apart, FlocksAfterClose DEF TypeOK, Leads
  <1>2. TypeOK' /\ Files'
    BY <1>a, Apart DEF TypeOK, AfterClose, Files
  <1>3. Pids' /\ OneFile'
    BY <1>a, Apart DEF TypeOK, AfterClose, Files, Pids, Leads, OneFile
  <1>4. Drops' /\ Sockets' /\ Attempts'
    BY <1>a, Apart DEF TypeOK, AfterClose, Drops, Sockets, Serving, Leads, Attempts
  <1> QED
    BY <1>1, <1>2, <1>3, <1>4

\* From here on exited is TRUE.
LEMMA AbandonIInv ==
    ASSUME IInv, NEW c \in Clients, Abandon(c) PROVE IInv'
  <1> USE DEF IInv, Abandon, Moves, Keeps, UnlinkLock
  <1>1. TypeOK' /\ Files' /\ Flocks' /\ Pids' /\ OneFile' /\ Drops' /\ Sockets' /\ Attempts'
    BY DEF TypeOK, AfterClose, AfterOpen, Files, Flocks, Leads, Pids, OneFile, Drops, Sockets,
       Serving, Attempts
  <1> QED
    BY <1>1

\* Only after exited.
LEMMA AbandonDropsIInv ==
    ASSUME IInv, NEW c \in Clients, AbandonDrops(c) PROVE IInv'
  <1> USE DEF IInv, AbandonDrops, Moves, Keeps
  <1>a. AfterClose(c)
    BY Apart, CloseFacts
  <1>1. TypeOK'
    BY <1>a DEF TypeOK, AfterClose, AfterOpen
  <1>2. Files'
    BY <1>a, Apart DEF Files, TypeOK, AfterClose, AfterOpen
  <1>3. Flocks'
    BY <1>a, Apart, FlocksAfterClose DEF TypeOK, Leads
  <1>4. Pids'
    BY <1>a, Apart DEF Pids, TypeOK, Files, Leads, Flocks, AfterClose, AfterOpen
  <1>5. OneFile'
    BY <1>a DEF OneFile, TypeOK, Files, AfterClose, AfterOpen
  <1>6. Drops'
    BY <1>a DEF Drops, TypeOK, AfterClose, AfterOpen
  <1>7. Sockets'
    BY <1>a DEF Sockets, Drops
  <1>8. Attempts'
    BY <1>a DEF Attempts, TypeOK, AfterClose, AfterOpen
  <1> QED
    BY <1>1, <1>2, <1>3, <1>4, <1>5, <1>6, <1>7, <1>8

\* No process has opened the lock file yet.
LEMMA InitIInv == Init => IInv
  <1> SUFFICES ASSUME Init PROVE IInv
    OBVIOUS
  <1>1. TypeOK
    <2>1. path \in Inodes \cup {NoFile} /\ written \in [Inodes -> Leaders \cup {None}]
      BY DEF Init
    <2>2. /\ holder \in [Inodes -> Procs \cup {None}] /\ fd \in [Procs -> Inodes \cup {NoFile}]
          /\ \A i \in Inodes : holder[i] = None
      BY DEF Init
    <2>3. spawns \in [Clients -> 0..MaxSelfSpawn] /\ timer \in [Clients -> Leaders \cup {None}]
      BY LeaderAssumption DEF Init
    <2>4. evictions \in [Clients -> [pid : Leaders \cup {None}, count : 0..MaxEvictAttempts]]
      BY LeaderAssumption DEF Init
    <2> QED
      BY <2>1, <2>2, <2>3, <2>4 DEF Init, TypeOK
  <1>2. Files /\ Flocks /\ Pids /\ OneFile /\ Drops /\ Sockets /\ Attempts
    BY LeaderAssumption, Apart DEF Init, Files, Flocks, Pids, OneFile, Drops, Sockets, Attempts,
       Leads, Serving
  <1> QED
    BY <1>1, <1>2 DEF IInv

\* Nothing changes.
LEMMA StutterIInv == IInv /\ UNCHANGED vars => IInv'
  BY DEF vars, IInv, TypeOK, Files, Flocks, Pids, OneFile, Drops, Sockets, Attempts, Leads, Serving

\* Every step preserves the invariant.
LEMMA NextIInv == IInv /\ [Next]_vars => IInv'
  <1> SUFFICES ASSUME IInv, [Next]_vars PROVE IInv'
    OBVIOUS
  <1>1. ASSUME NEW p \in Leaders, LeaderStep(p) \/ StartFails(p) \/ Stop(p) \/ Dies(p) PROVE IInv'
    BY <1>1, LeaderOpensIInv, LeaderLocksIInv, LeaderLosesIInv, WritePidIInv, CleanupSocketIInv,
       BindIInv, StartFailsIInv, StopIInv, DropLockFileIInv, DropSocketIInv, DiesIInv DEF LeaderStep
  <1>2. ASSUME NEW c \in Clients, ClientStep(c) \/ Abandon(c) \/ ClientDies(c) PROVE IInv'
    BY <1>2, FastPathIInv, ClientOpensIInv, ClientLocksIInv, AdoptIInv, SpawnLeaderIInv,
       SpawnFailsIInv, ConnectsIInv, SpawnTimesOutIInv, ProbeTimesOutIInv, EvictZombieIInv,
       ClientDiesIInv, AbandonIInv, AbandonDropsIInv DEF ClientStep
  <1> QED
    BY <1>1, <1>2, StutterIInv DEF Next

\* The inductive invariant holds, whatever clients and leaders race or die.
THEOREM Invariance == Spec => []IInv
  BY InitIInv, NextIInv, PTL DEF Spec

\* Type correctness of the leader lock: a flock is held only by a process that has
\* the file open, also after a file was unlinked and its inode reused.
THEOREM TypeCorrect == Spec => []TypeOK
  <1>1. IInv => TypeOK
    BY DEF IInv
  <1> QED
    BY <1>1, Invariance, PTL

\* Until a holder of the lock ends in its Drop there is one leader, read_pid returns
\* it once it wrote its pid, and the socket it serves is its own, for any number of clients and leaders.
THEOREM HandoffCorrect == Spec => []HandoffIsClean
  <1>1. ASSUME IInv, ~exited, NEW p \in Leaders, Leads(p)
        PROVE  /\ \A q \in Leaders \ {p} : ~Leads(q)
               /\ leader[p] \notin {"locked", "closing"} => ReadPid = p
               /\ Serving(p) => sock = p
    <2>1. \A q \in Leaders \ {p} : ~Leads(q)
      BY <1>1, OneLeader
    <2>2. /\ fd[p] = path /\ fd[p] # NoFile
          /\ leader[p] \notin {"locked", "closing"} => written[fd[p]] = p
      BY <1>1, Apart DEF IInv, Files, OneFile, Pids, Leads
    <2> QED
      BY <1>1, <2>1, <2>2 DEF ReadPid, IInv, Sockets
  <1>2. IInv => HandoffIsClean
    BY <1>1 DEF HandoffIsClean
  <1> QED
    BY <1>2, Invariance, PTL
===============================================================================
