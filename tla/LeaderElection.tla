-------------------------- MODULE LeaderElection --------------------------
(***************************************************************************)
(* How clients and leader processes agree on one leader: connect_or_spawn, *)
(* the start and the end of run_leader, and LeaderLock, over a lock file,  *)
(* a socket and a pid file in one directory.                               *)
(*                                                                         *)
(* The lock is an flock on whatever inode the process opened; LeaderLock   *)
(* unlinks path and socket when it is dropped without a release.  A client *)
(* that finds nobody takes the lock, spawns a leader, waits for its socket *)
(* and lets go, and the leader takes the lock after it; a leader started   *)
(* by hand may find the lock free.  An action is what one process does     *)
(* between two file-system operations another process can observe.         *)
(*                                                                         *)
(* The clients have one version; leaders in Old have an older one.  A      *)
(* leader that has a listener and the lock is taken to be ready: its       *)
(* authentication and prefetch are left out.  A client calls once; one     *)
(* that reconnects is another client.  A timeout may strike whenever what  *)
(* it waits for has not happened.  SIGTERM ends a process without its      *)
(* destructors (no handler is installed), and so do a crash and a panic.   *)
(*                                                                         *)
(* VacateHolding, VacateByPid, LeadAnyway and PollPatient are faulty      *)
(* variants of the definitions that follow them; nothing uses them.        *)
(***************************************************************************)
EXTENDS Integers, FiniteSets

CONSTANTS
  Client,     \* processes that call connect_or_spawn
  Leader,     \* pids of leader processes, in the order in which they start
  ByHand,     \* those a user starts; a client spawns the others
  Old,        \* those of an older version than the clients
  MayQuit,    \* bound: leaders that may shut down on their own
  MayCrash    \* bound: leaders that may crash

ASSUME LeaderAssumption == Leader \subseteq Nat \ {0} /\ IsFiniteSet(Leader)
ASSUME ClientAssumption == Client \cap Leader = {} /\ IsFiniteSet(Client)
ASSUME NobodyAssumption == 0 \notin Client

VARIABLES
  pc,           \* where each client is in connect_or_spawn
  conn,         \* the leader it has a connection to
  target,       \* the pid it evicts
  stage,        \* where each leader process is in run_leader
  serving,      \* leaders whose IPC server has a listener and runs
  ending,       \* leaders whose server ends, and will remove the socket
  relaunching,  \* leaders that accepted RelaunchForUpdate
  legacy,       \* old leaders that do not know RelaunchForUpdate
  file,         \* the inode at the lock path
  fd,           \* the inode a process has open as its lock_file
  locked,       \* processes that hold the flock of their inode: was_leader
  sock,         \* the leader that bound the socket at the socket path
  pidfile,      \* the pid in the pid file
  stray         \* history: a lock file was unlinked while another had it open

Process == Client \cup Leader
None    == 0
Inodes  == 1..(Cardinality(Process) + 1)

clientVars == <<pc, conn, target>>
serverVars == <<serving, ending, relaunching, legacy>>
lockVars   == <<file, fd, locked, stray>>
vars == <<clientVars, stage, serverVars, lockVars, sock, pidfile>>

Linked    == {"fastWait", "siblingWait", "evict", "spawnWait", "pollWait", "vacate"}
Unlinked  == {"idle", "open", "try", "look", "evicting", "spawn", "await", "connect",
              "poll", "repoll"}
Returning == {"drop", "unsock"}
Starting  == {"open", "try", "stamp", "clean", "unbind", "bind", "look", "reopen",
              "wait", "restamp"}

ClientType ==
  /\ pc \in [Client -> Linked \cup Unlinked \cup Returning \cup {"done", "failed"}]
  /\ conn \in [Client -> Leader \cup {None}] /\ target \in [Client -> Leader \cup {None}]
  /\ \A c \in Client : /\ pc[c] \in Linked => conn[c] # None
                       /\ pc[c] \in Unlinked => conn[c] = None
LeaderType ==
  /\ stage \in [Leader -> Starting \cup {"off", "lead", "quit", "unsock", "dead"}]
  /\ serving \subseteq Leader /\ ending \subseteq Leader
  /\ relaunching \subseteq Old /\ legacy \subseteq Old
LockType ==
  /\ file \in Inodes \cup {None} /\ fd \in [Process -> Inodes \cup {None}]
  /\ locked \subseteq {p \in Process : fd[p] # None} /\ stray \in BOOLEAN
TypeOK ==
  /\ ClientType /\ LeaderType /\ LockType
  /\ sock \in Leader \cup {None} /\ pidfile \in Leader \cup {None}

Init ==
  /\ pc = [c \in Client |-> "idle"]
  /\ conn = [c \in Client |-> None] /\ target = [c \in Client |-> None]
  /\ stage = [l \in Leader |-> "off"]
  /\ serving = {} /\ ending = {} /\ relaunching = {} /\ legacy \in SUBSET Old
  /\ file = None /\ fd = [p \in Process |-> None] /\ locked = {}
  /\ sock = None /\ pidfile = None /\ stray = FALSE

-----------------------------------------------------------------------------
(* LeaderLock.                                                              *)

Held(i) == \E p \in locked : fd[p] = i
InUse   == {file} \cup {fd[p] : p \in Process}

(* The lock file is opened, and created if the path has none.  The inodes of *)
(* unlinked files nobody has open are used again.                            *)
OpenFile(p) ==
  \E i \in Inodes :
    /\ IF file # None THEN i = file
       ELSE i \notin InUse /\ \A j \in 1..(i - 1) : j \in InUse
    /\ file' = i /\ fd' = [fd EXCEPT ![p] = i]
    /\ UNCHANGED <<locked, stray>>

Acquire(p) ==
  /\ ~Held(fd[p]) /\ locked' = locked \cup {p} /\ UNCHANGED <<file, fd, stray>>

(* The file is closed, which ends the flock: in release, at the end of drop, *)
(* after a try that failed, and with the process.                            *)
Close(p) ==
  /\ fd' = [fd EXCEPT ![p] = None] /\ locked' = locked \ {p}
  /\ UNCHANGED <<file, stray>>

Contended(p) == Held(fd[p]) /\ Close(p)

(* The first half of drop; the lock is still held.                           *)
Unlink(p) ==
  /\ file' = None
  /\ stray' = (stray \/ (file # None /\ \E q \in Process \ {p} : fd[q] = file))
  /\ UNCHANGED <<fd, locked>>

-----------------------------------------------------------------------------
(* A leader process.                                                        *)

At(l, s) == stage[l] = s
Go(l, s) == stage' = [stage EXCEPT ![l] = s]
Alive(l) == l \in Leader /\ stage[l] \notin {"off", "dead"}

(* The process is gone, and with it its listener and its flock.              *)
End(l) ==
  /\ Go(l, "dead") /\ serving' = serving \ {l} /\ ending' = ending \ {l}
  /\ Close(l) /\ UNCHANGED <<relaunching, legacy>>

(* cancel.cancel(): the server leaves its loop.                              *)
Cancel(l) ==
  /\ serving' = serving \ {l} /\ ending' = ending \cup (serving \cap {l})
  /\ UNCHANGED <<relaunching, legacy>>

StartByHand(l) ==
  /\ l \in ByHand /\ At(l, "off") /\ Go(l, "open")
  /\ UNCHANGED <<clientVars, serverVars, lockVars, sock, pidfile>>

(* try_acquire: at once; and at the handoff, where the file stays open while *)
(* the lock is polled.                                                       *)
Reopen(l) ==
  /\ \/ At(l, "open") /\ Go(l, "try")
     \/ At(l, "reopen") /\ Go(l, "wait")
  /\ OpenFile(l) /\ UNCHANGED <<clientVars, serverVars, sock, pidfile>>

(* Lock free: we are the leader.  Lock held and a socket: another leader     *)
(* runs.  Lock held and no socket: a client spawns us.                       *)
TryLock(l) ==
  /\ At(l, "try")
  /\ \/ Acquire(l) /\ Go(l, "stamp") /\ UNCHANGED serverVars
     \/ sock = None /\ Contended(l) /\ Go(l, "clean") /\ UNCHANGED serverVars
     \/ sock # None /\ Held(fd[l]) /\ End(l)
  /\ UNCHANGED <<clientVars, sock, pidfile>>

WritePid(l) ==
  /\ \/ At(l, "stamp") /\ Go(l, "clean")
     \/ At(l, "restamp") /\ Go(l, "lead")
  /\ pidfile' = l /\ UNCHANGED <<clientVars, serverVars, lockVars, sock>>

(* cleanup_socket, and again before the server binds.                        *)
CleanSocket(l) ==
  /\ \/ At(l, "clean") /\ Go(l, "unbind")
     \/ At(l, "unbind") /\ Go(l, "bind")
  /\ sock' = None /\ UNCHANGED <<clientVars, serverVars, lockVars, pidfile>>

(* The bind fails if another socket has come; the process does not notice.   *)
Bind(l) ==
  /\ At(l, "bind") /\ Go(l, "look")
  /\ IF sock = None THEN sock' = l /\ serving' = serving \cup {l}
     ELSE UNCHANGED <<sock, serving>>
  /\ UNCHANGED <<clientVars, ending, relaunching, legacy, lockVars, pidfile>>

(* The wait for a socket, anybody's, or its timeout.                         *)
LookForSocket(l) ==
  /\ At(l, "look")
  /\ \/ sock # None /\ l \in locked /\ Go(l, "lead") /\ UNCHANGED serverVars
     \/ sock # None /\ l \notin locked /\ Go(l, "reopen") /\ UNCHANGED serverVars
     \/ sock = None /\ Go(l, "quit") /\ Cancel(l)
  /\ UNCHANGED <<clientVars, lockVars, sock, pidfile>>

(* The lock is handed over, or LEADER_LOCK_TIMEOUT passes.                   *)
LeadAnyway(l) ==
  /\ At(l, "wait")
  /\ \/ Acquire(l) /\ Go(l, "restamp")
     \/ Contended(l) /\ Go(l, "restamp")
  /\ UNCHANGED <<clientVars, serverVars, sock, pidfile>>
AwaitLock(l) ==
  /\ At(l, "wait")
  /\ \/ Acquire(l) /\ Go(l, "restamp") /\ UNCHANGED serverVars
     \/ Contended(l) /\ Go(l, "quit") /\ Cancel(l)
  /\ UNCHANGED <<clientVars, sock, pidfile>>

(* The leader shuts down: for the relaunch it accepted, because its server   *)
(* never ran, or on its own.                                                 *)
Shutdown(l) ==
  /\ At(l, "lead") /\ Go(l, "quit") /\ Cancel(l)
  /\ UNCHANGED <<clientVars, lockVars, sock, pidfile>>
Drain(l) == (l \in relaunching \/ l \notin serving) /\ Shutdown(l)
Quit(l)  == l \in MayQuit /\ Shutdown(l)

(* run_leader returns: its LeaderLock is dropped and the process exits.      *)
DropLock(l) ==
  /\ \/ At(l, "quit") /\ l \in locked /\ Unlink(l) /\ Go(l, "unsock")
        /\ UNCHANGED <<serverVars, sock>>
     \/ At(l, "quit") /\ l \notin locked /\ End(l) /\ UNCHANGED sock
     \/ At(l, "unsock") /\ sock' = None /\ End(l)
  /\ UNCHANGED <<clientVars, pidfile>>

(* Meanwhile its server may get to remove the socket, whosever it is.        *)
ServerEnds(l) ==
  /\ l \in ending /\ ending' = ending \ {l} /\ sock' = None
  /\ UNCHANGED <<clientVars, stage, serving, relaunching, legacy, lockVars, pidfile>>

Crash(l) ==
  /\ l \in MayCrash /\ Alive(l) /\ End(l) /\ UNCHANGED <<clientVars, sock, pidfile>>

LeaderStep(l) ==
  \/ Reopen(l) \/ TryLock(l) \/ WritePid(l) \/ CleanSocket(l) \/ Bind(l)
  \/ LookForSocket(l) \/ AwaitLock(l) \/ Drain(l) \/ DropLock(l)

-----------------------------------------------------------------------------
(* A client in connect_or_spawn.                                            *)

In(c, s)   == pc[c] = s
To(c, s)   == pc' = [pc EXCEPT ![c] = s]
Connect(c) == sock \in serving /\ conn' = [conn EXCEPT ![c] = sock]
Refused(c) == sock \notin serving /\ UNCHANGED conn
HangUp(c)  == conn' = [conn EXCEPT ![c] = None]
elsewhere  == UNCHANGED <<stage, serverVars, sock, pidfile>>

(* A registration is complete once the leader is ready, and says its version;*)
(* until then the connection may close and the wait may time out.            *)
Registered(c) == conn[c] \in serving /\ At(conn[c], "lead")
Lost(c)       == ~Registered(c) /\ HangUp(c)
Adopted(c)    == Registered(c) /\ conn[c] \notin Old /\ UNCHANGED conn
TooOld(c)     == Registered(c) /\ conn[c] \in Old

(* The fast path: a socket, and a pid that is not known to be dead.          *)
FastPath(c) ==
  LET plausible == sock # None /\ (pidfile = None \/ Alive(pidfile))
  IN  /\ In(c, "idle")
      /\ \/ plausible /\ Connect(c) /\ To(c, "fastWait")
         \/ plausible /\ Refused(c) /\ To(c, "open")
         \/ ~plausible /\ To(c, "open") /\ UNCHANGED conn
      /\ UNCHANGED <<target, lockVars>> /\ elsewhere
FastWait(c) ==
  /\ In(c, "fastWait")
  /\ \/ Adopted(c) /\ To(c, "drop")
     \/ TooOld(c) /\ HangUp(c) /\ To(c, "open")
     \/ Lost(c) /\ To(c, "open")
  /\ UNCHANGED <<target, lockVars>> /\ elsewhere

(* try_acquire.                                                              *)
TakeLock(c) ==
  /\ \/ In(c, "open") /\ OpenFile(c) /\ To(c, "try")
     \/ In(c, "try") /\ Acquire(c) /\ To(c, "look")
     \/ In(c, "try") /\ Contended(c) /\ To(c, "poll")
  /\ UNCHANGED <<conn, target>> /\ elsewhere

(* With the lock: a sibling may have spawned a leader.                       *)
LookForSibling(c) ==
  /\ In(c, "look")
  /\ \/ Alive(pidfile) /\ Connect(c) /\ To(c, "siblingWait")
     \/ ~Alive(pidfile) /\ To(c, "spawn") /\ UNCHANGED conn
     \/ Alive(pidfile) /\ Refused(c) /\ To(c, "spawn")
  /\ UNCHANGED <<target, lockVars>> /\ elsewhere
SiblingWait(c) ==
  /\ In(c, "siblingWait")
  /\ \/ Adopted(c) /\ Close(c) /\ To(c, "drop") /\ UNCHANGED target
     \/ TooOld(c) /\ To(c, "evict") /\ target' = [target EXCEPT ![c] = pidfile]
        /\ UNCHANGED <<conn, lockVars>>
     \/ Lost(c) /\ To(c, "spawn") /\ UNCHANGED <<target, lockVars>>
  /\ elsewhere

(* request_leader_vacate: by the message, which only an older leader takes   *)
(* and only while it serves, or by a SIGTERM to pid p.                       *)
VacateByPid(l, p) ==
  \/ Alive(p) /\ End(p)
  \/ ~Alive(p) /\ UNCHANGED <<stage, serverVars, lockVars>>
Vacate(l, p) ==
  \/ /\ l \notin legacy /\ relaunching' = relaunching \cup ({l} \cap serving \cap Old)
     /\ UNCHANGED <<stage, serving, ending, legacy, lockVars>>
  \/ l \in legacy /\ Alive(p) /\ End(p)
  \/ l \in legacy /\ ~Alive(p) /\ UNCHANGED <<stage, serverVars, lockVars>>

(* evict_leader: after the grace the pid is signalled if it is still there.  *)
Evict(c) ==
  /\ In(c, "evict") /\ Vacate(conn[c], target[c]) /\ HangUp(c) /\ To(c, "evicting")
  /\ UNCHANGED <<target, sock, pidfile>>
Evicting(c) ==
  /\ In(c, "evicting") /\ To(c, "spawn") /\ target' = [target EXCEPT ![c] = None]
  /\ \/ Alive(target[c]) /\ End(target[c])
     \/ ~Alive(target[c]) /\ UNCHANGED <<stage, serverVars, lockVars>>
  /\ UNCHANGED <<conn, sock, pidfile>>

(* cleanup_socket and the spawn, which fails when there is no leader left.   *)
Spare == {l \in Leader \ ByHand : At(l, "off")}
Spawn(c) ==
  /\ In(c, "spawn") /\ sock' = None
  /\ \/ \E l \in Spare : (\A m \in Spare : l <= m) /\ Go(l, "open") /\ To(c, "await")
     \/ Spare = {} /\ To(c, "drop") /\ UNCHANGED stage
  /\ UNCHANGED <<conn, target, serverVars, lockVars, pidfile>>

(* wait_for_listener_ready, and the release; on its timeout there is none.   *)
AwaitListener(c) ==
  /\ In(c, "await")
  /\ \/ sock # None /\ Close(c) /\ To(c, "connect")
     \/ sock = None /\ To(c, "drop") /\ UNCHANGED lockVars
  /\ UNCHANGED <<conn, target>> /\ elsewhere

(* The spawned leader is connected to whatever its version.                  *)
ConnectSpawned(c) ==
  /\ \/ In(c, "connect") /\ Connect(c) /\ To(c, "spawnWait")
     \/ In(c, "connect") /\ Refused(c) /\ To(c, "drop")
     \/ In(c, "spawnWait") /\ Registered(c) /\ To(c, "drop") /\ UNCHANGED conn
     \/ In(c, "spawnWait") /\ Lost(c) /\ To(c, "drop")
  /\ UNCHANGED <<target, lockVars>> /\ elsewhere

(* wait_for_socket_connectable: when the time is up, the last error is       *)
(* returned, or the lock is tried again if there was none.                   *)
PollPatient(c) ==
  /\ pc[c] \in {"poll", "repoll"} /\ Connect(c) /\ To(c, "pollWait")
  /\ UNCHANGED <<target, lockVars>> /\ elsewhere
Poll(c) ==
  /\ pc[c] \in {"poll", "repoll"}
  /\ \/ Connect(c) /\ To(c, "pollWait")
     \/ In(c, "repoll") /\ To(c, "drop") /\ UNCHANGED conn
     \/ In(c, "poll") /\ Refused(c) /\ sock # None /\ To(c, "drop")
     \/ In(c, "poll") /\ Refused(c) /\ sock = None /\ To(c, "open")
  /\ UNCHANGED <<target, lockVars>> /\ elsewhere
PollWait(c) ==
  /\ In(c, "pollWait")
  /\ \/ Adopted(c) /\ To(c, "drop")
     \/ TooOld(c) /\ To(c, "vacate") /\ UNCHANGED conn
     \/ Lost(c) /\ To(c, "repoll")
  /\ UNCHANGED <<target, lockVars>> /\ elsewhere
VacateHolding(c) ==
  /\ In(c, "vacate") /\ Vacate(conn[c], pidfile) /\ To(c, "open")
  /\ UNCHANGED <<conn, target, sock, pidfile>>
AskToVacate(c) ==
  /\ In(c, "vacate") /\ Vacate(conn[c], pidfile) /\ HangUp(c) /\ To(c, "open")
  /\ UNCHANGED <<target, sock, pidfile>>

(* connect_or_spawn returns, and its LeaderLock is dropped.                  *)
Return(c) ==
  LET result == IF conn[c] = None THEN "failed" ELSE "done"
  IN  /\ \/ In(c, "drop") /\ c \in locked /\ Unlink(c) /\ To(c, "unsock")
            /\ UNCHANGED sock
         \/ In(c, "drop") /\ c \notin locked /\ To(c, result)
            /\ UNCHANGED <<lockVars, sock>>
         \/ In(c, "unsock") /\ Close(c) /\ To(c, result) /\ sock' = None
      /\ UNCHANGED <<conn, target, stage, serverVars, pidfile>>

ClientStep(c) ==
  \/ FastWait(c) \/ TakeLock(c) \/ LookForSibling(c) \/ SiblingWait(c) \/ Evict(c) \/ Evicting(c)
  \/ Spawn(c) \/ AwaitListener(c) \/ ConnectSpawned(c) \/ Poll(c) \/ PollWait(c)
  \/ AskToVacate(c) \/ Return(c)

Next ==
  \/ \E c \in Client : FastPath(c) \/ ClientStep(c)
  \/ \E l \in Leader : StartByHand(l) \/ LeaderStep(l) \/ Quit(l) \/ ServerEnds(l) \/ Crash(l)

Spec == Init /\ [][Next]_vars

(* Every process runs on; nothing makes a client call, a leader start, quit  *)
(* or crash, or lets a server finish before its process exits.               *)
FairSpec ==
  /\ Spec
  /\ \A c \in Client : WF_vars(ClientStep(c))
  /\ \A l \in Leader : WF_vars(LeaderStep(l))

-----------------------------------------------------------------------------
Leading == {l \in Leader : At(l, "lead")}

(* "Exclusive lock indicates who is the leader": two processes lead at once *)
(* only after a lock file was unlinked, by a leader that ended or a client  *)
(* that failed, while another process had it open.                          *)
OneLeader == stray \/ \A l, m \in Leading : l = m

(* "Newer client replaces older leader, never the reverse": no client stops *)
(* a leader that is as new as itself.  Exempt are stray lock files, and the *)
(* SIGTERM to whichever pid the file names by the time the legacy leader it *)
(* was meant for has gone.                                                  *)
SparesCurrent ==
  [][\A c \in Client : \A l \in Leader \ Old :
       (Evict(c) \/ Evicting(c) \/ AskToVacate(c)) /\ Alive(l) =>
         \/ stage'[l] # "dead"
         \/ stray
         \/ conn[c] \in legacy /\ conn[c] \notin serving]_vars

(* A leader that holds the lock file and cannot be found: by its socket, or *)
(* by its pid.                                                              *)
Hidden == \E l \in Leading : l \in locked /\ fd[l] = file /\ (sock # l \/ pidfile # l)

Calling(c) == pc[c] \notin {"idle", "done", "failed"}

(* connect_or_spawn returns, whoever else calls, starts, quits or crashes,  *)
(* unless some leader keeps the lock and has lost its socket or pid.        *)
Returns == \A c \in Client : Calling(c) ~> (~Calling(c) \/ Hidden)
=============================================================================
