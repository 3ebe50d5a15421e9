------------------------ MODULE LeaderElectionProofs ------------------------
(***************************************************************************)
(* Proofs about LeaderElection, for any finite sets of clients and leaders *)
(* and with no bound on which of them quit or crash.                       *)
(*                                                                         *)
(* That at most one process leads is not inductive: it rests on who may    *)
(* hold which lock.  The invariant IInv says that a lock has one holder,   *)
(* that locks are of the file at the lock path unless one went astray,     *)
(* that a leader keeps its lock, that a process outside its critical       *)
(* section has none, and that a process that tries has a file to lock.     *)
(* One lemma per action follows the lemmas about the operations of         *)
(* LeaderLock.  The second part adds what clients know of leaders: whom    *)
(* the pid file names, and whom a client may find under its own lock.      *)
(***************************************************************************)
EXTENDS LeaderElection, TLAPS

(* An flock has one holder.                                                 *)
Exclusive == \A p, q \in locked : fd[p] = fd[q] => p = q
(* Every open lock file is the one at the lock path, but that of a process   *)
(* that has just unlinked it.                                               *)
Shared ==
  ~stray => /\ \A c \in Client : fd[c] # None /\ ~In(c, "unsock") => fd[c] = file
            /\ \A l \in Leader : fd[l] # None /\ ~At(l, "unsock") => fd[l] = file
(* A process leads with the lock it took.                                   *)
LeadersLock == \A l \in Leader : stage[l] \in {"stamp", "restamp", "lead"} => l \in locked
(* Where a client, and a leader, has no lock; and where it has a file open.  *)
Outside == {"idle", "fastWait", "open", "try", "poll", "repoll", "pollWait", "vacate"}
NoneEarly ==
  /\ \A c \in Client : pc[c] \in Outside => c \notin locked
  /\ \A l \in Leader : stage[l] \in {"off", "open", "try", "reopen", "wait"} => l \notin locked
Opened ==
  /\ \A c \in Client : In(c, "try") => fd[c] # None
  /\ \A l \in Leader : stage[l] \in {"try", "wait"} => fd[l] # None
IInv == TypeOK /\ Exclusive /\ Shared /\ LeadersLock /\ NoneEarly /\ Opened

LEMMA InodesAreNotNone == ASSUME NEW i \in Inodes PROVE i # None
  BY SMT DEF Inodes, None

LEMMA EndTyped == ASSUME LeaderType, NEW l \in Leader, End(l) PROVE LeaderType'
  BY SMT DEF LeaderType, Starting, End, Go
LEMMA GoTyped ==
  ASSUME LeaderType, NEW l \in Leader, NEW s \in Starting \cup {"lead", "quit", "unsock"}, Go(l, s),
         \/ UNCHANGED serverVars
         \/ Cancel(l)
         \/ serving' = serving \cup {l} /\ UNCHANGED <<ending, relaunching, legacy>>
  PROVE  LeaderType'
  BY SMT DEF LeaderType, Starting, Go, Cancel, serverVars
LEMMA VacateTyped ==
  ASSUME LeaderType, NEW l, NEW p, Vacate(l, p) PROVE LeaderType'
  BY EndTyped, SMT DEF LeaderType, Vacate, Alive, serverVars

(* The lock: closing and unlinking a file leaves every lock with one holder. *)
LEMMA CloseKeeps ==
  ASSUME LockType, Exclusive, NEW p \in Process, Close(p)
  PROVE  LockType' /\ Exclusive'
  BY SMT DEF LockType, Exclusive, Close
LEMMA UnlinkKeeps ==
  ASSUME LockType, Exclusive, NEW p \in Process, Unlink(p)
  PROVE  LockType' /\ Exclusive'
<1>1. stray' \in BOOLEAN BY Zenon DEF Unlink
<1>2. QED BY <1>1, SMT DEF LockType, Exclusive, Unlink
(* If an unlink leaves no stray, nobody else had the file open.             *)
LEMMA UnlinkShares ==
  ASSUME NEW p \in Process, Unlink(p), ~stray', file # None
  PROVE  ~stray /\ \A q \in Process \ {p} : fd[q] # file
<1>1. ~(stray \/ (file # None /\ \E q \in Process \ {p} : fd[q] = file))
  BY Zenon DEF Unlink
<1>2. QED
  BY <1>1

LEMMA BindTyped ==
  ASSUME LeaderType, NEW l \in Leader, Bind(l) PROVE LeaderType'
<1>1. Go(l, "look") /\ "look" \in Starting
  BY DEF Bind, Starting
<1>2. CASE sock = None
  BY <1>1, <1>2, GoTyped DEF Bind
<1>3. CASE sock # None
  BY <1>1, <1>3, GoTyped DEF Bind, serverVars
<1>4. QED
  BY <1>2, <1>3

(* A request to vacate ends one leader or none.                             *)
LEMMA VacateEnds ==
  ASSUME NEW l, NEW p, Vacate(l, p)
  PROVE  UNCHANGED <<stage, lockVars>> \/ \E m \in Leader : End(m)
  BY DEF Vacate, Alive

-----------------------------------------------------------------------------
(* Each action keeps IInv.  The definitions below are expanded throughout.  *)
USE LeaderAssumption, ClientAssumption
USE DEF Process, None, In, To, At, Go, clientVars, serverVars, lockVars, elsewhere,
  Linked, Unlinked, Returning, Starting, Outside
USE DEF IInv, TypeOK, ClientType, LockType, Exclusive, Shared,
  LeadersLock, NoneEarly, Opened

LEMMA FastPathKeeps == ASSUME IInv, NEW c \in Client, FastPath(c) PROVE IInv'
<1>1. TypeOK' /\ Exclusive'
  <2>1. ClientType'
    <3>1. /\ UNCHANGED target
          /\ \/ sock \in Leader /\ conn' = [conn EXCEPT ![c] = sock] /\ To(c, "fastWait")
             \/ UNCHANGED conn /\ conn[c] = None /\ To(c, "open")
      BY SMT DEF FastPath, Connect, Refused, LeaderType
    <3>2. QED
      BY <3>1, SMT
  <2>2. LeaderType'
    BY SMT DEF FastPath, Connect, Refused, LeaderType
  <2>3. LockType' /\ Exclusive'
    BY InodesAreNotNone, SMT DEF FastPath, Connect, Refused, LeaderType
  <2>4. QED
    BY <2>1, <2>2, <2>3, SMT DEF FastPath, Connect, Refused, LeaderType
<1>2. Shared'
  BY SMT DEF FastPath, Connect, Refused, LeaderType
<1>3. LeadersLock' /\ NoneEarly' /\ Opened'
  BY InodesAreNotNone, SMT DEF FastPath, Connect, Refused, LeaderType
<1>4. QED
  BY <1>1, <1>2, <1>3 DEF IInv

LEMMA FastWaitKeeps == ASSUME IInv, NEW c \in Client, FastWait(c) PROVE IInv'
  BY InodesAreNotNone, SMT DEF FastWait, Adopted, TooOld, Lost, Registered, HangUp, LeaderType

LEMMA TakeLockKeeps == ASSUME IInv, NEW c \in Client, TakeLock(c) PROVE IInv'
  BY InodesAreNotNone, SMT DEF TakeLock, OpenFile, Acquire, Contended, Close, Held, LeaderType

LEMMA LookForSiblingKeeps == ASSUME IInv, NEW c \in Client, LookForSibling(c) PROVE IInv'
  BY InodesAreNotNone, SMT DEF LookForSibling, Connect, Refused, LeaderType

LEMMA SiblingWaitKeeps == ASSUME IInv, NEW c \in Client, SiblingWait(c) PROVE IInv'
  BY InodesAreNotNone, SMT DEF SiblingWait, Adopted, TooOld, Lost, Registered, HangUp, Close, LeaderType

LEMMA EvictKeeps == ASSUME IInv, NEW c \in Client, Evict(c) PROVE IInv'
<1>1. TypeOK' /\ Exclusive'
  <2>1. ClientType'
    BY SMT DEF Evict, Vacate, End, Close, HangUp, LeaderType
  <2>2. LeaderType'
    BY VacateTyped DEF Evict
  <2>3. LockType' /\ Exclusive'
    BY InodesAreNotNone, SMT DEF Evict, Vacate, End, Close, HangUp, LeaderType
  <2>4. QED
    BY <2>1, <2>2, <2>3, SMT DEF Evict, Vacate, End, Close, HangUp, LeaderType
<1>2. Shared'
  BY SMT DEF Evict, Vacate, End, Close, HangUp, LeaderType
<1>3. LeadersLock' /\ NoneEarly' /\ Opened'
  <2>1. CASE UNCHANGED <<stage, lockVars>>
    BY <2>1, SMT DEF Evict
  <2>2. ASSUME NEW m \in Leader, End(m)
        PROVE  LeadersLock' /\ NoneEarly' /\ Opened'
    <3>1. LeadersLock' /\ NoneEarly'
      BY <2>2, SMT DEF Evict, LeaderType, End, Close
    <3>2. Opened'
      BY <2>2, SMT DEF Evict, LeaderType, End, Close
    <3>3. QED
      BY <3>1, <3>2
  <2>3. QED
    BY <2>1, <2>2, VacateEnds DEF Evict
<1>4. QED
  BY <1>1, <1>2, <1>3 DEF IInv

LEMMA EvictingKeeps == ASSUME IInv, NEW c \in Client, Evicting(c) PROVE IInv'
<1>1. TypeOK' /\ Exclusive'
  <2>1. ClientType'
    BY SMT DEF Evicting, End, Close, LeaderType
  <2>2. LeaderType'
    <3>1. CASE UNCHANGED <<stage, serverVars>>
      BY <3>1 DEF LeaderType
    <3>2. CASE target[c] \in Leader /\ End(target[c])
      BY <3>2, EndTyped
    <3>3. QED
      BY <3>1, <3>2 DEF Evicting, Alive
  <2>3. LockType' /\ Exclusive'
    BY InodesAreNotNone, SMT DEF Evicting, End, Close, LeaderType
  <2>4. QED
    BY <2>1, <2>2, <2>3, SMT DEF Evicting, End, Close, LeaderType
<1>2. Shared'
  BY SMT DEF Evicting, End, Close, LeaderType
<1>3. LeadersLock' /\ NoneEarly' /\ Opened'
  <2>1. CASE UNCHANGED <<stage, fd, locked>>
    BY <2>1, SMT DEF Evicting
  <2>2. ASSUME NEW m \in Leader, End(m)
        PROVE  LeadersLock' /\ NoneEarly' /\ Opened'
    <3>1. LeadersLock' /\ NoneEarly'
      BY <2>2, SMT DEF Evicting, LeaderType, End, Close
    <3>2. Opened'
      BY <2>2, SMT DEF Evicting, LeaderType, End, Close
    <3>3. QED
      BY <3>1, <3>2
  <2>3. QED
    BY <2>1, <2>2 DEF Evicting, Alive
<1>4. QED
  BY <1>1, <1>2, <1>3 DEF IInv

LEMMA SpawnKeeps == ASSUME IInv, NEW c \in Client, Spawn(c) PROVE IInv'
<1>1. TypeOK' /\ Exclusive'
  <2>1. ClientType'
    BY SMT DEF Spawn, Spare, LeaderType
  <2>2. LeaderType'
    BY SMT DEF Spawn, Spare, LeaderType
  <2>3. LockType' /\ Exclusive'
    BY InodesAreNotNone, SMT DEF Spawn, Spare, LeaderType
  <2>4. QED
    BY <2>1, <2>2, <2>3, SMT DEF Spawn, Spare, LeaderType
<1>2. Shared'
  BY SMT DEF Spawn, Spare, LeaderType
<1>3. LeadersLock' /\ NoneEarly' /\ Opened'
  BY InodesAreNotNone, SMT DEF Spawn, Spare, LeaderType
<1>4. QED
  BY <1>1, <1>2, <1>3 DEF IInv

LEMMA AwaitListenerKeeps == ASSUME IInv, NEW c \in Client, AwaitListener(c) PROVE IInv'
  BY InodesAreNotNone, SMT DEF AwaitListener, Close, LeaderType

LEMMA ConnectSpawnedKeeps == ASSUME IInv, NEW c \in Client, ConnectSpawned(c) PROVE IInv'
  BY InodesAreNotNone, SMT DEF ConnectSpawned, Connect, Refused, Registered, Lost, HangUp, LeaderType

LEMMA PollKeeps == ASSUME IInv, NEW c \in Client, Poll(c) PROVE IInv'
  BY InodesAreNotNone, SMT DEF Poll, Connect, Refused, LeaderType

LEMMA PollWaitKeeps == ASSUME IInv, NEW c \in Client, PollWait(c) PROVE IInv'
  BY InodesAreNotNone, SMT DEF PollWait, Adopted, TooOld, Lost, Registered, HangUp, LeaderType

LEMMA AskToVacateKeeps == ASSUME IInv, NEW c \in Client, AskToVacate(c) PROVE IInv'
<1>1. TypeOK' /\ Exclusive'
  <2>1. ClientType'
    BY SMT DEF AskToVacate, Vacate, End, Close, HangUp, LeaderType
  <2>2. LeaderType'
    BY VacateTyped DEF AskToVacate
  <2>3. LockType' /\ Exclusive'
    BY InodesAreNotNone, SMT DEF AskToVacate, Vacate, End, Close, HangUp, LeaderType
  <2>4. QED
    BY <2>1, <2>2, <2>3, SMT DEF AskToVacate, Vacate, End, Close, HangUp, LeaderType
<1>2. Shared'
  BY SMT DEF AskToVacate, Vacate, End, Close, HangUp, LeaderType
<1>3. LeadersLock' /\ NoneEarly' /\ Opened'
  <2>1. CASE UNCHANGED <<stage, lockVars>>
    BY <2>1, SMT DEF AskToVacate
  <2>2. ASSUME NEW m \in Leader, End(m)
        PROVE  LeadersLock' /\ NoneEarly' /\ Opened'
    <3>1. LeadersLock' /\ NoneEarly'
      BY <2>2, SMT DEF AskToVacate, LeaderType, End, Close
    <3>2. Opened'
      BY <2>2, SMT DEF AskToVacate, LeaderType, End, Close
    <3>3. QED
      BY <3>1, <3>2
  <2>3. QED
    BY <2>1, <2>2, VacateEnds DEF AskToVacate
<1>4. QED
  BY <1>1, <1>2, <1>3 DEF IInv

LEMMA ReturnKeeps == ASSUME IInv, NEW c \in Client, Return(c) PROVE IInv'
<1>1. TypeOK' /\ Exclusive'
  <2>1. ClientType'
    BY SMT DEF Return, Unlink, Close, LeaderType
  <2>2. LeaderType'
    BY SMT DEF Return, Unlink, Close, LeaderType
  <2>3. LockType' /\ Exclusive'
    BY CloseKeeps, UnlinkKeeps, SMT DEF Return
  <2>4. QED
    BY <2>1, <2>2, <2>3, SMT DEF Return, Unlink, Close, LeaderType
<1>2. Shared'
  <2>1. CASE In(c, "drop") /\ c \in locked
    <3>1. Unlink(c) /\ fd[c] # None
      BY <2>1, SMT DEF Return, Unlink, Close, LeaderType
    <3>2. QED
      BY <2>1, <3>1, UnlinkShares, SMT DEF Return, Unlink, Close, LeaderType
  <2>2. CASE ~(In(c, "drop") /\ c \in locked)
    BY <2>2, SMT DEF Return, Unlink, Close, LeaderType
  <2>3. QED
    BY <2>1, <2>2
<1>3. LeadersLock' /\ NoneEarly' /\ Opened'
  BY InodesAreNotNone, SMT DEF Return, Unlink, Close, LeaderType
<1>4. QED
  BY <1>1, <1>2, <1>3 DEF IInv

LEMMA StartByHandKeeps == ASSUME IInv, NEW l \in Leader, StartByHand(l) PROVE IInv'
  BY InodesAreNotNone, SMT DEF StartByHand, LeaderType

LEMMA ReopenKeeps == ASSUME IInv, NEW l \in Leader, Reopen(l) PROVE IInv'
  BY InodesAreNotNone, SMT DEF Reopen, OpenFile, LeaderType

LEMMA TryLockKeeps == ASSUME IInv, NEW l \in Leader, TryLock(l) PROVE IInv'
<1>1. TypeOK' /\ Exclusive'
  <2>1. ClientType'
    BY SMT DEF TryLock, Acquire, Contended, Close, Held, End, LeaderType
  <2>2. LeaderType'
    BY GoTyped, EndTyped, SMT DEF TryLock
  <2>3. LockType' /\ Exclusive'
    BY InodesAreNotNone, SMT DEF TryLock, Acquire, Contended, Close, Held, End, LeaderType
  <2>4. QED
    BY <2>1, <2>2, <2>3, SMT DEF TryLock, Acquire, Contended, Close, Held, End, LeaderType
<1>2. Shared'
  BY SMT DEF TryLock, Acquire, Contended, Close, Held, End, LeaderType
<1>3. LeadersLock' /\ NoneEarly' /\ Opened'
  BY InodesAreNotNone, SMT DEF TryLock, Acquire, Contended, Close, Held, End, LeaderType
<1>4. QED
  BY <1>1, <1>2, <1>3 DEF IInv

LEMMA WritePidKeeps == ASSUME IInv, NEW l \in Leader, WritePid(l) PROVE IInv'
<1>1. TypeOK' /\ Exclusive'
  <2>1. ClientType'
    BY SMT DEF WritePid, LeaderType
  <2>2. LeaderType'
    BY SMT DEF WritePid, LeaderType
  <2>3. LockType' /\ Exclusive'
    BY InodesAreNotNone, SMT DEF WritePid, LeaderType
  <2>4. QED
    BY <2>1, <2>2, <2>3, SMT DEF WritePid, LeaderType
<1>2. Shared'
  BY SMT DEF WritePid, LeaderType
<1>3. LeadersLock' /\ NoneEarly' /\ Opened'
  BY InodesAreNotNone, SMT DEF WritePid, LeaderType
<1>4. QED
  BY <1>1, <1>2, <1>3 DEF IInv

LEMMA CleanSocketKeeps == ASSUME IInv, NEW l \in Leader, CleanSocket(l) PROVE IInv'
<1>1. TypeOK' /\ Exclusive'
  <2>1. ClientType'
    BY SMT DEF CleanSocket, LeaderType
  <2>2. LeaderType'
    BY SMT DEF CleanSocket, LeaderType
  <2>3. LockType' /\ Exclusive'
    BY InodesAreNotNone, SMT DEF CleanSocket, LeaderType
  <2>4. QED
    BY <2>1, <2>2, <2>3, SMT DEF CleanSocket, LeaderType
<1>2. Shared'
  BY SMT DEF CleanSocket, LeaderType
<1>3. LeadersLock' /\ NoneEarly' /\ Opened'
  BY InodesAreNotNone, SMT DEF CleanSocket, LeaderType
<1>4. QED
  BY <1>1, <1>2, <1>3 DEF IInv

LEMMA BindKeeps == ASSUME IInv, NEW l \in Leader, Bind(l) PROVE IInv'
<1>1. TypeOK' /\ Exclusive'
  <2>1. ClientType'
    BY SMT DEF Bind, LeaderType
  <2>2. LeaderType'
    BY BindTyped
  <2>3. LockType' /\ Exclusive'
    BY InodesAreNotNone, SMT DEF Bind, LeaderType
  <2>4. QED
    BY <2>1, <2>2, <2>3, SMT DEF Bind, LeaderType
<1>2. Shared'
  BY SMT DEF Bind, LeaderType
<1>3. LeadersLock' /\ NoneEarly' /\ Opened'
  BY InodesAreNotNone, SMT DEF Bind, LeaderType
<1>4. QED
  BY <1>1, <1>2, <1>3 DEF IInv

LEMMA LookForSocketKeeps == ASSUME IInv, NEW l \in Leader, LookForSocket(l) PROVE IInv'
<1>1. TypeOK' /\ Exclusive'
  <2>1. ClientType'
    BY SMT DEF LookForSocket, Cancel, LeaderType
  <2>2. LeaderType'
    BY GoTyped, SMT DEF LookForSocket
  <2>3. LockType' /\ Exclusive'
    BY InodesAreNotNone, SMT DEF LookForSocket, Cancel, LeaderType
  <2>4. QED
    BY <2>1, <2>2, <2>3, SMT DEF LookForSocket, Cancel, LeaderType
<1>2. Shared'
  BY SMT DEF LookForSocket, Cancel, LeaderType
<1>3. LeadersLock' /\ NoneEarly' /\ Opened'
  BY InodesAreNotNone, SMT DEF LookForSocket, Cancel, LeaderType
<1>4. QED
  BY <1>1, <1>2, <1>3 DEF IInv

LEMMA AwaitLockKeeps == ASSUME IInv, NEW l \in Leader, AwaitLock(l) PROVE IInv'
<1>1. TypeOK' /\ Exclusive'
  <2>1. ClientType'
    BY SMT DEF AwaitLock, Acquire, Contended, Close, Held, Cancel, LeaderType
  <2>2. LeaderType'
    BY GoTyped, SMT DEF AwaitLock
  <2>3. LockType' /\ Exclusive'
    BY InodesAreNotNone, SMT DEF AwaitLock, Acquire, Contended, Close, Held, Cancel, LeaderType
  <2>4. QED
    BY <2>1, <2>2, <2>3, SMT DEF AwaitLock, Acquire, Contended, Close, Held, Cancel, LeaderType
<1>2. Shared'
  BY SMT DEF AwaitLock, Acquire, Contended, Close, Held, Cancel, LeaderType
<1>3. LeadersLock' /\ NoneEarly' /\ Opened'
  BY InodesAreNotNone, SMT DEF AwaitLock, Acquire, Contended, Close, Held, Cancel, LeaderType
<1>4. QED
  BY <1>1, <1>2, <1>3 DEF IInv

LEMMA DrainKeeps == ASSUME IInv, NEW l \in Leader, Drain(l) PROVE IInv'
  BY InodesAreNotNone, SMT DEF Drain, Shutdown, Cancel, LeaderType

LEMMA QuitKeeps == ASSUME IInv, NEW l \in Leader, Quit(l) PROVE IInv'
  BY InodesAreNotNone, SMT DEF Quit, Shutdown, Cancel, LeaderType

LEMMA DropLockKeeps == ASSUME IInv, NEW l \in Leader, DropLock(l) PROVE IInv'
<1>1. TypeOK' /\ Exclusive'
  <2>1. ClientType'
    BY SMT DEF DropLock, Unlink, Close, End, LeaderType
  <2>2. LeaderType'
    BY GoTyped, EndTyped, SMT DEF DropLock
  <2>3. LockType' /\ Exclusive'
    BY CloseKeeps, UnlinkKeeps, SMT DEF DropLock, End
  <2>4. QED
    BY <2>1, <2>2, <2>3, SMT DEF DropLock, Unlink, Close, End, LeaderType
<1>2. Shared'
  <2>1. CASE At(l, "quit") /\ l \in locked
    <3>1. Unlink(l) /\ fd[l] # None
      BY <2>1, SMT DEF DropLock, Unlink, Close, End, LeaderType
    <3>2. QED
      BY <2>1, <3>1, UnlinkShares, SMT DEF DropLock, Unlink, Close, End, LeaderType
  <2>2. CASE ~(At(l, "quit") /\ l \in locked)
    BY <2>2, SMT DEF DropLock, Unlink, Close, End, LeaderType
  <2>3. QED
    BY <2>1, <2>2
<1>3. LeadersLock' /\ NoneEarly' /\ Opened'
  BY InodesAreNotNone, SMT DEF DropLock, Unlink, Close, End, LeaderType
<1>4. QED
  BY <1>1, <1>2, <1>3 DEF IInv

LEMMA ServerEndsKeeps == ASSUME IInv, NEW l \in Leader, ServerEnds(l) PROVE IInv'
  BY InodesAreNotNone, SMT DEF ServerEnds, LeaderType

LEMMA CrashKeeps == ASSUME IInv, NEW l \in Leader, Crash(l) PROVE IInv'
  BY InodesAreNotNone, SMT DEF Crash, Alive, End, Close, LeaderType

LEMMA InitHolds == Init => IInv
<1> SUFFICES ASSUME Init PROVE IInv
  OBVIOUS
<1> USE DEF Init
<1>1. ClientType
  BY SMT
<1>2. LeaderType
  BY SMT DEF LeaderType
<1>3. LockType
  BY Zenon
<1>4. Exclusive /\ Shared /\ LeadersLock /\ NoneEarly /\ Opened
  BY SMT
<1>5. QED
  BY <1>1, <1>2, <1>3, <1>4

LEMMA NextKeeps == IInv /\ [Next]_vars => IInv'
<1>1. ASSUME IInv, UNCHANGED vars PROVE IInv'
  BY <1>1 DEF vars, LeaderType
<1>2. ASSUME IInv, NEW c \in Client, FastPath(c) \/ ClientStep(c) PROVE IInv'
  BY <1>2, FastPathKeeps, FastWaitKeeps, TakeLockKeeps, LookForSiblingKeeps,
     SiblingWaitKeeps, EvictKeeps, EvictingKeeps, SpawnKeeps, AwaitListenerKeeps,
     ConnectSpawnedKeeps, PollKeeps, PollWaitKeeps, AskToVacateKeeps, ReturnKeeps
  DEF ClientStep
<1>3. ASSUME IInv, NEW l \in Leader,
             StartByHand(l) \/ LeaderStep(l) \/ Quit(l) \/ ServerEnds(l) \/ Crash(l)
      PROVE  IInv'
  BY <1>3, StartByHandKeeps, ReopenKeeps, TryLockKeeps, WritePidKeeps,
     CleanSocketKeeps, BindKeeps, LookForSocketKeeps, AwaitLockKeeps, DrainKeeps,
     DropLockKeeps, QuitKeeps, ServerEndsKeeps, CrashKeeps
  DEF LeaderStep
<1>4. QED
  BY <1>1, <1>2, <1>3 DEF Next

(* Two leaders at once hold two locks; unless a lock file went astray, both *)
(* locks are of the file at the lock path, and a lock has one holder.       *)
LEMMA LeadersAgree == IInv => OneLeader
<1> SUFFICES ASSUME IInv, ~stray, NEW l \in Leading, NEW m \in Leading
             PROVE  l = m
  BY Zenon DEF OneLeader
<1>1. l \in locked /\ m \in locked /\ stage[l] = "lead" /\ stage[m] = "lead"
      /\ l \in Leader /\ m \in Leader
  BY DEF Leading
<1>2. fd[l] = file /\ fd[m] = file
  BY <1>1, SMT
<1>3. QED
  BY <1>1, <1>2

HIDE DEF IInv, TypeOK, ClientType, LockType, Exclusive, Shared, LeadersLock,
  NoneEarly, Opened

(* The strengthened invariant of the election holds of every run of         *)
(* connect_or_spawn and run_leader, for any set of clients and leaders.      *)
THEOREM Invariant == Spec => []IInv
  BY InitHolds, NextKeeps, PTL DEF Spec

(* Every variable keeps its type; a process that holds the flock has the    *)
(* lock file open, and a client that waits for an answer is connected.      *)
THEOREM TypeCorrect == Spec => []TypeOK
<1>1. IInv => TypeOK
  BY DEF IInv
<1>2. QED
  BY <1>1, Invariant, PTL

(* At most one process leads as long as no lock file is unlinked under a    *)
(* process that has it open: the exclusion LeaderLock is documented to give. *)
THEOREM AtMostOneLeader == Spec => []OneLeader
  BY Invariant, LeadersAgree, PTL

-----------------------------------------------------------------------------
(* Who is evicted.  While no lock file is astray, a client that holds the   *)
(* lock meets no leader that is ready, so it has nobody to evict; and the   *)
(* pid file names the leader that holds the lock, which is the one a client *)
(* with a connection to it asks to vacate.                                  *)

(* A client that looks for a sibling does so with the lock.                 *)
Looking == \A c \in Client : pc[c] \in {"look", "siblingWait"} => c \in locked
(* Only stray lock files bring a client to evict a leader.                  *)
NoneEvicted == ~stray => \A c \in Client : pc[c] \notin {"evict", "evicting"}
(* A leader that has the lock, and has had time to, is in the pid file.     *)
Stamped ==
  ~stray => \A l \in locked \cap Leader :
              stage[l] \in {"clean", "unbind", "bind", "look", "lead"} => pidfile = l
(* Whom a client asks to vacate has been ready, and serves no longer than   *)
(* it leads.                                                                *)
Late == {"lead", "quit", "unsock", "dead"}
Vacating ==
  /\ \A c \in Client : pc[c] = "vacate" => stage[conn[c]] \in Late
  /\ \A l \in serving : stage[l] \notin Late \ {"lead"}
Eviction == Looking /\ NoneEvicted /\ Stamped /\ Vacating

(* While no lock file is astray, a lock that is held at the lock path is    *)
(* held by one process.                                                     *)
LEMMA LockIsOne ==
  ASSUME IInv, ~stray, NEW p \in locked, NEW q \in locked,
         p \in Client => pc[p] # "unsock", p \in Leader => stage[p] # "unsock",
         q \in Client => pc[q] # "unsock", q \in Leader => stage[q] # "unsock"
  PROVE  p = q
<1>1. fd[p] = file /\ fd[q] = file
  BY DEF IInv, TypeOK, LockType, Shared
<1> QED  BY <1>1 DEF IInv, Exclusive

LEMMA InitEviction == Init => Eviction
BY DEF Init, Eviction, Looking, NoneEvicted, Stamped, Vacating

USE DEF Eviction, Looking, NoneEvicted, Stamped, Vacating, Late
USE DEF IInv, TypeOK, ClientType, LockType

(* What an end of a leader, its own or another's doing, leaves of it.       *)
LEMMA EndEvicts ==
  ASSUME IInv, Eviction, NEW l \in Leader, End(l), pidfile' = pidfile,
         \A c \in Client : pc'[c] = "vacate" => pc[c] = "vacate" /\ conn'[c] = conn[c],
         \A c \in Client : pc'[c] \in {"look", "siblingWait"} => pc[c] = pc'[c],
         ~stray => \A c \in Client : pc'[c] \notin {"evict", "evicting"}
  PROVE  Eviction'
  BY DEF End, Close, LeaderType

LEMMA FastEvicts ==
  ASSUME IInv, Eviction, NEW c \in Client, FastPath(c) \/ FastWait(c) PROVE Eviction'
<1>1. UNCHANGED <<locked, stray, stage, serving, pidfile>>
      /\ \E s \in {"fastWait", "open", "drop"} : pc' = [pc EXCEPT ![c] = s]
      /\ \A d \in Client \ {c} : conn'[d] = conn[d]
  BY DEF FastPath, FastWait, Connect, Refused, HangUp, Adopted, TooOld, Lost
<1> QED  BY <1>1

LEMMA TakeLockEvicts ==
  ASSUME IInv, Eviction, NEW c \in Client, TakeLock(c) PROVE Eviction'
<1>1. UNCHANGED <<conn, stray, stage, serving, pidfile>>
  BY DEF TakeLock, OpenFile, Acquire, Contended, Close
<1>2. \/ pc' = [pc EXCEPT ![c] = "try"] /\ locked' = locked
      \/ pc' = [pc EXCEPT ![c] = "look"] /\ locked' = locked \cup {c}
      \/ pc' = [pc EXCEPT ![c] = "poll"] /\ locked' = locked \ {c}
  BY DEF TakeLock, OpenFile, Acquire, Contended, Close
<1> QED  BY <1>1, <1>2

LEMMA LookEvicts ==
  ASSUME IInv, Eviction, NEW c \in Client, LookForSibling(c) PROVE Eviction'
<1>1. UNCHANGED <<locked, stray, stage, serving, pidfile>>
      /\ \E s \in {"siblingWait", "spawn"} : pc' = [pc EXCEPT ![c] = s]
      /\ \A d \in Client \ {c} : conn'[d] = conn[d]
  BY DEF LookForSibling, Connect, Refused
<1>2. c \in locked
  BY DEF LookForSibling
<1> QED  BY <1>1, <1>2

(* The leader a client finds under its own lock has lost its lock file.     *)
LEMMA SiblingEvicts ==
  ASSUME IInv, Eviction, NEW c \in Client, SiblingWait(c) PROVE Eviction'
<1>1. UNCHANGED <<stray, stage, serving, pidfile>> /\ pc[c] = "siblingWait"
      /\ \A d \in Client \ {c} : conn'[d] = conn[d]
  BY DEF SiblingWait, Adopted, TooOld, Lost, HangUp, Close
<1>2. CASE locked' \in {locked, locked \ {c}} /\ \E s \in {"drop", "spawn"} : pc' = [pc EXCEPT ![c] = s]
  BY <1>1, <1>2
<1>3. CASE TooOld(c) /\ locked' = locked /\ pc' = [pc EXCEPT ![c] = "evict"]
  <2>1. conn[c] \in Leader /\ stage[conn[c]] = "lead" /\ c \in locked
    BY <1>1, <1>3 DEF TooOld, Registered, LeaderType
  <2>2. conn[c] \in locked
    BY <2>1 DEF LeadersLock
  <2>3. stray
    BY <1>1, <2>1, <2>2, LockIsOne
  <2> QED  BY <1>1, <1>3, <2>3
<1> QED  BY <1>2, <1>3 DEF SiblingWait, Adopted, Lost, HangUp, Close

LEMMA VacateKeeps ==
  ASSUME IInv, Eviction, NEW c \in Client, NEW l, NEW p, Vacate(l, p), pidfile' = pidfile,
         NEW s \in {"evicting", "open"}, pc' = [pc EXCEPT ![c] = s], s = "evicting" => stray,
         \A d \in Client \ {c} : conn'[d] = conn[d]
  PROVE  Eviction'
<1>1. CASE UNCHANGED <<stage, serving, lockVars>>
  BY <1>1
<1>2. ASSUME NEW m \in Leader, End(m)  PROVE Eviction'
  BY <1>2, EndEvicts
<1> QED  BY <1>1, <1>2 DEF Vacate, Alive

LEMMA EvictEvicts ==
  ASSUME IInv, Eviction, NEW c \in Client, Evict(c) \/ Evicting(c) \/ AskToVacate(c)
  PROVE  Eviction'
<1>1. CASE Evict(c)
  <2>1. Vacate(conn[c], target[c]) /\ stray
    BY <1>1 DEF Evict
  <2> QED  BY <1>1, <2>1, VacateKeeps DEF Evict, HangUp
<1>2. CASE AskToVacate(c)
  <2>1. Vacate(conn[c], pidfile)
    BY <1>2 DEF AskToVacate
  <2> QED  BY <1>2, <2>1, VacateKeeps DEF AskToVacate, HangUp
<1>3. CASE Evicting(c)
  <2>1. pidfile' = pidfile /\ conn' = conn /\ pc' = [pc EXCEPT ![c] = "spawn"]
    BY <1>3 DEF Evicting
  <2>2. CASE UNCHANGED <<stage, serving, lockVars>>
    BY <2>1, <2>2
  <2>3. ASSUME NEW m \in Leader, End(m)  PROVE Eviction'
    BY <2>1, <2>3, EndEvicts
  <2> QED  BY <1>3, <2>2, <2>3 DEF Evicting, Alive
<1> QED  BY <1>1, <1>2, <1>3

LEMMA SpawnEvicts ==
  ASSUME IInv, Eviction, NEW c \in Client, Spawn(c) PROVE Eviction'
<1>1. UNCHANGED <<conn, serving, locked, stray, pidfile>>
      /\ \E s \in {"await", "drop"} : pc' = [pc EXCEPT ![c] = s]
  BY DEF Spawn
<1>2. stage' = stage \/ \E l \in Leader : stage[l] = "off" /\ stage' = [stage EXCEPT ![l] = "open"]
  BY DEF Spawn, Spare
<1>3. \A l \in Leader : stage'[l] = stage[l] \/ (stage[l] = "off" /\ stage'[l] = "open")
  BY <1>2 DEF LeaderType
<1>4. Looking' /\ NoneEvicted'
  BY <1>1
<1>5. Stamped'
  BY <1>1, <1>3
<1>6. ASSUME NEW d \in Client, pc'[d] = "vacate"  PROVE stage'[conn'[d]] \in Late
  <2>1. pc[d] = "vacate" /\ conn'[d] = conn[d]
    BY <1>1, <1>6
  <2>2. conn[d] \in Leader /\ stage[conn[d]] \in Late
    BY <2>1
  <2> QED  BY <1>3, <2>1, <2>2
<1>7. \A l \in serving' : stage'[l] \notin Late \ {"lead"}
  BY <1>1, <1>3 DEF LeaderType
<1> QED  BY <1>4, <1>5, <1>6, <1>7

LEMMA WaitEvicts ==
  ASSUME IInv, Eviction, NEW c \in Client, AwaitListener(c) \/ ConnectSpawned(c) \/ Poll(c)
  PROVE  Eviction'
<1>1. UNCHANGED <<stray, stage, serving, pidfile>> /\ locked' \in {locked, locked \ {c}}
      /\ \E s \in {"connect", "drop", "spawnWait", "pollWait", "open"} : pc' = [pc EXCEPT ![c] = s]
      /\ \A d \in Client \ {c} : conn'[d] = conn[d]
  BY DEF AwaitListener, ConnectSpawned, Poll, Connect, Refused, Registered, Lost, HangUp, Close
<1> QED  BY <1>1

LEMMA PollWaitEvicts ==
  ASSUME IInv, Eviction, NEW c \in Client, PollWait(c) PROVE Eviction'
<1>1. UNCHANGED <<stray, stage, serving, locked, pidfile>>
      /\ \A d \in Client \ {c} : conn'[d] = conn[d]
  BY DEF PollWait, Adopted, TooOld, Lost, HangUp
<1>2. \/ \E s \in {"drop", "repoll"} : pc' = [pc EXCEPT ![c] = s]
      \/ pc' = [pc EXCEPT ![c] = "vacate"] /\ conn' = conn /\ stage[conn[c]] = "lead"
  BY DEF PollWait, Adopted, TooOld, Lost, HangUp, Registered
<1> QED  BY <1>1, <1>2

LEMMA ReturnEvicts ==
  ASSUME IInv, Eviction, NEW c \in Client, Return(c) PROVE Eviction'
<1>1. UNCHANGED <<conn, stage, serving, pidfile>> /\ (stray => stray')
      /\ locked' \in {locked, locked \ {c}}
      /\ \E s \in {"unsock", "failed", "done"} : pc' = [pc EXCEPT ![c] = s]
  BY DEF Return, Unlink, Close
<1> QED  BY <1>1

(* A step of a leader that moves it on and no client.                       *)
LEMMA MoveEvicts ==
  ASSUME IInv, Eviction, NEW l \in Leader, NEW s, stage' = [stage EXCEPT ![l] = s],
         UNCHANGED <<pc, conn, pidfile>>, stray => stray',
         \A p \in Process \ {l} : p \in locked' <=> p \in locked,
         stage[l] \in Late => s \in Late,
         l \in locked' /\ s \in {"clean", "unbind", "bind", "look", "lead"} =>
           l \in locked /\ stage[l] \in {"clean", "unbind", "bind", "look", "lead"},
         serving' \subseteq serving \cup {l}, l \in serving' => s \notin Late \ {"lead"}
  PROVE  Eviction'
<1> USE DEF LeaderType
<1>1. Looking' /\ NoneEvicted'
  OBVIOUS
<1>2. Stamped'
  OBVIOUS
<1>3. Vacating'
  <2>1. ASSUME NEW c \in Client, pc[c] = "vacate"  PROVE stage'[conn[c]] \in Late
    BY <2>1
  <2>2. ASSUME NEW m \in serving'  PROVE stage'[m] \notin Late \ {"lead"}
    BY <2>2
  <2> QED  BY <2>1, <2>2
<1> QED  BY <1>1, <1>2, <1>3

LEMMA StartEvicts ==
  ASSUME IInv, Eviction, NEW l \in Leader, StartByHand(l) \/ Reopen(l) \/ CleanSocket(l)
  PROVE  Eviction'
<1>1. UNCHANGED <<pc, conn, pidfile, stray, locked, serving>>
  BY DEF StartByHand, Reopen, CleanSocket, OpenFile
<1>2. \/ stage[l] = "off" /\ stage' = [stage EXCEPT ![l] = "open"]
      \/ stage[l] = "open" /\ stage' = [stage EXCEPT ![l] = "try"]
      \/ stage[l] = "reopen" /\ stage' = [stage EXCEPT ![l] = "wait"]
      \/ stage[l] = "clean" /\ stage' = [stage EXCEPT ![l] = "unbind"]
      \/ stage[l] = "unbind" /\ stage' = [stage EXCEPT ![l] = "bind"]
  BY DEF StartByHand, Reopen, CleanSocket
<1>3. ASSUME NEW s, stage' = [stage EXCEPT ![l] = s], s \notin Late,
             stage[l] \notin Late,
             s \in {"clean", "unbind", "bind", "look", "lead"} =>
               stage[l] \in {"clean", "unbind", "bind", "look", "lead"}
      PROVE  Eviction'
  BY <1>1, <1>3, MoveEvicts
<1> QED  BY <1>2, <1>3 DEF Late

LEMMA TryEvicts ==
  ASSUME IInv, Eviction, NEW l \in Leader, TryLock(l) \/ AwaitLock(l) PROVE Eviction'
<1>1. UNCHANGED <<pc, conn, pidfile>>
  BY DEF TryLock, AwaitLock
<1>2. CASE TryLock(l) /\ End(l)
  BY <1>1, <1>2, EndEvicts
<1>3. CASE stage[l] \in {"try", "wait"} /\ Acquire(l) /\ UNCHANGED serving
           /\ \E s \in {"stamp", "restamp"} : stage' = [stage EXCEPT ![l] = s]
  BY <1>1, <1>3, MoveEvicts DEF Acquire
<1>4. CASE stage[l] = "try" /\ Contended(l) /\ UNCHANGED serving
           /\ stage' = [stage EXCEPT ![l] = "clean"]
  BY <1>1, <1>4, MoveEvicts DEF Contended, Close
<1>5. CASE stage[l] = "wait" /\ Contended(l) /\ Cancel(l)
           /\ stage' = [stage EXCEPT ![l] = "quit"]
  BY <1>1, <1>5, MoveEvicts DEF Contended, Close, Cancel
<1> QED  BY <1>2, <1>3, <1>4, <1>5 DEF TryLock, AwaitLock

(* The pid file is written with the lock, so nobody else is to be found.    *)
LEMMA WritePidEvicts ==
  ASSUME IInv, Eviction, NEW l \in Leader, WritePid(l) PROVE Eviction'
<1>1. UNCHANGED <<pc, conn, stray, locked, serving>> /\ pidfile' = l
      /\ stage[l] \in {"stamp", "restamp"}
      /\ \E s \in {"clean", "lead"} : stage' = [stage EXCEPT ![l] = s]
  BY DEF WritePid
<1>2. l \in locked
  BY <1>1 DEF LeadersLock
<1>3. Looking' /\ NoneEvicted'
  BY <1>1
<1>4. Stamped'
  <2> SUFFICES ASSUME ~stray, NEW m \in locked \cap Leader,
                      stage'[m] \in {"clean", "unbind", "bind", "look", "lead"}
               PROVE  m = l
    BY <1>1
  <2>1. m = l \/ stage[m] # "unsock"
    BY <1>1 DEF LeaderType
  <2> QED  BY <1>1, <1>2, <2>1, LockIsOne
<1>5. Vacating'
  BY <1>1 DEF LeaderType
<1> QED  BY <1>3, <1>4, <1>5

LEMMA BindEvicts ==
  ASSUME IInv, Eviction, NEW l \in Leader, Bind(l) PROVE Eviction'
<1>1. UNCHANGED <<pc, conn, pidfile, stray, locked>> /\ serving' \subseteq serving \cup {l}
      /\ stage[l] = "bind" /\ stage' = [stage EXCEPT ![l] = "look"]
  BY DEF Bind
<1> QED  BY <1>1, MoveEvicts

LEMMA LookForSocketEvicts ==
  ASSUME IInv, Eviction, NEW l \in Leader, LookForSocket(l) PROVE Eviction'
<1>1. UNCHANGED <<pc, conn, pidfile, stray, locked>> /\ stage[l] = "look"
  BY DEF LookForSocket
<1>2. \/ l \in locked /\ stage' = [stage EXCEPT ![l] = "lead"] /\ UNCHANGED serving
      \/ l \notin locked /\ stage' = [stage EXCEPT ![l] = "reopen"] /\ UNCHANGED serving
      \/ stage' = [stage EXCEPT ![l] = "quit"] /\ serving' = serving \ {l}
  BY DEF LookForSocket, Cancel
<1> QED  BY <1>1, <1>2, MoveEvicts

LEMMA QuitEvicts ==
  ASSUME IInv, Eviction, NEW l \in Leader, Drain(l) \/ Quit(l) PROVE Eviction'
<1>1. UNCHANGED <<pc, conn, pidfile, stray, locked>> /\ serving' = serving \ {l}
      /\ stage' = [stage EXCEPT ![l] = "quit"]
  BY DEF Drain, Quit, Shutdown, Cancel
<1> QED  BY <1>1, MoveEvicts

LEMMA DropEvicts ==
  ASSUME IInv, Eviction, NEW l \in Leader, DropLock(l) \/ Crash(l) PROVE Eviction'
<1>1. UNCHANGED <<pc, conn, pidfile>>
  BY DEF DropLock, Crash
<1>2. CASE End(l)
  BY <1>1, <1>2, EndEvicts
<1>3. CASE stage[l] = "quit" /\ stage' = [stage EXCEPT ![l] = "unsock"]
           /\ Unlink(l) /\ UNCHANGED serving
  BY <1>1, <1>3, MoveEvicts DEF Unlink
<1> QED  BY <1>2, <1>3 DEF DropLock, Crash

LEMMA ServerEndEvicts ==
  ASSUME IInv, Eviction, NEW l \in Leader, ServerEnds(l) PROVE Eviction'
BY DEF ServerEnds

LEMMA NextEvicts == IInv /\ Eviction /\ [Next]_vars => Eviction'
<1>1. ASSUME IInv, Eviction, UNCHANGED vars PROVE Eviction'
  BY <1>1 DEF vars
<1>2. ASSUME IInv, Eviction, NEW c \in Client, FastPath(c) \/ ClientStep(c)
      PROVE  Eviction'
  BY <1>2, FastEvicts, TakeLockEvicts, LookEvicts, SiblingEvicts, EvictEvicts,
     SpawnEvicts, WaitEvicts, PollWaitEvicts, ReturnEvicts
  DEF ClientStep
<1>3. ASSUME IInv, Eviction, NEW l \in Leader,
             StartByHand(l) \/ LeaderStep(l) \/ Quit(l) \/ ServerEnds(l) \/ Crash(l)
      PROVE  Eviction'
  BY <1>3, StartEvicts, TryEvicts, WritePidEvicts, BindEvicts, LookForSocketEvicts,
     QuitEvicts, DropEvicts, ServerEndEvicts
  DEF LeaderStep
<1> QED  BY <1>1, <1>2, <1>3 DEF Next

(* Who holds the lock meets nobody to evict, and the pid file is that of    *)
(* the leader a client is connected to, for any clients and leaders.        *)
THEOREM EvictionSound == Spec => []Eviction
<1> HIDE DEF IInv, Eviction
<1> QED  BY InitEviction, NextEvicts, Invariant, PTL DEF Spec

(* No client stops a leader as new as itself: under its own lock it finds   *)
(* none that is ready, and the pid it signals otherwise is that of the old  *)
(* leader that still answers it (evict_leader, request_leader_vacate).      *)
THEOREM NewerIsSpared == Spec => SparesCurrent
<1> DEFINE Spared == \A c \in Client : \A l \in Leader \ Old :
             (Evict(c) \/ Evicting(c) \/ AskToVacate(c)) /\ Alive(l) =>
               \/ stage'[l] # "dead"
               \/ stray
               \/ conn[c] \in legacy /\ conn[c] \notin serving
<1>1. IInv /\ Eviction => Spared
  <2> SUFFICES ASSUME IInv, Eviction, NEW c \in Client, NEW l \in Leader \ Old,
                      Evict(c) \/ Evicting(c) \/ AskToVacate(c), Alive(l), ~stray,
                      stage'[l] = "dead"
               PROVE  conn[c] \in legacy /\ conn[c] \notin serving
    OBVIOUS
  <2>1. AskToVacate(c)
    BY DEF Evict, Evicting
  <2>2. pc[c] = "vacate" /\ conn[c] \in Leader /\ Vacate(conn[c], pidfile)
    BY <2>1 DEF AskToVacate
  <2>3. stage' # stage
    BY DEF Alive
  <2>4. conn[c] \in legacy /\ Alive(pidfile) /\ End(pidfile)
    BY <2>2, <2>3 DEF Vacate
  <2>5. pidfile = l
    BY <2>4 DEF End, Alive, LeaderType
  <2>6. ASSUME conn[c] \in serving  PROVE FALSE
    <3>1. stage[conn[c]] = "lead"
      BY <2>2, <2>6
    <3>2. conn[c] \in locked
      BY <2>2, <3>1 DEF LeadersLock
    <3>3. pidfile = conn[c]
      BY <2>2, <3>1, <3>2
    <3> QED  BY <2>4, <2>5, <3>3 DEF LeaderType
  <2> QED  BY <2>4, <2>6
<1> HIDE DEF IInv, Eviction
<1> QED  BY <1>1, Invariant, EvictionSound, PTL DEF SparesCurrent
=============================================================================
