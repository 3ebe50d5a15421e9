--------------------------- MODULE SessionLedger ---------------------------
(***************************************************************************)
(* The books behind the properties of SessionProperties: who holds every   *)
(* prompt, interjection and notice, and which of running_task, the pin,    *)
(* the turn tasks, the completion channel and the locals of a cancel may   *)
(* name the same turn.  The conjunction is inductive (SessionProofs) and   *)
(* implies the properties, start tasks included.                           *)
(***************************************************************************)
EXTENDS SessionProperties

Cancelling == {"cancelLock", "cancelGate", "cancelAbort", "cancelFinish"}

(* A pending prompt is held once, by the queue or by a cancel.              *)
PromptsHeld ==
  pc # "stopped" =>
    /\ IsInjective(queue) /\ IsInjective(cancel.resolved)
    /\ ToSet(queue) \cap ToSet(cancel.resolved) = {}
    /\ \A p \in Prompts :
         fate[p] = "pending" <=> p \in ToSet(queue) \cup ToSet(cancel.resolved)

(* A buffered interjection is held once, by the buffer or by the flush.     *)
TextsHeld ==
  /\ ToSet(interjections) \subseteq Fallback /\ ToSet(stranded) \subseteq Fallback
  /\ IsInjective(interjections) /\ IsInjective(stranded)
  /\ ToSet(interjections) \cap ToSet(stranded) = {}
  /\ \A i \in Fallback :
       fate[i] = "buffered" <=> i \in ToSet(interjections) \cup ToSet(stranded)
  /\ pc # "flush" => stranded = <<>>
  /\ pc \in Cancelling => interjections = <<>>
  /\ pc # "stopped" /\ interjections # <<>> => running # NoPrompt \/ pc = "turnEnd"

(* A buffered notice is held by the pending list or by the turn's buffer.   *)
NoticesHeld ==
  /\ ToSet(notices) \subseteq Notice /\ ToSet(buffer) \subseteq Notice
  /\ ToSet(notices) \cap ToSet(buffer) = {}
  /\ \A n \in Notice :
       fate[n] = "buffered" <=> n \in ToSet(notices) \cup ToSet(buffer)

(* What a turn task was spawned for was accepted and is not queued again.   *)
SpawnedOnce ==
  /\ \A p \in spawned : fate[p] \in Answers \cup {"pending"}
  /\ pc # "stopped" => ToSet(queue) \cap spawned \subseteq {running}
  /\ running # NoPrompt => running \in spawned
  /\ live \subseteq spawned \cap {running, cancel.task}
  /\ \A c \in ToSet(completions) : c.id \in spawned \ live
  /\ pc = "complete" => cur.id \in spawned \ live

(* The running turn has a task, or its completion is on its way.            *)
TurnReports ==
  pc # "stopped" /\ running # NoPrompt =>
    \/ running \in live
    \/ \E c \in ToSet(completions) : c.id = running
    \/ pc = "complete" /\ cur.id = running

(* What the locals of a cancel say of the turn that it takes.               *)
CancelSound ==
  /\ pc \notin Cancelling => cancel = NoCancel
  /\ pc = "cancelLock" =>
       cancel.task = NoPrompt /\ cancel.resolved = <<>> /\ ~cancel.rewound
  /\ pc = "cancelLock" /\ cancel.pinned # NoPrompt => running = cancel.pinned
  /\ pc = "cancelFinish" => cancel.task \notin live
  /\ cancel.task # NoPrompt =>
       cancel.task \in ToSet(cancel.resolved) \cap spawned /\ ~cancel.rewound
  /\ ~cancel.rewound =>
       /\ ToSet(cancel.resolved) \cap spawned \subseteq {cancel.task}
       /\ pc \in {"cancelGate", "cancelAbort", "cancelFinish"} =>
            cancel.pinned \in {NoPrompt, cancel.task}

(* The pin names the running turn or none, but while a cancel is under way. *)
PinSound ==
  /\ pc \notin {"cancelGate", "cancelAbort", "cancelFinish"} => pin \in {NoPrompt, running}
  /\ pc = "complete" => pin # cur.id

(* A queue without a running turn has a start ahead of it.                  *)
QueueServed ==
  pc \in {"select", "drain", "complete"} /\ running = NoPrompt /\ queue # <<>>
    => resuming # NoPrompt

(* Only a cancel may leave the depth above the waits, until it zeroes it.   *)
DepthSound ==
  pc \notin {"cancelGate", "cancelAbort"} => depth <= Cardinality(waits \cap live)

Ledger ==
  /\ PromptsHeld /\ TextsHeld /\ NoticesHeld /\ SpawnedOnce /\ TurnReports
  /\ CancelSound /\ PinSound /\ TerminalOnce
Upkeep == QueueServed /\ DepthSound

(* The books of a session balance: nothing is lost or held twice, and       *)
(* whatever waits has a turn, a completion, a start or a cancel that will   *)
(* pick it up.                                                              *)
Books == Ledger /\ Upkeep
=============================================================================
