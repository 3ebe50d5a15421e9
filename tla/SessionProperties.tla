------------------------- MODULE SessionProperties -------------------------
(***************************************************************************)
(* What must hold of the turn scheduler of SessionTurns.  Every run of an  *)
(* MC module that extends this one checks a selection of the properties on *)
(* one small session; SessionProofs proves the safety properties for every *)
(* session.                                                                *)
(***************************************************************************)
EXTENDS SessionTurns

Seen     == Seq(Prompts)

(* Every variable keeps its type.  The queue, the buffers and the locals of *)
(* the arms only ever hold prompts of the session.                          *)
TypeOK ==
  /\ pc \in {"select", "start", "flush", "drain", "drainStart", "cancelLock",
             "cancelGate", "cancelAbort", "cancelFinish", "complete", "turnEnd", "stopped"}
  /\ arm \in {"none", "prompt", "interjectQueued", "interject", "goalSummary",
              "notification", "cancel", "completion"}
  /\ cur \in [id : Maybe, ok : BOOLEAN]
  /\ stranded \in Seen
  /\ cancel \in [pinned : Maybe, task : Maybe, resolved : Seen, kind : Kinds,
                 rewound : BOOLEAN]
  /\ running \in Maybe /\ queue \in Seen /\ marked \subseteq Prompts
  /\ rewindable \in BOOLEAN /\ suppressed \in BOOLEAN /\ notices \in Seen
  /\ pin \in Maybe /\ interjections \in Seen /\ buffer \in Seen
  /\ active \in BOOLEAN /\ goalGate \in BOOLEAN
  /\ goal \in {"none", "active", "paused", "complete"}
  /\ depth \in Nat /\ waits \subseteq Prompts
  /\ live \subseteq Prompts /\ begun \subseteq Prompts
  /\ aborted \subseteq Prompts
  /\ completions \in Seq([id : Maybe, ok : BOOLEAN])
  /\ mcp \in {"initialising", "done"} /\ resuming \in Maybe
  /\ fate \in [Prompts -> Fates] /\ spawned \subseteq Prompts
  /\ terminals \in [Prompts -> Nat]

----------------------------------------------------------------------------
(* The prompt of the running turn is the front of the queue, which every   *)
(* insertion, sweep, removal, reorder and cancel relies on when it spares  *)
(* or resolves "index 0" (cancel_running_task, sweep_pending_inputs).      *)
FrontIsRunning ==
  pc # "stopped" /\ running # NoPrompt => IsFront(queue, running)

(* A prompt whose request is still unanswered is held                      *)
(* exactly once: in the queue, or among the prompts the cancel in progress *)
(* will answer.  No sweep, promotion or stale completion loses its         *)
(* responder, which would leave the client's spinner on forever.           *)
NoSilentDrop ==
  pc # "stopped" =>
    /\ IsInjective(queue \o cancel.resolved)
    /\ \A p \in Prompts :
         fate[p] = "pending" <=> p \in ToSet(queue) \cup ToSet(cancel.resolved)

(* Clients see exactly one TurnCompleted for a turn that was answered as    *)
(* done or cancelled, and none for a prompt that never ran or that was      *)
(* rewound: a turn that completes while its cancel is under way must not be *)
(* published twice (the stale completion of handle_completion).             *)
TerminalOnce ==
  \A p \in Prompts :
    /\ terminals[p] =
         IF p \in spawned /\ fate[p] \in {"done", "cancelled"} THEN 1 ELSE 0

(* Only a turn that ran is cancelled; the prompts queued behind it survive  *)
(* every cancel but the teardown, and are promoted after it.                *)
CancelSparesQueued ==
  \A p \in Prompts : fate[p] = "cancelled" => p \in spawned

(* The debug_assert of cancel_running_task: the pin it captured and the     *)
(* running task it finds under the lock name the same turn.                 *)
PinAgrees ==
  pc = "cancelLock" /\ cancel.pinned # NoPrompt /\ running # NoPrompt
    => running = cancel.pinned

(* While the loop is at its select, the pin names the running turn, or the  *)
(* turn has ended and its completion waits: a client's Interject is routed  *)
(* by the pin, and a wrong one sends it to a turn that never merges it.     *)
PinFollowsRunning ==
  pc = "select" =>
    \/ pin = running
    \/ pin = NoPrompt /\ \E i \in DOMAIN completions : completions[i].id = running

(* At most one turn of a session runs at a time, besides the one that the   *)
(* cancel in progress took out of running_task and has yet to abort: a      *)
(* start task may promote the next prompt between the two.                  *)
OneTurn == Cardinality(live \ {cancel.task}) <= 1

(* When nothing is in progress nothing waits: the loop is at its select, no *)
(* turn lives, no completion waits and no start is due, so that no prompt   *)
(* and no interjection is stranded without an event that will pick it up.   *)
AtRest == pc = "select" /\ completions = <<>> /\ live = {} /\ resuming = NoPrompt
NothingStranded ==
  AtRest => queue = <<>> /\ interjections = <<>> /\ running = NoPrompt

(* The wait depth that lets queue_input send a plain prompt now and cancel  *)
(* the running turn never counts a wait of a turn that is gone.             *)
NoStaleWait == pc = "select" => depth <= Cardinality(waits \cap live)

(* a is ahead of b in the sequence s.                                       *)
Before(s, a, b) == \E i, j \in DOMAIN s : i < j /\ s[i] = a /\ s[j] = b

(* User prompts have priority over queued auto-wake prompts: no auto-wake   *)
(* prompt but the running one is ahead of a user prompt.                    *)
UserFirst ==
  \A w \in Wake \ {running}, u \in User : ~Before(queue, w, u)

(* A stale completion, of a turn a cancel already settled, still runs the   *)
(* end of the completion arm while the promoted turn runs.  It finds none of *)
(* that turn's interjections to take away: it is served before any client   *)
(* could send one, because the select prefers completions to commands.      *)
StaleTakesNothing ==
  pc = "turnEnd" /\ running # NoPrompt => interjections = <<>>

(* The goal gate, which makes send-now prompts wait behind a goal turn and  *)
(* silences auto-wakes, is down in an idle session: left up it would keep   *)
(* both from working until the first round of the next turn mirrors the     *)
(* goal.  cancel_running_task lowers it because the task it aborts will     *)
(* not, but before the abort and the awaits in between: the turn may raise  *)
(* it once more, and nobody lowers it then.                                 *)
NoStaleGate == AtRest => ~goalGate

(* A notification is kept until it is surfaced in a turn or dropped on      *)
(* purpose (its cap, its task's end, a goal, a teardown): the sweeps at a   *)
(* cancel and at a turn's end move the buffer and lose nothing.             *)
NoticesSurvive ==
  \A n \in Notice :
    fate[n] = "buffered" => n \in ToSet(notices) \cup ToSet(buffer)

----------------------------------------------------------------------------
(* A turn task is spawned once per prompt: a stale completion that cleared  *)
(* the promoted turn's slot would have the same prompt spawned again.       *)
StartsOnce ==
  [][\A p \in Prompts : running # p /\ running' = p => p \notin spawned]_vars

(* A raised gate that no live turn, waiting completion or cancel still to   *)
(* lower it is going to lower.                                              *)
Unattended ==
  goalGate /\ live = {} /\ completions = <<>> /\ pc \notin {"stopped", "cancelGate"}

(* Only the abort of a cancel can leave the goal gate up with nobody to     *)
(* lower it, when the turn it takes has raised the gate after the cancel    *)
(* lowered it: no completion, stale ones included, no rewind, no start and  *)
(* no other end of a turn does.                                             *)
GateLeftByAbort == [][Unattended' => Unattended \/ CancelAbort]_vars

(* Prompts sent now, and flushed interjections, run in one block right      *)
(* behind the running turn.  Nothing gets ahead of one but another one,     *)
(* unless a client reorders its rows: not a sweep, a cancel, a completion,  *)
(* a later insertion or a start.                                            *)
Overtaking(p) ==
  {q \in Prompts \ (marked \cup {running}) : p \in marked /\ Before(queue, q, p)}
SendNowFirst ==
  [][\A p \in Prompts :
       Overtaking(p)' \subseteq Overtaking(p) \/ \E order \in Orders : Reorder(order)]_vars

(* What the session owes its clients: TurnService, with the prompts whose   *)
(* cancellation is under way counted as answered.                           *)
Service == INSTANCE TurnService WITH
  Requests <- Prompts,
  None     <- NoPrompt,
  turn     <- IF pc = "stopped" THEN NoPrompt ELSE running,
  answered <- {p \in Prompts : fate[p] \in Answers} \cup ToSet(cancel.resolved),
  waiting  <- {p \in Prompts : fate[p] = "pending"}
                \ ({running} \cup ToSet(cancel.resolved))

(* The scheduler implements the service: it starts only prompts it accepted *)
(* and has not answered, one at a time, and answers each once.              *)
ServiceKept == Service!Spec

----------------------------------------------------------------------------
(* Every accepted prompt is answered, whatever is cancelled, preempted,     *)
(* reordered or interjected meanwhile.                                      *)
PromptsAnswered ==
  \A p \in Prompts : fate[p] = "pending" ~> fate[p] # "pending"

(* A buffered interjection reaches the running turn, becomes a prompt, or   *)
(* goes with the turn it was meant for: unless the session is shut down, it *)
(* never waits for ever.                                                    *)
InterjectionsLeave ==
  \A i \in Fallback :
    fate[i] = "buffered" ~> fate[i] # "buffered" \/ pc = "stopped"
=============================================================================
