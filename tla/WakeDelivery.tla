--------------------------- MODULE WakeDelivery ---------------------------
(***************************************************************************)
(* How the model of a session learns that a background task has finished.  *)
(*                                                                         *)
(* Three surfaces compete to tell it: the auto-wake, a synthetic prompt    *)
(* queued like any other (SessionTurns); the reminders a tool result       *)
(* carries (TaskCompletionReminder); and the drain at the start of a turn  *)
(* (drain_between_turn_completions).  They are kept apart by two shared    *)
(* sets -- AutoWakeDeliveredIds and ReportedTaskCompletions -- and, for    *)
(* subagents, by the coordinator's buffer of pending completions, none of  *)
(* which is under the session's lock.                                      *)
(*                                                                         *)
(* Covered is a session with no goal, no monitor and auto-wake enabled:    *)
(* goals suppress wakes and monitors end through notices.  A wake is named *)
(* by its task.  A drain of the task list and the marking that follows it  *)
(* are one step, as is queue_input with the marking it does just before    *)
(* it takes the session's lock.                                            *)
(*                                                                         *)
(* BridgeSilent and WakeUnmarked are faulty variants of the definitions    *)
(* that follow them; nothing uses them.                                    *)
(***************************************************************************)
EXTENDS SessionTurns

CONSTANT Bash   \* the background tasks that are shell commands, not subagents

ASSUME BashAssumption == Bash \subseteq Wake
ASSUME InstanceAssumption ==
  /\ Fallback = {} /\ Notice = {} /\ Goal = {} /\ Plan = {} /\ Waiters = {}
  /\ ~McpInit

Subagent == Wake \ Bash

VARIABLES
  task,       \* where each background task is
  delivered,  \* AutoWakeDeliveredIds
  reported,   \* ReportedTaskCompletions
  buffered,   \* pending_completions of the subagent coordinator
  requests,   \* SubagentEvent::Completions requests the coordinator holds
  pass,       \* locals of the drain or reminder pass of the running turn
  told,       \* history: completions a reminder has told the model
  read,       \* history: completions a tool result has told the model
  cut,        \* history: completions lost with the turn that had taken them
  slipped     \* history: subagents whose mark missed the pass meant to see it

wakeVars == <<task, delivered, reported, buffered, requests, pass, told, read,
              cut, slipped>>
allVars  == <<vars, wakeVars>>

NoPass == [turn |-> NoPrompt, stage |-> "none", read |-> {}, suppress |-> {},
           taken |-> {}]

(* running; exited (seen by list_tasks, not yet by the bridge); posted (its  *)
(* wake is in the command channel or beyond); quiet (it will not wake).      *)
TaskStates == {"running", "exited", "posted", "quiet"}
Finished   == {w \in Wake : task[w] # "running"}

WakeInit ==
  /\ Init
  /\ task = [w \in Wake |-> "running"]
  /\ delivered = {} /\ reported = {} /\ buffered = {} /\ requests = <<>>
  /\ pass = NoPass
  /\ told = {} /\ read = {} /\ cut = {} /\ slipped = {}

-----------------------------------------------------------------------------
(* Tasks end.                                                               *)

(* Faulty: the completion of a command is marked but its wake is not sent.   *)
BridgeSilent(w) ==
  /\ w \in Bash /\ task[w] = "exited"
  /\ task' = [task EXCEPT ![w] = "quiet"] /\ delivered' = delivered \cup {w}
  /\ UNCHANGED <<vars, reported, buffered, requests, pass, told, read, cut, slipped>>

(* The bridge posts the wake of a command, marked as delivered first.        *)
Bridge(w) ==
  /\ w \in Bash /\ task[w] = "exited"
  /\ task' = [task EXCEPT ![w] = "posted"] /\ delivered' = delivered \cup {w}
  /\ UNCHANGED <<vars, reported, buffered, requests, pass, told, read, cut, slipped>>

(* A command exits.  One that a turn waits for, or has killed, never wakes.  *)
ExitBash(w, claimed) ==
  /\ w \in Bash /\ task[w] = "running"
  /\ claimed => live \cap begun # {}
  /\ task' = [task EXCEPT ![w] = IF claimed THEN "quiet" ELSE "exited"]
  /\ UNCHANGED <<vars, delivered, reported, buffered, requests, pass, told, read,
                 cut, slipped>>

(* A subagent ends: move_to_completed, then inject_subagent_completed_prompt *)
(* unless it is claimed or was cancelled (by anyone).                        *)
ExitSubagent(w, wakes) ==
  /\ w \in Subagent /\ task[w] = "running"
  /\ buffered' = buffered \cup {w}
  /\ task' = [task EXCEPT ![w] = IF wakes THEN "posted" ELSE "quiet"]
  /\ delivered' = delivered \cup (IF wakes THEN {w} ELSE {})
  /\ UNCHANGED <<vars, reported, requests, pass, told, read, cut, slipped>>

-----------------------------------------------------------------------------
(* Wakes and prompts enter the queue, and leave it unrun.                    *)

(* Faulty: a wake is queued without being marked as reported.                *)
WakeUnmarked(w) ==
  /\ task[w] = "posted" /\ Prompt(w, FALSE)
  /\ UNCHANGED wakeVars

WakePrompt(w) ==
  /\ task[w] = "posted" /\ Prompt(w, FALSE)
  /\ reported' = reported \cup {w}
  /\ UNCHANGED <<task, delivered, buffered, requests, pass, told, read, cut, slipped>>

(* A user prompt un-marks the wakes it preempts.                             *)
UserPrompt(c, asked) ==
  /\ c \in Client /\ Prompt(c, asked)
  /\ delivered' = delivered \ (ToSet(queue) \ ToSet(queue'))
  /\ UNCHANGED <<task, reported, buffered, requests, pass, told, read, cut, slipped>>

(* The tail of a cancel un-marks the wakes it answers; a rewind returns      *)
(* before that.                                                              *)
CancelUnmark ==
  /\ CancelFinish
  /\ delivered' = IF cancel.rewound THEN delivered ELSE delivered \ ToSet(cancel.resolved)
  /\ UNCHANGED <<task, reported, buffered, requests, pass, told, read, cut, slipped>>

(* An abort drops the pass the turn was in, with what it had taken and the   *)
(* marks it had drained.                                                     *)
Abort ==
  /\ CancelLock \/ CancelAbort
  /\ IF pass.turn \in live \ live'
       THEN /\ pass' = NoPass
            /\ cut' = cut \cup pass.taken
            /\ slipped' = slipped \cup (pass.suppress \cap buffered)
       ELSE UNCHANGED <<pass, cut, slipped>>
  /\ UNCHANGED <<task, delivered, reported, buffered, requests, told, read>>

-----------------------------------------------------------------------------
(* drain_between_turn_completions, at the start of every turn.               *)

Stage(p, from) == Open /\ p \in live /\ pass.turn = p /\ pass.stage = from

OpenTurn(p) ==
  /\ TurnBegin(p)
  /\ pass' = [NoPass EXCEPT !.turn = p, !.stage = "open"]
  /\ UNCHANGED <<task, delivered, reported, buffered, requests, told, read, cut, slipped>>

(* drain_between_turn_bash_completions: only reported is consulted.          *)
OpenTasks(p) ==
  LET fresh == (Finished \cap Bash) \ reported
  IN
  /\ Stage(p, "open")
  /\ reported' = reported \cup fresh
  /\ pass' = [pass EXCEPT !.stage = "openAsk", !.taken = fresh]
  /\ UNCHANGED <<vars, task, delivered, buffered, requests, told, read, cut, slipped>>

(* The commands are told; subagents are asked for, less those now marked.     *)
OpenAsk(p) ==
  /\ Stage(p, "openAsk")
  /\ told' = told \cup pass.taken
  /\ requests' = Append(requests, [turn |-> p, suppress |-> delivered])
  /\ pass' = [pass EXCEPT !.stage = "openWait", !.taken = {}]
  /\ UNCHANGED <<vars, task, delivered, reported, buffered, read, cut, slipped>>

OpenTell(p) ==
  /\ Stage(p, "openTell")
  /\ told' = told \cup pass.taken
  /\ pass' = [NoPass EXCEPT !.turn = p]
  /\ UNCHANGED <<vars, task, delivered, reported, buffered, requests, read, cut, slipped>>

(* The coordinator hands over all it has buffered, less what is suppressed,  *)
(* to a turn that may be gone.                                               *)
Answered == [openWait |-> "openTell", wait |-> "tell"]

Serve ==
  /\ Open /\ requests # <<>>
  /\ LET r     == Head(requests)
         found == buffered \ r.suppress
         heard == pass.turn = r.turn /\ pass.stage \in DOMAIN Answered
     IN  /\ pass' = IF heard THEN [pass EXCEPT !.stage = Answered[pass.stage],
                                               !.taken = @ \cup found]
                    ELSE pass
         /\ cut' = IF heard THEN cut ELSE cut \cup found
         /\ slipped' = slipped \cup (found \cap delivered)
  /\ buffered' = {} /\ requests' = Tail(requests)
  /\ UNCHANGED <<vars, task, delivered, reported, told, read>>

-----------------------------------------------------------------------------
(* TaskCompletionReminder::collect_reminders, after each tool call; R is     *)
(* what the tool's own result told of (consumed_completion_ids).             *)

PassDrain(p, R) ==
  /\ Stage(p, "none")
  /\ R \subseteq Finished
  /\ delivered' = {}
  /\ read' = read \cup R
  /\ pass' = [pass EXCEPT !.stage = "tasks", !.read = R, !.suppress = R \cup delivered]
  /\ UNCHANGED <<vars, task, reported, buffered, requests, told, cut, slipped>>

PassTasks(p) ==
  LET fresh == (Finished \cap Bash) \ (reported \cup pass.suppress)
  IN
  /\ Stage(p, "tasks")
  /\ reported' = reported \cup pass.suppress \cup fresh
  /\ pass' = [pass EXCEPT !.stage = "ask", !.taken = fresh]
  /\ UNCHANGED <<vars, task, delivered, buffered, requests, told, read, cut, slipped>>

PassAsk(p) ==
  /\ Stage(p, "ask")
  /\ requests' = Append(requests, [turn |-> p, suppress |-> pass.suppress])
  /\ pass' = [pass EXCEPT !.stage = "wait", !.suppress = {}]
  /\ UNCHANGED <<vars, task, delivered, reported, buffered, told, read, cut, slipped>>

(* A subagent already reported is left out.                                  *)
PassTell(p) ==
  /\ Stage(p, "tell")
  /\ told' = told \cup (pass.taken \ (Subagent \cap reported))
  /\ reported' = reported \cup pass.taken
  /\ pass' = IF pass.read = {} THEN [NoPass EXCEPT !.turn = p]
             ELSE [pass EXCEPT !.stage = "sweep", !.taken = {}]
  /\ UNCHANGED <<vars, task, delivered, buffered, requests, read, cut, slipped>>

(* drop_pending_items_for_consumed_completions                               *)
Sweeps(p) ==
  /\ Stage(p, "sweep")
  /\ \E w \in pass.read : TurnConsume(p, w)
  /\ pass' = [NoPass EXCEPT !.turn = p]
  /\ UNCHANGED <<task, delivered, reported, buffered, requests, told, read, cut, slipped>>

-----------------------------------------------------------------------------
(* The turn ends outside a pass.                                             *)
CloseTurn(p) ==
  /\ Stage(p, "none") /\ TurnEnd(p, TRUE)
  /\ pass' = NoPass
  /\ UNCHANGED <<task, delivered, reported, buffered, requests, told, read, cut, slipped>>

(* The steps of the session that leave wakes alone.                          *)
SessionStep ==
  /\ \/ Complete \/ CompleteLock \/ TurnEndArm \/ CancelGate \/ Start \/ Drain
     \/ \E kind \in Cancels : Cancel(kind)
     \/ \E closed \in BOOLEAN : Shutdown(closed)
     \/ \E p \in Prompts : TurnEmit(p) \/ Reap(p)
  /\ UNCHANGED wakeVars

PassStep(p) ==
  \/ OpenTasks(p) \/ OpenAsk(p) \/ OpenTell(p)
  \/ PassTasks(p) \/ PassAsk(p) \/ PassTell(p) \/ Sweeps(p)

WakeNext ==
  \/ \E w \in Wake : \/ Bridge(w) \/ WakePrompt(w)
                     \/ \E claimed \in BOOLEAN : ExitBash(w, claimed)
                     \/ \E wakes \in BOOLEAN : ExitSubagent(w, wakes)
  \/ \E c \in Client, asked \in BOOLEAN : UserPrompt(c, asked)
  \/ CancelUnmark \/ Abort \/ Serve \/ SessionStep
  \/ \E p \in Prompts : \/ OpenTurn(p) \/ PassStep(p) \/ CloseTurn(p)
                        \/ PassDrain(p, {}) \/ \E w \in Wake : PassDrain(p, {w})

WakeSpec == WakeInit /\ [][WakeNext]_allVars

-----------------------------------------------------------------------------
(* Properties.                                                               *)

(* A completion that a surface can still pick up.                            *)
Reportable(w) ==
  IF w \in Bash THEN w \notin reported
  ELSE w \in buffered

(* A finished task is never forgotten while its session runs: the model has  *)
(* been told, its wake is on the way, queued or has run, a pass holds it, or *)
(* a surface can still pick it up.  What is lost is lost with a turn that    *)
(* was aborted, or with a wake that was preempted, cancelled or rewound.     *)
NothingForgotten ==
  \A w \in Finished :
    \/ w \in told \cup read \cup cut \cup pass.taken
    \/ task[w] = "posted"
    \/ Reportable(w)

(* While a wake is queued or once it has run, and once a reminder has told,  *)
(* no surface picks the completion up again -- but for a subagent whose mark *)
(* went down with an aborted pass, or came after the pass had looked.        *)
NoEcho ==
  [][\A w \in (pass'.taken \ pass.taken) \ slipped' :
       fate[w] \notin {"pending", "done"} /\ w \notin told]_allVars
=============================================================================
