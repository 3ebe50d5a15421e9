--------------------------- MODULE SessionTurns ---------------------------
(***************************************************************************)
(* The turn scheduler of one cf-shell session (cf-shell/src/session).      *)
(*                                                                         *)
(* A session is a set of cooperative tasks on one thread:                  *)
(*   - the run loop (run_session), which serves turn completions first and *)
(*     client commands second and awaits between the steps of an arm;      *)
(*   - the turn task of the running prompt (run_task), and, for a while,   *)
(*     the task of a turn that has been cancelled but not yet aborted;     *)
(*   - the task that starts the front prompt once MCP is initialised;      *)
(*   - the task that resumes a parked plan approval.                       *)
(* They share State (under a tokio mutex, variables running .. notices     *)
(* below) and a handful of cells outside it (pin .. depth).  An action is  *)
(* what one task does between two awaits at which another task can run;    *)
(* steps that only the acting task can observe are merged.                 *)
(*                                                                         *)
(* Left out: the text, version and last editor of a queued row (so the     *)
(* edit command, and the refused side of the version and owner gates, are  *)
(* stutters here), the broadcasts, usage, telemetry and the conversation.  *)
(*                                                                         *)
(* ClearAlways, ClearNever, CanStartInactive, ReadyUnbiased, PreemptsIdle, *)
(* SweptForgetful, TakenRunning, AbortedForgetful, DepthKept,              *)
(* CancelledByPin, PinKept, GateKept, OwnedUnchecked and LoweredWrapping   *)
(* are faulty variants of the definitions that follow them.  Nothing uses  *)
(* them: each is a slip a property can be tried against.                   *)
(***************************************************************************)
EXTENDS PromptQueue

CONSTANTS
  Owners, OwnerOf,  \* the clients attached to the session, and who owns a row
  AnyOwner,         \* a clear that names no owner
  SourceOf,         \* the background task a notice comes from
  GoalNotices,      \* notices of tasks started by a goal turn
  NoPrompt,         \* None of Option<prompt id>
  Cap,              \* MAX_PENDING_NOTIFICATIONS and MAX_BUFFER_EVENTS (50)
  Cancels,          \* the kinds of Cancel command clients send in this run
  Orders,           \* the id lists of ReorderQueue commands in this run
  Waiters,          \* prompts whose turn calls an interruptible wait tool
  McpInit           \* whether MCP initialisation is still under way at start

ASSUME SortsDisjoint ==
  LET sorts == <<Client, Fallback, Wake, Notice, Goal, Plan>>
  IN  \A i, j \in 1..6 : i # j => sorts[i] \cap sorts[j] = {}
ASSUME NoPromptAssumption == NoPrompt \notin Prompts
ASSUME OwnerAssumption == OwnerOf \in [Client -> Owners] /\ AnyOwner \notin Owners
ASSUME CapAssumption == Cap \in Nat \ {0}
ASSUME NoticeAssumption == SourceOf \in [Notice -> Wake \cup {NoPrompt}]
ASSUME OrdersAssumption == Orders \subseteq Seq(Client)
ASSUME ScenarioAssumption ==
  /\ Cancels \subseteq {"interactive", "rewind", "teardown"}
  /\ Waiters \subseteq Prompts /\ GoalNotices \subseteq Notice
  /\ McpInit \in BOOLEAN

VARIABLES
  pc,            \* where the run loop is: at its select, or inside an arm
  arm,           \* the arm it serves
  cur,           \* the completion the completion arm serves
  stranded,      \* interjections drained from the buffer, still to be queued
  cancel,        \* locals of cancel_running_task
  running,       \* State::running_task
  queue,         \* State::pending_inputs
  marked,        \* the prompts whose InputItem::send_now is set
  rewindable,    \* State::rewindable
  suppressed,    \* State::notifications_suppressed
  notices,       \* State::pending_notifications
  pin,           \* SessionActor::current_prompt_id
  interjections, \* SessionActor::pending_interjections
  buffer,        \* ToolContext::monitor_event_buffer
  active,        \* ToolContext::is_turn_active
  goalGate,      \* ToolContext::goal_loop_active_gate
  goal,          \* status of the goal tracker
  depth,         \* ToolContext::blocking_wait_depth
  waits,         \* turns holding a BlockingWaitGuard
  live,          \* turn tasks that can still take a step
  begun,         \* turn tasks that have entered handle_prompt
  aborted,       \* aborted turn tasks whose future is not dropped yet
  completions,   \* the completion channel
  mcp,           \* whether the MCP task still has to start the front prompt
  resuming,      \* plan prompt queued by a resume task that must still start
  fate,          \* what became of each prompt
  spawned,       \* prompts a turn task was ever spawned for
  terminals      \* TurnCompleted updates published for each prompt

loopVars    == <<pc, arm, cur, stranded, cancel>>
starterVars == <<mcp, resuming>>
turnVars    == <<live, begun, aborted, spawned>>
waitVars    == <<waits, depth>>
goalVars    == <<goal, goalGate>>
noticeVars  == <<notices, buffer, suppressed>>
vars == <<loopVars, starterVars, turnVars, waitVars, goalVars, noticeVars,
          running, queue, marked, rewindable, pin, interjections, active,
          completions, fate, terminals>>

----------------------------------------------------------------------------
Maybe       == Prompts \cup {NoPrompt}
(***************************************************************************)
(* An interjection or a notice is buffered, then merged into a turn,       *)
(* discarded or queued.  A prompt is pending from the moment it is queued  *)
(* until its request is answered, in one of the five ways of Answers.      *)
(***************************************************************************)
Answers     == {"done", "cancelled", "rewound", "removed", "dropped"}
Settled     == Answers \cup {"merged", "discarded"}
Fates       == Settled \cup {"new", "buffered", "pending"}
NoCancel    == [pinned |-> NoPrompt, task |-> NoPrompt, resolved |-> <<>>,
                kind |-> "none", rewound |-> FALSE]
Kinds       == {"none", "send_now", "interactive", "rewind", "teardown"}
NoCompletion == [id |-> NoPrompt, ok |-> TRUE]

(***************************************************************************)
(* fates f with every prompt in S settled as v.                            *)
(***************************************************************************)
Settle(f, S, v) == [p \in Prompts |-> IF p \in S THEN v ELSE f[p]]

(***************************************************************************)
(* The oldest entries beyond the cap are dropped.                          *)
(***************************************************************************)
PushCapped(s, n) ==
  LET t == Append(s, n)
  IN  IF Len(t) > Cap THEN SubSeq(t, Len(t) - Cap + 1, Len(t)) ELSE t

(***************************************************************************)
(* Compare and clear: a cell that names another prompt is left alone.      *)
(***************************************************************************)
ClearAlways(cell, p) == NoPrompt
ClearNever(cell, p)  == cell
Clear(cell, p)       == IF cell = p THEN NoPrompt ELSE cell

Init ==
  /\ pc = "select" /\ arm = "none" /\ cur = NoCompletion
  /\ stranded = <<>> /\ cancel = NoCancel
  /\ running = NoPrompt /\ queue = <<>> /\ marked = {}
  /\ rewindable = FALSE /\ suppressed = FALSE /\ notices = <<>>
  /\ pin = NoPrompt /\ interjections = <<>> /\ buffer = <<>>
  /\ active = FALSE /\ goalGate = FALSE /\ goal = "none"
  /\ depth = 0 /\ waits = {}
  /\ live = {} /\ begun = {} /\ aborted = {} /\ completions = <<>>
  /\ mcp = (IF McpInit THEN "initialising" ELSE "done")
  /\ resuming = NoPrompt
  /\ fate = [p \in Prompts |-> "new"]
  /\ spawned = {} /\ terminals = [p \in Prompts |-> 0]

----------------------------------------------------------------------------
(***************************************************************************)
(* maybe_start_running_task: with no turn running, the front of the queue  *)
(* becomes the running turn.  It is not popped; pin and running_task are   *)
(* set in one lock hold.                                                   *)
(***************************************************************************)
CanStartInactive == running = NoPrompt /\ queue # <<>> /\ ~active
CanStart         == running = NoPrompt /\ queue # <<>>

MaybeStart ==
  IF CanStart
  THEN /\ running' = Head(queue) /\ pin' = Head(queue) /\ rewindable' = TRUE
       /\ live' = live \cup {Head(queue)}
       /\ spawned' = spawned \cup {Head(queue)}
  ELSE UNCHANGED <<running, pin, rewindable, live, spawned>>

----------------------------------------------------------------------------
(* The run loop.  The select is biased: a command is taken only when no    *)
(* completion waits.                                                       *)

ReadyUnbiased == pc = "select"
Ready         == pc = "select" /\ completions = <<>>

(***************************************************************************)
(* The head of cancel_running_task and of its callers: the interjection    *)
(* buffer is cleared, the pin is read, and the kill of the foreground      *)
(* commands is awaited before the state lock is taken.                     *)
(***************************************************************************)
BeginCancel(kind) ==
  /\ pc' = "cancelLock"
  /\ interjections' = <<>>
  /\ cancel' = [NoCancel EXCEPT !.pinned = pin, !.kind = kind]

(***************************************************************************)
(* queue_input on a prompt p, `asked' for as send-now or not.  A user      *)
(* prompt preempts the queued synthetic ones when one of them carries a    *)
(* completion id.  It is sent now when asked, or when it is the only user  *)
(* prompt held while the running turn sits in an interruptible wait; the   *)
(* running turn is then cancelled unless a goal loop drives it.            *)
(***************************************************************************)
QueuedWake == \E w \in Wake \cap ToSet(queue) : w # running
PreemptsIdle(p) == p \in User /\ running = NoPrompt /\ QueuedWake
Preempts(p) == p \in User /\ QueuedWake
Remaining(p) == IF Preempts(p) THEN Sweep(queue, running, Synthetic) ELSE queue
Held(p) == \E u \in User \cap ToSet(Remaining(p)) : u # running
SendsNow(p, asked) ==
  p \in User /\ (asked \/ (running # NoPrompt /\ depth > 0 /\ ~Held(p)))
CancelsTurn(p, asked) ==
  SendsNow(p, asked) /\ running # NoPrompt /\ ~goalGate

QueueInput(p, asked) ==
  /\ IF SendsNow(p, asked)
       THEN /\ queue' = InsertSendNow(Remaining(p), running, marked, p)
            /\ marked' = marked \cup {p}
       ELSE /\ queue' = Append(Remaining(p), p)
            /\ UNCHANGED marked
  /\ LET gone == ToSet(queue) \ ToSet(Remaining(p))
         lost == IF CancelsTurn(p, asked) THEN ToSet(interjections) ELSE {}
     IN fate' = Settle(Settle(Settle(fate, gone, "dropped"), lost, "discarded"),
                       {p}, "pending")

(***************************************************************************)
(* The Prompt arm; a user prompt first lifts the suppression of drains.    *)
(***************************************************************************)
Prompt(p, asked) ==
  /\ Ready /\ fate[p] = "new" /\ p \in Client \cup Wake \cup Goal
  /\ asked => p \in Client
  /\ suppressed' = (suppressed /\ p \notin Client)
  /\ QueueInput(p, asked)
  /\ arm' = "prompt"
  /\ IF CancelsTurn(p, asked)
       THEN BeginCancel("send_now")
       ELSE pc' = "start" /\ UNCHANGED <<interjections, cancel>>
  /\ UNCHANGED <<cur, stranded, starterVars, turnVars, waitVars, goalVars,
                 notices, buffer, running, rewindable, pin, active,
                 completions, terminals>>

(***************************************************************************)
(* The InterjectQueuedPrompt arm: a queued row is promoted to run next.    *)
(***************************************************************************)
InterjectQueued(p) ==
  /\ Ready /\ p \in Client \cap ToSet(queue) /\ p # running
  /\ LET others == Keep(queue, ToSet(queue) \ {p})
     IN  queue' = InsertSendNow(others, running, marked, p)
  /\ marked' = marked \cup {p}
  /\ arm' = "interjectQueued"
  /\ IF running # NoPrompt /\ ~goalGate
       THEN /\ BeginCancel("send_now")
            /\ fate' = Settle(fate, ToSet(interjections), "discarded")
       ELSE pc' = "start" /\ UNCHANGED <<interjections, cancel, fate>>
  /\ UNCHANGED <<cur, stranded, starterVars, turnVars, waitVars, goalVars,
                 noticeVars, running, rewindable, pin, active, completions,
                 terminals>>

(***************************************************************************)
(* Queue edits that never start a turn.                                    *)
(***************************************************************************)
QueueEdit(q) ==
  /\ queue' = q /\ marked' = marked \cap ToSet(q)
  /\ fate' = Settle(fate, ToSet(queue) \ ToSet(q), "removed")
  /\ UNCHANGED <<loopVars, starterVars, turnVars, waitVars, goalVars,
                 noticeVars, running, rewindable, pin, interjections, active,
                 completions, terminals>>

RemoveQueued(p) ==
  /\ Ready /\ p \in Client \cap ToSet(queue) /\ p # running
  /\ QueueEdit(Keep(queue, ToSet(queue) \ {p}))

Reorder(order) == Ready /\ QueueEdit(Reordered(queue, running, order))

ClearQueue(o) ==
  /\ Ready
  /\ LET mine == {p \in Client \ {running} : o \in {OwnerOf[p], AnyOwner}}
     IN  QueueEdit(Keep(queue, ToSet(queue) \ mine))

(***************************************************************************)
(* The Interject arm: the running turn merges the text at its next safe    *)
(* point, but a text that finds no turn pinned becomes a prompt.           *)
(***************************************************************************)
Interject(i) ==
  /\ Ready /\ i \in Fallback /\ fate[i] = "new"
  /\ fate' = [fate EXCEPT ![i] = "buffered"]
  /\ IF pin # NoPrompt
       THEN /\ interjections' = Append(interjections, i)
            /\ UNCHANGED <<pc, arm, stranded>>
       ELSE /\ pc' = "flush" /\ arm' = "interject" /\ stranded' = <<i>>
            /\ UNCHANGED interjections
  /\ UNCHANGED <<cur, cancel, starterVars, turnVars, waitVars, goalVars,
                 noticeVars, running, queue, marked, rewindable, pin, active,
                 completions, terminals>>

(***************************************************************************)
(* queue_interjection_fallback_prompt, for the last stranded entry: the    *)
(* reversed insertions right behind the running front restore the order.   *)
(***************************************************************************)
Flush ==
  /\ pc = "flush"
  /\ LET i == Last(stranded)
     IN  /\ queue' = InsertFallback(queue, running, i)
         /\ marked' = marked \cup {i}
         /\ fate' = [fate EXCEPT ![i] = "pending"]
  /\ stranded' = Front(stranded)
  /\ pc' = IF Len(stranded) = 1 THEN "start" ELSE "flush"
  /\ UNCHANGED <<arm, cur, cancel, starterVars, turnVars, waitVars, goalVars,
                 noticeVars, running, rewindable, pin, interjections, active,
                 completions, terminals>>

(***************************************************************************)
(* The GoalSummaryTurn arm.                                                *)
(***************************************************************************)
GoalSummaryTurn(g) ==
  /\ Ready /\ g \in Goal /\ fate[g] = "new"
  /\ queue' = Append(queue, g)
  /\ fate' = [fate EXCEPT ![g] = "pending"]
  /\ pc' = "start" /\ arm' = "goalSummary"
  /\ UNCHANGED <<cur, stranded, cancel, starterVars, turnVars, waitVars,
                 goalVars, noticeVars, running, marked, rewindable, pin,
                 interjections, active, completions, terminals>>

(***************************************************************************)
(* The InjectNotification arm: an urgent event (priority Next) of a live   *)
(* turn goes to the turn's buffer; any other is kept for an idle drain.    *)
(***************************************************************************)
InjectNotification(n, urgent) ==
  /\ Ready /\ n \in Notice /\ fate[n] = "new"
  /\ IF active /\ urgent
       THEN /\ buffer' = PushCapped(buffer, n)
            /\ UNCHANGED <<notices, pc, arm>>
       ELSE /\ notices' = PushCapped(notices, n)
            /\ pc' = "drain" /\ arm' = "notification"
            /\ UNCHANGED buffer
  /\ LET evicted == ToSet(notices \o buffer) \ ToSet(notices' \o buffer')
     IN  fate' = Settle([fate EXCEPT ![n] = "buffered"], evicted, "discarded")
  /\ UNCHANGED <<cur, stranded, cancel, starterVars, turnVars, waitVars,
                 goalVars, suppressed, running, queue, marked, rewindable, pin,
                 interjections, active, completions, terminals>>

(***************************************************************************)
(* The DropMonitorNotifications arm, sent when task w ends with an         *)
(* auto-wake: its queued events are stale.                                 *)
(***************************************************************************)
FromOthers(s, w) == Keep(s, {n \in ToSet(s) : SourceOf[n] # w})

DropMonitorNotifications(w) ==
  /\ Ready
  /\ notices' = FromOthers(notices, w)
  /\ buffer' = FromOthers(buffer, w)
  /\ fate' = Settle(fate, {n \in ToSet(notices \o buffer) : SourceOf[n] = w},
                    "discarded")
  /\ UNCHANGED <<loopVars, starterVars, turnVars, waitVars, goalVars,
                 suppressed, running, queue, marked, rewindable, pin,
                 interjections, active, completions, terminals>>

(***************************************************************************)
(* The Cancel arm.                                                         *)
(***************************************************************************)
Cancel(kind) ==
  /\ Ready
  /\ arm' = "cancel"
  /\ BeginCancel(kind)
  /\ fate' = Settle(fate, ToSet(interjections), "discarded")
  /\ UNCHANGED <<cur, stranded, starterVars, turnVars, waitVars, goalVars,
                 noticeVars, running, queue, marked, rewindable, pin, active,
                 completions, terminals>>

(***************************************************************************)
(* cancel_running_task under the lock.  A pristine turn is rewound: its    *)
(* task is aborted at once and its row popped.  Otherwise the task is only *)
(* taken out of its slot, and the front row (the whole queue at a          *)
(* teardown) is taken to be answered Cancelled.                            *)
(***************************************************************************)
SweptForgetful == notices
Swept          == notices \o buffer   \* sweep_monitor_buffer_into_pending

Teardown == cancel.kind = "teardown"
FrontOf(q)   == IF q = <<>> THEN <<>> ELSE <<Head(q)>>
TakenRunning == IF Teardown THEN queue
                ELSE IF running = NoPrompt THEN <<>> ELSE FrontOf(queue)
Taken        == IF Teardown THEN queue ELSE FrontOf(queue)

CancelLock ==
  LET pristine == cancel.kind = "rewind" /\ rewindable
      rewound  == pristine /\ queue # <<>>
      killed   == IF pristine THEN {running} \cap live ELSE {}
  IN
  /\ pc = "cancelLock"
  /\ notices' = (IF Teardown THEN <<>> ELSE Swept)
  /\ buffer' = <<>>
  /\ running' = NoPrompt
  /\ rewindable' = (rewindable /\ ~pristine)
  /\ suppressed' = ~rewound
  /\ queue' = IF queue = <<>> \/ Teardown THEN <<>> ELSE Tail(queue)
  /\ marked' = marked \cap ToSet(queue')
  /\ cancel' = [cancel EXCEPT !.task = IF pristine THEN NoPrompt ELSE running,
                              !.resolved = Taken, !.rewound = rewound]
  /\ live' = live \ killed
  /\ aborted' = aborted \cup (killed \cap begun)
  /\ fate' = Settle(fate, IF Teardown THEN ToSet(notices \o buffer) ELSE {},
                    "discarded")
  /\ pc' = "cancelGate"
  /\ UNCHANGED <<arm, cur, stranded, starterVars, begun, spawned, waitVars,
                 goalVars, pin, interjections, active, completions, terminals>>

(***************************************************************************)
(* After an await: the goal gate falls.                                    *)
(***************************************************************************)
CancelGate ==
  /\ pc = "cancelGate"
  /\ goalGate' = FALSE
  /\ pc' = "cancelAbort"
  /\ UNCHANGED <<arm, cur, stranded, cancel, starterVars, turnVars, waitVars, goal,
                 noticeVars, running, queue, marked, rewindable, pin,
                 interjections, active, completions, fate, terminals>>

(***************************************************************************)
(* After the awaits of the gate's resource and, but for a send-now cancel, *)
(* of the dangling-call query: the taken task is aborted, and the wait     *)
(* depth is zeroed because the guards of the aborted turn drop only later. *)
(* Until here the taken turn may raise the gate again (TurnGoal).          *)
(***************************************************************************)
AbortedForgetful == {}
Aborted          == live \cap {cancel.task}
DepthKept        == depth
DepthAfterAbort  == 0

CancelAbort ==
  /\ pc = "cancelAbort"
  /\ live' = live \ Aborted
  /\ aborted' = aborted \cup (Aborted \cap begun)
  /\ depth' = DepthAfterAbort
  /\ pc' = "cancelFinish"
  /\ UNCHANGED <<arm, cur, stranded, cancel, starterVars, begun, spawned, waits,
                 goalVars, noticeVars, running, queue, marked, rewindable, pin,
                 interjections, active, completions, fate, terminals>>

(***************************************************************************)
(* The tail of cancel_running_task: the pin is reset, the terminal of the  *)
(* cancelled turn is published (which closes the rewind window, as every   *)
(* outbound update does) and the responders are answered.  A send-now      *)
(* cancel re-enables drains; the Cancel arm pauses an active goal.         *)
(***************************************************************************)
CancelledByPin == cancel.pinned
CancelledId    == IF cancel.task # NoPrompt THEN cancel.task ELSE cancel.pinned

PinKept        == pin
PinAfterCancel == NoPrompt

CancelFinish ==
  LET published == IF cancel.rewound THEN {} ELSE {CancelledId} \cap Prompts
  IN
  /\ pc = "cancelFinish"
  /\ pin' = PinAfterCancel
  /\ terminals' = [p \in Prompts |->
                     terminals[p] + (IF p \in published THEN 1 ELSE 0)]
  /\ rewindable' = (rewindable /\ published = {})
  /\ fate' = Settle(fate, ToSet(cancel.resolved),
                    IF cancel.rewound THEN "rewound" ELSE "cancelled")
  /\ suppressed' = (suppressed /\ cancel.kind # "send_now")
  /\ goal' = IF arm = "cancel" /\ goal = "active" THEN "paused" ELSE goal
  /\ cancel' = NoCancel
  /\ pc' = "start"
  /\ UNCHANGED <<arm, cur, stranded, starterVars, turnVars, waitVars, goalGate,
                 notices, buffer, running, queue, marked, interjections, active,
                 completions>>

(***************************************************************************)
(* The step every arm that may have queued something ends with.  The       *)
(* completion arm goes on to drain notifications.                          *)
(***************************************************************************)
Start ==
  /\ pc = "start"
  /\ MaybeStart
  /\ pc' = IF arm = "completion" THEN "drain" ELSE "select"
  /\ arm' = IF arm = "completion" THEN arm ELSE "none"
  /\ UNCHANGED <<cur, stranded, cancel, starterVars, begun, aborted, waitVars,
                 goalVars, noticeVars, queue, marked, interjections, active,
                 completions, fate, terminals>>

(***************************************************************************)
(* maybe_drain_notifications: in an idle session the pending notices, and  *)
(* the stragglers of the turn buffer, become one queued turn.  While a     *)
(* goal is active or complete they are dropped instead.                    *)
(***************************************************************************)
Idle == running = NoPrompt /\ queue = <<>> /\ ~suppressed
Surfaced(s) == IF goal \in {"active", "complete"} THEN <<>>
               ELSE Keep(s, Notice \ GoalNotices)

Drain ==
  LET all   == Swept
      batch == Surfaced(all)
  IN
  /\ pc = "drain"
  /\ IF Idle
       THEN /\ notices' = <<>> /\ buffer' = <<>>
            /\ IF batch = <<>>
                 THEN fate' = Settle(fate, ToSet(all), "discarded") /\ UNCHANGED queue
                 ELSE /\ queue' = <<Head(batch)>>
                      /\ fate' = Settle(Settle(Settle(fate,
                                   ToSet(all) \ ToSet(batch), "discarded"),
                                   ToSet(batch), "merged"),
                                   {Head(batch)}, "pending")
       ELSE UNCHANGED <<notices, buffer, queue, fate>>
  /\ pc' = IF queue' # queue THEN "drainStart" ELSE "select"
  /\ arm' = IF queue' # queue THEN arm ELSE "none"
  /\ UNCHANGED <<cur, stranded, cancel, starterVars, turnVars, waitVars,
                 goalVars, suppressed, running, marked, rewindable, pin,
                 interjections, active, completions, terminals>>

DrainStart ==
  /\ pc = "drainStart"
  /\ MaybeStart
  /\ pc' = "select" /\ arm' = "none"
  /\ UNCHANGED <<cur, stranded, cancel, starterVars, begun, aborted, waitVars,
                 goalVars, noticeVars, queue, marked, interjections, active,
                 completions, fate, terminals>>

----------------------------------------------------------------------------
(* The completion arm.                                                     *)

(***************************************************************************)
(* handle_completion before its state lock: the pin is cleared first, and  *)
(* a session with no pinned turn leaves the goal loop.                     *)
(***************************************************************************)
GateKept(turn)  == goalGate
GateAfter(turn) == goalGate /\ turn # NoPrompt

Complete ==
  /\ pc = "select" /\ completions # <<>>
  /\ cur' = Head(completions) /\ completions' = Tail(completions)
  /\ pin' = Clear(pin, Head(completions).id)
  /\ goalGate' = GateAfter(Clear(pin, Head(completions).id))
  /\ pc' = "complete" /\ arm' = "completion"
  /\ UNCHANGED <<stranded, cancel, starterVars, turnVars, waitVars, goal,
                 noticeVars, running, queue, marked, rewindable, interjections,
                 active, fate, terminals>>

(***************************************************************************)
(* handle_completion under the lock.  Only a completion that matches the   *)
(* front owns it; one that belongs to a turn a cancel already settled is   *)
(* stale and must leave the promoted turn alone.                           *)
(***************************************************************************)
OwnedUnchecked == queue # <<>>
Owned          == IsFront(queue, cur.id)

CompleteLock ==
  /\ pc = "complete"
  /\ queue' = IF Owned THEN Tail(queue) ELSE queue
  /\ marked' = marked \cap ToSet(queue')
  /\ running' = IF Owned THEN NoPrompt ELSE Clear(running, cur.id)
  /\ fate' = IF Owned THEN [fate EXCEPT ![cur.id] = "done"] ELSE fate
  /\ terminals' = IF Owned THEN [terminals EXCEPT ![cur.id] = @ + 1] ELSE terminals
  /\ rewindable' = (rewindable /\ ~Owned)
  /\ pc' = "turnEnd"
  /\ UNCHANGED <<arm, cur, stranded, cancel, starterVars, turnVars, waitVars,
                 goalVars, noticeVars, pin, interjections, active, completions>>

(***************************************************************************)
(* The rest of the arm up to the flush: the turn's buffered events move to *)
(* the pending notices; with a goal active a successful turn may queue the *)
(* continuation (budget permitting, never twice) and a failed one may      *)
(* pause the goal; the interjections the turn missed are taken.            *)
(***************************************************************************)
TurnEndArm ==
  /\ pc = "turnEnd"
  /\ notices' = Swept /\ buffer' = <<>>
  /\ \/ UNCHANGED <<queue, goal, fate>>
     \/ /\ goal = "active" /\ cur.ok
        /\ Goal \cap ToSet(queue) = {}
        /\ \E g \in Goal : /\ fate[g] = "new"
                           /\ queue' = Append(queue, g)
                           /\ fate' = [fate EXCEPT ![g] = "pending"]
        /\ UNCHANGED goal
     \/ /\ goal = "active" /\ ~cur.ok
        /\ goal' = "paused"
        /\ UNCHANGED <<queue, fate>>
  /\ stranded' = interjections /\ interjections' = <<>>
  /\ pc' = IF interjections = <<>> THEN "start" ELSE "flush"
  /\ cur' = NoCompletion
  /\ UNCHANGED <<arm, cancel, starterVars, turnVars, waitVars, goalGate,
                 suppressed, running, marked, rewindable, pin, active,
                 completions, terminals>>

----------------------------------------------------------------------------
(* The turn task of p, until it ends or is aborted.  Nothing reads the     *)
(* state of the session once the run loop has returned.                    *)

Open == pc # "stopped"

TurnBegin(p) ==
  /\ Open
  /\ p \in live \ begun
  /\ begun' = begun \cup {p}
  /\ active' = TRUE
  /\ UNCHANGED <<loopVars, starterVars, live, aborted, spawned, waitVars,
                 goalVars, noticeVars, running, queue, marked, rewindable, pin,
                 interjections, completions, fate, terminals>>

(***************************************************************************)
(* The first outbound update closes the rewind window, whosever it is.     *)
(***************************************************************************)
TurnEmit(p) ==
  /\ Open
  /\ p \in live \cap begun /\ rewindable
  /\ rewindable' = FALSE
  /\ UNCHANGED <<loopVars, starterVars, turnVars, waitVars, goalVars,
                 noticeVars, running, queue, marked, pin, interjections, active,
                 completions, fate, terminals>>

(***************************************************************************)
(* Safe points of the turn: interjections and buffered events are merged   *)
(* into the conversation.                                                  *)
(***************************************************************************)
TurnMerge(p) ==
  /\ Open
  /\ p \in live \cap begun
  /\ interjections # <<>> \/ buffer # <<>>
  /\ interjections' = <<>> /\ buffer' = <<>>
  /\ fate' = Settle(fate, ToSet(interjections \o buffer), "merged")
  /\ UNCHANGED <<loopVars, starterVars, turnVars, waitVars, goalVars,
                 suppressed, notices, running, queue, marked, rewindable, pin,
                 active, completions, terminals>>

(***************************************************************************)
(* BlockingWaitGuard: entered by a wait tool of the turn; dropped when the *)
(* tool returns, or some time after the turn was aborted.                  *)
(***************************************************************************)
LoweredWrapping(d) == d - 1
Lowered(d)         == IF d = 0 THEN 0 ELSE d - 1

TurnWait(p) ==
  /\ Open
  /\ p \in (live \cap begun \cap Waiters) \ waits
  /\ waits' = waits \cup {p} /\ depth' = depth + 1
  /\ UNCHANGED <<loopVars, starterVars, turnVars, goalVars, noticeVars,
                 running, queue, marked, rewindable, pin, interjections, active,
                 completions, fate, terminals>>

DropGuard(p) ==
  /\ Open
  /\ p \in waits
  /\ waits' = waits \ {p} /\ depth' = Lowered(depth)
  /\ UNCHANGED <<loopVars, starterVars, turnVars, goalVars, noticeVars,
                 running, queue, marked, rewindable, pin, interjections, active,
                 completions, fate, terminals>>

(***************************************************************************)
(* drop_pending_items_for_consumed_completions: a tool result told the     *)
(* turn that task w is done; its queued wake and notices are moot.         *)
(***************************************************************************)
TurnConsume(p, w) ==
  /\ Open
  /\ p \in live \cap begun /\ w \in Wake
  /\ queue' = Sweep(queue, running, {w})
  /\ notices' = FromOthers(notices, w)
  /\ LET moot == {n \in ToSet(notices) : SourceOf[n] = w}
     IN  fate' = Settle(Settle(fate, ToSet(queue) \ ToSet(queue'), "dropped"),
                        moot, "discarded")
  /\ UNCHANGED <<loopVars, starterVars, turnVars, waitVars, goalVars,
                 suppressed, buffer, running, marked, rewindable, pin,
                 interjections, active, completions, terminals>>

(***************************************************************************)
(* A turn may set, complete or clear the goal; each round of its loop      *)
(* mirrors the goal's status into the gate.                                *)
(***************************************************************************)
TurnGoal(p, status) ==
  /\ Open
  /\ p \in live \cap begun /\ Goal # {}
  /\ goal' = status /\ goalGate' = (status = "active")
  /\ UNCHANGED <<loopVars, starterVars, turnVars, waitVars, noticeVars,
                 running, queue, marked, rewindable, pin, interjections, active,
                 completions, fate, terminals>>

(***************************************************************************)
(* handle_prompt returns (ok or not) and run_task sends the completion;    *)
(* the guard that clears the pin exists only past the early returns.  How  *)
(* it ended matters to the goal only.                                      *)
(***************************************************************************)
TurnEnd(p, ok) ==
  /\ Open
  /\ p \in (live \cap begun) \ waits
  /\ ok \/ Goal # {}
  /\ live' = live \ {p} /\ begun' = begun \ {p}
  /\ active' = FALSE
  /\ pin' \in {pin, Clear(pin, p)}
  /\ completions' = Append(completions, [id |-> p, ok |-> ok])
  /\ UNCHANGED <<loopVars, starterVars, aborted, spawned, waitVars, goalVars,
                 noticeVars, running, queue, marked, rewindable, interjections,
                 fate, terminals>>

(***************************************************************************)
(* The future of an aborted turn is dropped, its guards with it.           *)
(***************************************************************************)
Reap(p) ==
  /\ Open
  /\ p \in aborted
  /\ aborted' = aborted \ {p} /\ begun' = begun \ {p}
  /\ active' = FALSE
  /\ pin' \in {pin, Clear(pin, p)}
  /\ UNCHANGED <<loopVars, starterVars, live, spawned, waitVars, goalVars,
                 noticeVars, running, queue, marked, rewindable, interjections,
                 completions, fate, terminals>>

----------------------------------------------------------------------------
(* The tasks that start a turn behind the run loop's back.                 *)

McpReady ==
  /\ Open
  /\ mcp = "initialising"
  /\ mcp' = "done"
  /\ MaybeStart
  /\ UNCHANGED <<loopVars, resuming, begun, aborted, waitVars, goalVars,
                 noticeVars, queue, marked, interjections, active, completions,
                 fate, terminals>>

(***************************************************************************)
(* resume_plan_approval queues a synthetic turn with one lock hold and     *)
(* starts it with another.                                                 *)
(***************************************************************************)
PlanQueue(r) ==
  /\ Open
  /\ r \in Plan /\ fate[r] = "new" /\ resuming = NoPrompt
  /\ QueueInput(r, FALSE)
  /\ resuming' = r
  /\ UNCHANGED <<loopVars, mcp, turnVars, waitVars, goalVars, noticeVars,
                 running, rewindable, pin, interjections, active, completions,
                 terminals>>

PlanStart ==
  /\ Open
  /\ resuming # NoPrompt
  /\ resuming' = NoPrompt
  /\ MaybeStart
  /\ UNCHANGED <<loopVars, mcp, begun, aborted, waitVars, goalVars, noticeVars,
                 queue, marked, interjections, active, completions, fate,
                 terminals>>

----------------------------------------------------------------------------
(***************************************************************************)
(* The Shutdown arm and the closed command channel (which keeps the        *)
(* synthetic rows): the loop returns, every responder left is dropped.     *)
(***************************************************************************)
Shutdown(closed) ==
  /\ Ready
  /\ pc' = "stopped"
  /\ IF closed THEN UNCHANGED <<queue, notices>>
     ELSE queue' = Keep(queue, User) /\ notices' = <<>>
  /\ fate' = Settle(Settle(fate, ToSet(queue), "dropped"),
                    ToSet(notices) \ ToSet(notices'), "discarded")
  /\ UNCHANGED <<arm, cur, stranded, cancel, starterVars, turnVars, waitVars,
                 goalVars, suppressed, buffer, running, marked, rewindable, pin,
                 interjections, active, completions, terminals>>

----------------------------------------------------------------------------
Command ==
  \/ \E p \in Client \cup Wake \cup Goal, asked \in BOOLEAN : Prompt(p, asked)
  \/ \E p \in Client : InterjectQueued(p) \/ RemoveQueued(p)
  \/ \E order \in Orders : Reorder(order)
  \/ \E o \in Owners \cup {AnyOwner} : ClearQueue(o)
  \/ \E i \in Fallback : Interject(i)
  \/ \E g \in Goal : GoalSummaryTurn(g)
  \/ \E n \in Notice, urgent \in BOOLEAN : InjectNotification(n, urgent)
  \/ \E w \in Wake : DropMonitorNotifications(w)
  \/ \E kind \in Cancels : Cancel(kind)
  \/ \E closed \in BOOLEAN : Shutdown(closed)

RunLoopStep ==
  \/ Complete \/ CompleteLock \/ TurnEndArm \/ Flush \/ Start
  \/ CancelLock \/ CancelGate \/ CancelAbort \/ CancelFinish \/ Drain \/ DrainStart

TurnStep(p) ==
  \/ TurnBegin(p) \/ TurnEmit(p) \/ TurnMerge(p) \/ TurnWait(p) \/ DropGuard(p)
  \/ \E w \in Wake : TurnConsume(p, w)
  \/ \E status \in {"active", "complete", "none"} : TurnGoal(p, status)
  \/ \E ok \in BOOLEAN : TurnEnd(p, ok)
  \/ Reap(p)

Starter == McpReady \/ (\E r \in Plan : PlanQueue(r)) \/ PlanStart

Next == Command \/ RunLoopStep \/ (\E p \in Prompts : TurnStep(p)) \/ Starter

Spec == Init /\ [][Next]_vars

(***************************************************************************)
(* The tokio runtime polls every ready task: the run loop finishes the arm *)
(* it is in and takes a waiting completion, a spawned task gets to run, an *)
(* aborted future is dropped.  A turn ends: its model requests and tools   *)
(* return or fail.  A wait tool returns, but a turn may call it again and  *)
(* again, hence the strong fairness.  No client is obliged to send.        *)
(***************************************************************************)
Fairness ==
  /\ WF_vars(RunLoopStep)
  /\ WF_vars(McpReady) /\ WF_vars(PlanStart)
  /\ \A p \in Prompts :
       /\ WF_vars(TurnBegin(p))
       /\ WF_vars(DropGuard(p))
       /\ WF_vars(Reap(p))
       /\ SF_vars(\E ok \in BOOLEAN : TurnEnd(p, ok))

FairSpec == Spec /\ Fairness
=============================================================================
