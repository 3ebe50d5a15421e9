------------------------- MODULE WakeDeliveryProofs -------------------------
(***************************************************************************)
(* Proofs about WakeDelivery, for every set of background tasks and every  *)
(* session: no finished task is forgotten, and none is told to the model   *)
(* again once a surface has told of it, but for the two races its module   *)
(* names.                                                                  *)
(*                                                                         *)
(* Both rest on one inductive invariant, the balance of the session and    *)
(* the books of the three surfaces below.  The session comes first: every  *)
(* step is a step of SessionTurns, so its balance holds here too, and says *)
(* that at most one turn can be in a pass.  The books say which surface    *)
(* answers for a task that another one leaves out: a mark is set only for  *)
(* a task whose wake is on its way, and a task is reported only when it    *)
(* has been told or its turn holds it.                                     *)
(***************************************************************************)
EXTENDS WakeDelivery, SessionProofs

Posted == {w \in Wake : task[w] = "posted"}
Spent  == told \cup read \cup cut \cup Posted
Asking == {"openWait", "wait"}
Stages == {"none", "open", "openAsk", "openWait", "openTell", "tasks", "ask",
           "wait", "tell", "sweep"}
Request == [turn : Prompts, suppress : SUBSET Wake]

WakeTypes ==
  /\ task \in [Wake -> TaskStates]
  /\ delivered \subseteq Wake /\ reported \subseteq Wake
  /\ buffered \subseteq Subagent /\ requests \in Seq(Request)
  /\ pass \in [turn : Maybe, stage : Stages, read : SUBSET Wake,
               suppress : SUBSET Wake, taken : SUBSET Wake]
  /\ told \subseteq Wake /\ read \subseteq Wake
  /\ cut \subseteq Wake /\ slipped \subseteq Wake

(* A pass is one of a turn under way; outside the stages that carry them,  *)
(* it holds no completions and no marks.                                   *)
PassOwned ==
  /\ pass.turn = NoPrompt => pass = NoPass
  /\ pass.turn # NoPrompt => pass.turn \in live \cap begun
  /\ pass.stage \in {"none", "open", "openWait", "tasks", "sweep"} => pass.taken = {}
  /\ pass.stage \notin {"tasks", "ask"} => pass.suppress = {}

(* No turn is promoted while a cancel is under way; what was aborted ran.  *)
TurnAlone ==
  /\ pc \in {"cancelGate", "cancelAbort", "cancelFinish"} => running = NoPrompt
  /\ aborted \subseteq spawned \ live

(* What a surface leaves out has been told, is held, or wakes the session. *)
Marked ==
  /\ delivered \subseteq Posted
  /\ pass.suppress \subseteq read \cup Posted
  /\ \A k \in DOMAIN requests : requests[k].suppress \subseteq read \cup Posted
  /\ reported \cap Bash \subseteq Spent \cup pass.taken
  /\ reported \cap Subagent \subseteq Spent
  /\ Finished \cap Subagent \subseteq Spent \cup pass.taken \cup buffered

(* A request is one of a turn that began; the turn in a pass waits for the *)
(* last one, and has no other.                                             *)
Queried ==
  /\ \A k \in DOMAIN requests : requests[k].turn \in spawned \ (live \ begun)
  /\ \A k \in DOMAIN requests : requests[k].turn = pass.turn =>
       k = Len(requests) /\ pass.stage \in Asking

(* A surface will see that a subagent is not to be told of, or has missed  *)
(* the chance.                                                             *)
Watched(w) ==
  \/ w \in delivered \cup slipped \cup pass.suppress
  \/ \E k \in DOMAIN requests : w \in requests[k].suppress

(* What has been told, or wakes, is not to be found again: a command is    *)
(* reported, a subagent is out of the buffer, or marked for the surface    *)
(* that will look there.                                                   *)
ToldOnce ==
  /\ \A w \in Wake : fate[w] \in {"pending", "done"} => w \in Posted \cap reported
  /\ (told \cup pass.taken) \cap Bash \subseteq reported
  /\ told \cup pass.taken \cup buffered \subseteq Finished
  /\ (told \cup pass.taken) \cap buffered = {}
  /\ \A w \in buffered \cap Posted :
       fate[w] \in {"new", "pending", "done"} => Watched(w)

WakeBooks == WakeTypes /\ PassOwned /\ TurnAlone /\ Marked /\ Queried /\ ToldOnce

----------------------------------------------------------------------------
(* The session.                                                            *)

(* Every step is a step of the session.                                    *)
LEMMA WakeIsNext == [WakeNext]_allVars => [Next]_vars
<1>1. UNCHANGED allVars => UNCHANGED vars
  BY DEF allVars
<1>2. ASSUME NEW w \in Wake, NEW c \in BOOLEAN,
             Bridge(w) \/ WakePrompt(w) \/ ExitBash(w, c) \/ ExitSubagent(w, c)
      PROVE  [Next]_vars
  <2>1. UNCHANGED vars \/ Prompt(w, FALSE)
    BY <1>2 DEF Bridge, WakePrompt, ExitBash, ExitSubagent
  <2>2. Prompt(w, FALSE) => Command
    BY DEF Command
  <2> QED BY <2>1, <2>2 DEF Next
<1>3. ASSUME NEW c \in Client, NEW asked \in BOOLEAN, UserPrompt(c, asked)
      PROVE  Next
  BY <1>3 DEF UserPrompt, Next, Command
<1>4. CancelUnmark \/ Abort => Next
  BY DEF CancelUnmark, Abort, Next, RunLoopStep
<1>5. Serve => UNCHANGED vars
  BY DEF Serve
<1>6. SessionStep => Next
  <2>1. Complete \/ CompleteLock \/ TurnEndArm \/ CancelGate \/ Start \/ Drain => RunLoopStep
    BY DEF RunLoopStep
  <2>2. (\E kind \in Cancels : Cancel(kind)) \/ (\E closed \in BOOLEAN : Shutdown(closed))
          => Command
    BY DEF Command
  <2>3. \A p \in Prompts : TurnEmit(p) \/ Reap(p) => TurnStep(p)
    BY DEF TurnStep
  <2> QED BY <2>1, <2>2, <2>3 DEF SessionStep, Next
<1>7. ASSUME NEW p \in Prompts, OpenTurn(p) \/ CloseTurn(p) \/ PassStep(p)
      PROVE  [Next]_vars
  <2>1. \/ TurnBegin(p) \/ TurnEnd(p, TRUE) \/ UNCHANGED vars
        \/ \E w \in pass.read : TurnConsume(p, w)
    BY <1>7 DEF OpenTurn, CloseTurn, PassStep, OpenTasks, OpenAsk, OpenTell,
       PassTasks, PassAsk, PassTell, Sweeps
  <2>2. TurnBegin(p) \/ TurnEnd(p, TRUE) \/ (\E w \in pass.read : TurnConsume(p, w))
          => TurnStep(p)
    BY DEF TurnStep, TurnConsume
  <2> QED BY <2>1, <2>2 DEF Next
<1>8. \A p \in Prompts : \A R : PassDrain(p, R) => UNCHANGED vars
  BY DEF PassDrain
<1> QED BY <1>1, <1>2, <1>3, <1>4, <1>5, <1>6, <1>7, <1>8 DEF WakeNext

(* The steps of the session in which no turn begins, ends or is aborted.   *)
Resting ==
  \/ UNCHANGED vars
  \/ \E kind : Cancel(kind)
  \/ \E closed \in BOOLEAN : Shutdown(closed)
  \/ CancelGate \/ CancelFinish \/ Complete \/ CompleteLock \/ TurnEndArm \/ Start \/ Drain
  \/ \E p \in Prompts : TurnEmit(p) \/ Reap(p) \/ \E w \in Wake : TurnConsume(p, w)
Staying == Resting \/ \E p \in Prompts, asked \in BOOLEAN : Prompt(p, asked)

(* No turn task goes, and one that comes was never spawned before.         *)
TurnsKept ==
  /\ live \subseteq live' /\ live' \cap spawned \subseteq live
  /\ spawned \subseteq spawned' /\ live \cap begun \subseteq begun'

LEMMA StayingKeeps ==
  ASSUME Balance, TurnAlone, Staying
  PROVE  TurnsKept /\ TurnAlone'
<1>1. ASSUME UNCHANGED <<live, begun, aborted, spawned>>, running' \in {running, NoPrompt},
             pc' \in {"cancelGate", "cancelAbort", "cancelFinish"} =>
               pc \in {"cancelGate", "cancelAbort", "cancelFinish"}
      PROVE  TurnsKept /\ TurnAlone'
  BY <1>1 DEF TurnsKept, TurnAlone
<1>2. CASE UNCHANGED vars
  BY <1>1, <1>2 DEF vars, turnVars, loopVars
<1>3. ASSUME NEW p \in Prompts, NEW asked \in BOOLEAN, Prompt(p, asked)
      PROVE  TurnsKept /\ TurnAlone'
  BY <1>1, <1>3 DEF Prompt, BeginCancel, turnVars
<1>4. ASSUME NEW kind, Cancel(kind)  PROVE TurnsKept /\ TurnAlone'
  BY <1>1, <1>4 DEF Cancel, BeginCancel, turnVars
<1>5. ASSUME NEW closed \in BOOLEAN, Shutdown(closed)  PROVE TurnsKept /\ TurnAlone'
  BY <1>1, <1>5 DEF Shutdown, turnVars
<1>6. CASE CancelGate \/ CancelFinish \/ Complete \/ CompleteLock \/ TurnEndArm \/ Drain
  BY <1>1, <1>6 DEF CancelGate, CancelFinish, Complete, CompleteLock, TurnEndArm, Drain, turnVars,
     Clear
<1>7. CASE Start
  <2>1. /\ pc = "start" /\ MaybeStart /\ pc' \in {"select", "drain"}
        /\ UNCHANGED <<begun, aborted>>
    BY <1>7 DEF Start
  <2>2. CASE ~CanStart
    BY <1>1, <2>1, <2>2 DEF MaybeStart
  <2>3. CASE CanStart
    <3>1. Head(queue) \in ToSet(queue) /\ running = NoPrompt
      BY <2>3, SomeContents DEF CanStart, Balance, IInv, TypeOK, Seen
    <3>2. Head(queue) \in Prompts /\ Head(queue) \notin spawned
      BY <2>1, <3>1, QueuedIsRunning, SortFacts DEF Balance
    <3>3. live' = live \cup {Head(queue)} /\ spawned' = spawned \cup {Head(queue)}
      BY <2>1, <2>3 DEF MaybeStart
    <3> QED BY <2>1, <3>2, <3>3 DEF TurnsKept, TurnAlone
  <2> QED BY <2>2, <2>3
<1>8. ASSUME NEW p \in Prompts, TurnEmit(p)  PROVE TurnsKept /\ TurnAlone'
  BY <1>1, <1>8 DEF TurnEmit, turnVars, loopVars
<1>9. ASSUME NEW p \in Prompts, Reap(p)  PROVE TurnsKept /\ TurnAlone'
  <2>1. /\ p \in aborted /\ aborted' = aborted \ {p} /\ begun' = begun \ {p}
        /\ UNCHANGED <<pc, running, live, spawned>>
    BY <1>9 DEF Reap, loopVars
  <2> QED BY <2>1 DEF TurnsKept, TurnAlone
<1>10. ASSUME NEW p \in Prompts, NEW w \in Wake, TurnConsume(p, w)
       PROVE  TurnsKept /\ TurnAlone'
  BY <1>1, <1>10 DEF TurnConsume, turnVars, loopVars
<1> QED BY <1>2, <1>3, <1>4, <1>5, <1>6, <1>7, <1>8, <1>9, <1>10
        DEF Staying, Resting

(* A wake that is not prompted for does not become pending, nor new again. *)
FateKept(w) ==
  /\ fate'[w] \in {"pending", "done"} => fate[w] \in {"pending", "done"}
  /\ fate'[w] = "new" => fate[w] = "new"

LEMMA PromptFates ==
  ASSUME NEW p \in Prompts, NEW asked \in BOOLEAN, Prompt(p, asked),
         NEW w \in Wake, w # p
  PROVE  FateKept(w)
<1>1. QueueInput(p, asked)
  BY DEF Prompt
<1>2. fate'[w] \in {fate[w], "dropped", "discarded"}
  BY <1>1, SortFacts DEF QueueInput, Settle
<1> QED BY <1>2 DEF FateKept

LEMMA RestingFates ==
  ASSUME Balance, Resting, NEW w \in Wake
  PROVE  FateKept(w)
<1> USE SortFacts
<1>1. ASSUME UNCHANGED fate  PROVE FateKept(w)
  BY <1>1 DEF FateKept
<1>2. CASE UNCHANGED vars
  BY <1>1, <1>2 DEF vars
<1>3. ASSUME NEW kind, Cancel(kind)  PROVE FateKept(w)
  BY <1>3 DEF Cancel, Settle, FateKept
<1>4. ASSUME NEW closed \in BOOLEAN, Shutdown(closed)  PROVE FateKept(w)
  BY <1>4 DEF Shutdown, Settle, FateKept
<1>5. CASE CancelFinish
  BY <1>5 DEF CancelFinish, Settle, FateKept
<1>6. CASE CompleteLock
  <2>1. CASE Owned
    <3>1. queue # <<>> /\ Head(queue) = cur.id /\ pc # "stopped"
      BY <1>6, <2>1 DEF CompleteLock, Owned, IsFront
    <3>2. cur.id \in ToSet(queue)
      BY <3>1, SomeContents DEF Balance, IInv, TypeOK, Seen
    <3>3. cur.id \in Prompts /\ fate[cur.id] = "pending"
      BY <3>1, <3>2, QueuedIsRunning DEF Balance, Ledger, PromptsHeld
    <3>4. fate' = [fate EXCEPT ![cur.id] = "done"]
      BY <1>6, <2>1 DEF CompleteLock
    <3>5. fate'[w] = fate[w] \/ (w = cur.id /\ fate'[w] = "done")
      BY <3>3, <3>4 DEF Balance, IInv, TypeOK
    <3> QED BY <3>3, <3>5 DEF FateKept
  <2>2. CASE ~Owned
    BY <1>1, <1>6, <2>2 DEF CompleteLock
  <2> QED BY <2>1, <2>2
<1>7. CASE TurnEndArm
  <2>1. UNCHANGED fate
    BY <1>7, InstanceAssumption DEF TurnEndArm
  <2> QED BY <1>1, <2>1
<1>8. CASE Complete \/ CancelGate \/ Start
  BY <1>1, <1>8 DEF Complete, CancelGate, Start
<1>9. CASE Drain
  <2>1. Swept = <<>>
    BY <1>9, InstanceAssumption, EmptyContents, SomeContents
       DEF Balance, Ledger, NoticesHeld, IInv, TypeOK, Seen, Swept
  <2>2. Surfaced(Swept) = <<>>
    <3>1. Keep(<<>>, Notice \ GoalNotices) = <<>>
      BY ONLY KeepNothing
    <3> QED BY <2>1, <3>1 DEF Surfaced
  <2>3. fate'[w] \in {fate[w], "discarded"}
    BY <1>9, <2>2 DEF Drain, Settle
  <2> QED BY <2>3 DEF FateKept
<1>10. ASSUME NEW p \in Prompts, TurnEmit(p) \/ Reap(p)  PROVE FateKept(w)
  BY <1>1, <1>10 DEF TurnEmit, Reap
<1>11. ASSUME NEW p \in Prompts, NEW x \in Wake, TurnConsume(p, x)
       PROVE  FateKept(w)
  BY <1>11 DEF TurnConsume, Settle, FateKept
<1> QED BY <1>2, <1>3, <1>4, <1>5, <1>6, <1>7, <1>8, <1>9, <1>10, <1>11
        DEF Resting

----------------------------------------------------------------------------
(* The books, step by step.                                                *)

(* Without a turn that begins or goes, a pass and its requests stay owned. *)
LEMMA StayingOwned ==
  ASSUME Balance, WakeBooks, Staying, UNCHANGED <<pass, requests>>
  PROVE  PassOwned' /\ Queried' /\ TurnAlone'
<1>1. TurnsKept /\ TurnAlone'
  BY StayingKeeps DEF WakeBooks
<1>2. PassOwned'
  BY <1>1 DEF WakeBooks, PassOwned, TurnsKept
<1>3. Queried'
  BY <1>1 DEF WakeBooks, Queried, TurnsKept
<1> QED BY <1>1, <1>2, <1>3

(* A step of the session that queues no wake and leaves the surfaces alone.*)
LEMMA SessionStepBooks ==
  ASSUME Balance, WakeBooks, Resting, UNCHANGED wakeVars
  PROVE  WakeBooks'
<1> USE DEF WakeBooks, wakeVars
<1>1. PassOwned' /\ Queried' /\ TurnAlone'
  BY StayingOwned DEF Staying
<1>2. Posted' = Posted /\ Finished' = Finished /\ Spent' = Spent
  BY DEF Posted, Finished, Spent
<1>3. WakeTypes' /\ Marked'
  BY <1>2 DEF WakeTypes, Marked
<1>4. \A w \in Wake : FateKept(w)
  BY RestingFates
<1>5. \A w \in Wake :
        /\ fate'[w] \in {"pending", "done"} => fate[w] \in {"pending", "done"}
        /\ fate'[w] \in {"new", "pending", "done"} => fate[w] \in {"new", "pending", "done"}
  BY <1>4 DEF FateKept
<1>6. buffered \subseteq Wake
  BY DEF WakeTypes, Subagent
<1>7. ToldOnce'
  <2>1. ASSUME NEW w \in Wake, fate'[w] \in {"pending", "done"}
        PROVE  w \in Posted' \cap reported'
    <3>1. fate[w] \in {"pending", "done"}
      BY <1>5, <2>1
    <3>2. w \in Posted \cap reported
      BY <3>1 DEF ToldOnce
    <3> QED BY <1>2, <3>2
  <2>2. ASSUME NEW w \in buffered \cap Posted, fate'[w] \in {"new", "pending", "done"}
        PROVE  Watched(w)
    <3>1. fate[w] \in {"new", "pending", "done"}
      BY <1>5, <1>6, <2>2
    <3> QED BY <3>1 DEF ToldOnce
  <2>3. /\ (told \cup pass.taken) \cap Bash \subseteq reported
        /\ told \cup pass.taken \cup buffered \subseteq Finished
        /\ (told \cup pass.taken) \cap buffered = {}
    BY DEF ToldOnce
  <2> QED BY <1>2, <2>1, <2>2, <2>3 DEF ToldOnce, Watched
<1> QED BY <1>1, <1>3, <1>7

(* A task that ends moves towards its wake.                                *)
LEMMA TaskFacts ==
  ASSUME WakeTypes, NEW w \in Wake, task[w] # "posted", NEW s \in TaskStates \ {"running"},
         task' = [task EXCEPT ![w] = s]
  PROVE  /\ task' \in [Wake -> TaskStates]
         /\ Posted' = Posted \cup (IF s = "posted" THEN {w} ELSE {})
         /\ Finished' = Finished \cup {w}
<1>1. \A x \in Wake : task'[x] = IF x = w THEN s ELSE task[x]
  BY DEF WakeTypes
<1> QED BY <1>1 DEF WakeTypes, Posted, Finished, TaskStates

LEMMA BridgeBooks ==
  ASSUME Balance, WakeBooks, NEW w \in Wake, Bridge(w)
  PROVE  WakeBooks'
<1> USE DEF WakeBooks
<1>1. /\ w \in Bash /\ task[w] = "exited" /\ task' = [task EXCEPT ![w] = "posted"]
      /\ delivered' = delivered \cup {w}
      /\ UNCHANGED <<vars, reported, buffered, requests, pass, told, read, cut, slipped>>
  BY DEF Bridge
<1>2. PassOwned' /\ Queried' /\ TurnAlone'
  BY <1>1, StayingOwned DEF Staying, Resting
<1>3. /\ task' \in [Wake -> TaskStates] /\ Posted' = Posted \cup {w}
      /\ Finished' = Finished \cup {w}
  BY <1>1, TaskFacts DEF TaskStates
<1>4. UNCHANGED fate /\ w \notin Subagent /\ Spent' = Spent \cup {w} /\ w \in Finished
  BY <1>1, <1>3 DEF vars, Subagent, Spent, Finished
<1>5. WakeTypes' /\ Marked'
  BY <1>1, <1>3, <1>4 DEF WakeTypes, Marked
<1>6. ToldOnce'
  BY <1>1, <1>3, <1>4 DEF ToldOnce, Watched, WakeTypes
<1> QED BY <1>2, <1>5, <1>6

LEMMA ExitBashBooks ==
  ASSUME Balance, WakeBooks, NEW w \in Wake, NEW claimed \in BOOLEAN, ExitBash(w, claimed)
  PROVE  WakeBooks'
<1> USE DEF WakeBooks
<1>1. /\ w \in Bash /\ task[w] = "running"
      /\ task' = [task EXCEPT ![w] = IF claimed THEN "quiet" ELSE "exited"]
      /\ UNCHANGED <<vars, delivered, reported, buffered, requests, pass, told, read,
                     cut, slipped>>
  BY DEF ExitBash
<1>2. PassOwned' /\ Queried' /\ TurnAlone'
  BY <1>1, StayingOwned DEF Staying, Resting
<1>3. /\ task' \in [Wake -> TaskStates] /\ Posted' = Posted
      /\ Finished' = Finished \cup {w}
  <2>1. PICK s \in {"quiet", "exited"} : task' = [task EXCEPT ![w] = s]
    BY <1>1
  <2>2. s \in TaskStates \ {"running"} /\ s # "posted"
    BY <2>1 DEF TaskStates
  <2> QED BY <1>1, <2>1, <2>2, TaskFacts
<1>4. UNCHANGED fate /\ w \notin Subagent /\ Spent' = Spent
  BY <1>1, <1>3 DEF vars, Subagent, Spent
<1>5. WakeTypes' /\ Marked'
  BY <1>1, <1>3, <1>4 DEF WakeTypes, Marked
<1>6. ToldOnce'
  BY <1>1, <1>3, <1>4 DEF ToldOnce, Watched, WakeTypes
<1> QED BY <1>2, <1>5, <1>6

LEMMA ExitSubagentBooks ==
  ASSUME Balance, WakeBooks, NEW w \in Wake, NEW wakes \in BOOLEAN, ExitSubagent(w, wakes)
  PROVE  WakeBooks'
<1> USE DEF WakeBooks
<1>1. /\ w \in Subagent /\ task[w] = "running" /\ buffered' = buffered \cup {w}
      /\ task' = [task EXCEPT ![w] = IF wakes THEN "posted" ELSE "quiet"]
      /\ delivered' = delivered \cup (IF wakes THEN {w} ELSE {})
      /\ UNCHANGED <<vars, reported, requests, pass, told, read, cut, slipped>>
  BY DEF ExitSubagent
<1>2. PassOwned' /\ Queried' /\ TurnAlone'
  BY <1>1, StayingOwned DEF Staying, Resting
<1>3. /\ task' \in [Wake -> TaskStates]
      /\ Posted' = Posted \cup (IF wakes THEN {w} ELSE {})
      /\ Finished' = Finished \cup {w} /\ w \notin Finished
  <2>1. PICK s \in {"posted", "quiet"} :
          task' = [task EXCEPT ![w] = s] /\ (s = "posted" <=> wakes)
    BY <1>1
  <2>2. s \in TaskStates \ {"running"}
    BY <2>1 DEF TaskStates
  <2> QED BY <1>1, <2>1, <2>2, TaskFacts DEF Finished
<1>4. UNCHANGED fate /\ Spent \subseteq Spent'
  BY <1>1, <1>3 DEF vars, Spent
<1>5. WakeTypes' /\ Marked'
  BY <1>1, <1>3, <1>4 DEF WakeTypes, Marked, Subagent
<1>6. ToldOnce'
  <2>1. w \notin Posted
    BY <1>1 DEF Posted
  <2>2. \A x \in buffered' \cap Posted' : x = w \/ x \in buffered \cap Posted
    BY <1>1, <1>3
  <2>3. w \in Posted' => w \in delivered'
    BY <1>1, <1>3, <2>1
  <2>4. \A x \in buffered' \cap Posted' : fate'[x] \in {"new", "pending", "done"} =>
          Watched(x)'
    BY <1>1, <1>4, <2>2, <2>3 DEF ToldOnce, Watched
  <2> QED BY <1>1, <1>3, <1>4, <2>4 DEF ToldOnce
<1> QED BY <1>2, <1>5, <1>6

(* A wake is queued and marked as reported.                                *)
LEMMA WakePromptBooks ==
  ASSUME Balance, WakeBooks, NEW w \in Wake, WakePrompt(w)
  PROVE  WakeBooks'
<1> USE DEF WakeBooks
<1>1. /\ task[w] = "posted" /\ Prompt(w, FALSE) /\ reported' = reported \cup {w}
      /\ UNCHANGED <<task, delivered, buffered, requests, pass, told, read, cut, slipped>>
  BY DEF WakePrompt
<1>2. PassOwned' /\ Queried' /\ TurnAlone'
  BY <1>1, StayingOwned, SortFacts DEF Staying
<1>3. Posted' = Posted /\ Finished' = Finished /\ Spent' = Spent /\ w \in Posted
  BY <1>1 DEF Posted, Finished, Spent
<1>4. WakeTypes' /\ Marked'
  BY <1>1, <1>3 DEF WakeTypes, Marked, Spent
<1>5. fate[w] = "new"
  BY <1>1 DEF Prompt
<1>6. \A x \in Wake :
        /\ fate'[x] \in {"pending", "done"} => x = w \/ fate[x] \in {"pending", "done"}
        /\ fate'[x] \in {"new", "pending", "done"} => fate[x] \in {"new", "pending", "done"}
  BY <1>1, <1>5, PromptFates, SortFacts DEF FateKept
<1>7. ToldOnce'
  <2>1. buffered \subseteq Wake
    BY DEF WakeTypes, Subagent
  <2>2. \A x \in buffered' \cap Posted' :
          fate'[x] \in {"new", "pending", "done"} => Watched(x)'
    BY <1>1, <1>3, <1>6, <2>1 DEF ToldOnce, Watched
  <2>3. \A x \in Wake : fate'[x] \in {"pending", "done"} => x \in Posted' \cap reported'
    BY <1>1, <1>3, <1>6 DEF ToldOnce
  <2>4. /\ (told \cup pass.taken) \cap Bash \subseteq reported
        /\ told \cup pass.taken \cup buffered \subseteq Finished
        /\ (told \cup pass.taken) \cap buffered = {}
    BY DEF ToldOnce
  <2> QED BY <1>1, <1>3, <2>2, <2>3, <2>4 DEF ToldOnce
<1> QED BY <1>2, <1>4, <1>7

(* The marks of wakes that leave the queue unrun go: what else is as it    *)
(* was, or has not become a wake.                                          *)
LEMMA UnmarkBooks ==
  ASSUME Balance, WakeBooks, Staying, NEW gone,
         delivered' = delivered \ gone,
         UNCHANGED <<task, reported, buffered, requests, pass, told, read, cut, slipped>>,
         \A w \in Wake : FateKept(w),
         \A w \in gone \cap Wake : fate'[w] \notin {"new", "pending", "done"}
  PROVE  WakeBooks'
<1> USE DEF WakeBooks
<1>1. PassOwned' /\ Queried' /\ TurnAlone'
  BY StayingOwned
<1>2. Posted' = Posted /\ Finished' = Finished /\ Spent' = Spent
  BY DEF Posted, Finished, Spent
<1>3. WakeTypes' /\ Marked'
  BY <1>2 DEF WakeTypes, Marked, Spent
<1>4. \A x \in Wake :
        /\ fate'[x] \in {"pending", "done"} => fate[x] \in {"pending", "done"}
        /\ fate'[x] \in {"new", "pending", "done"} => fate[x] \in {"new", "pending", "done"}
  BY DEF FateKept
<1>5. ToldOnce'
  <2>1. buffered \subseteq Wake
    BY DEF WakeTypes, Subagent
  <2>2. \A x \in buffered' \cap Posted' :
          fate'[x] \in {"new", "pending", "done"} => Watched(x)'
    BY <1>2, <1>4, <2>1 DEF ToldOnce, Watched
  <2>3. \A x \in Wake : fate'[x] \in {"pending", "done"} => x \in Posted' \cap reported'
    BY <1>2, <1>4 DEF ToldOnce
  <2>4. /\ (told \cup pass.taken) \cap Bash \subseteq reported
        /\ told \cup pass.taken \cup buffered \subseteq Finished
        /\ (told \cup pass.taken) \cap buffered = {}
    BY DEF ToldOnce
  <2> QED BY <1>2, <2>2, <2>3, <2>4 DEF ToldOnce
<1> QED BY <1>1, <1>3, <1>5

LEMMA UserPromptBooks ==
  ASSUME Balance, WakeBooks, NEW c \in Client, NEW asked \in BOOLEAN, UserPrompt(c, asked)
  PROVE  WakeBooks'
<1> DEFINE gone == ToSet(queue) \ ToSet(queue')
<1>1. /\ Prompt(c, asked) /\ QueueInput(c, asked) /\ delivered' = delivered \ gone
      /\ pc = "select" /\ fate[c] = "new" /\ c \in Prompts
      /\ UNCHANGED <<task, reported, buffered, requests, pass, told, read, cut, slipped>>
  BY SortFacts DEF UserPrompt, Prompt, Ready
<1>2. Staying /\ c \notin Wake
  <2>1. Client \cap Wake = {}
    BY SortsDisjoint
  <2> QED BY <1>1, <2>1 DEF Staying
<1>3. \A w \in Wake : FateKept(w)
  BY <1>1, <1>2, PromptFates
<1>4. ToSet(Remaining(c)) \subseteq ToSet(queue')
  <2>1. queue \in Seq(Prompts) /\ Remaining(c) \in Seq(Prompts)
    BY SweepSafe DEF Remaining, Balance, IInv, TypeOK, Seen
  <2>2. PICK rest \in Seq(Prompts) : rest = Remaining(c)
    BY <2>1
  <2>3. \/ queue' = InsertSendNow(rest, running, marked, c)
        \/ queue' = Append(rest, c)
    BY <1>1, <2>2 DEF QueueInput
  <2>4. ToSet(queue') = ToSet(rest) \cup {c}
    <3>1. ToSet(InsertSendNow(rest, running, marked, c)) = ToSet(rest) \cup {c}
      BY <1>1, InsertSendNowContents
    <3>2. ToSet(Append(rest, c)) = ToSet(rest) \cup {c}
      BY <1>1, AppendContents
    <3> QED BY <2>3, <3>1, <3>2
  <2> QED BY <2>2, <2>4
<1>5. \A w \in gone \cap Wake : fate'[w] \notin {"new", "pending", "done"}
  <2>1. \A w \in gone \cap Wake : w \in ToSet(queue) \ ToSet(Remaining(c)) /\ w # c
    BY <1>2, <1>4
  <2>2. \A w \in gone \cap Wake : fate'[w] \in {"dropped", "discarded"}
    BY <1>1, <2>1, SortFacts DEF QueueInput, Settle
  <2> QED BY <2>2
<1> HIDE DEF gone
<1> QED BY <1>1, <1>2, <1>3, <1>5, UnmarkBooks

LEMMA CancelUnmarkBooks ==
  ASSUME Balance, WakeBooks, CancelUnmark
  PROVE  WakeBooks'
<1> DEFINE gone == IF cancel.rewound THEN {} ELSE ToSet(cancel.resolved)
<1>1. /\ CancelFinish /\ delivered' = delivered \ gone
      /\ UNCHANGED <<task, reported, buffered, requests, pass, told, read, cut, slipped>>
  BY DEF CancelUnmark
<1>2. Staying /\ \A w \in Wake : FateKept(w)
  BY <1>1, RestingFates DEF Staying, Resting
<1>3. \A w \in gone \cap Wake : fate'[w] \notin {"new", "pending", "done"}
  BY <1>1, SortFacts DEF CancelFinish, Settle
<1> HIDE DEF gone
<1> QED BY <1>1, <1>2, <1>3, UnmarkBooks

(* One turn is in a pass at a time: no other one can begin meanwhile.      *)
LEMMA PassAlone ==
  ASSUME Balance, PassOwned, TurnAlone, NEW p \in live \ begun
  PROVE  pass = NoPass
<1>1. /\ live \subseteq {running, cancel.task} /\ p # NoPrompt
      /\ cancel.task # NoPrompt => pc \in {"cancelGate", "cancelAbort", "cancelFinish"}
  BY SortFacts, NoCancelFacts
     DEF Balance, IInv, TypeOK, Ledger, SpawnedOnce, CancelSound, Cancelling
<1>2. live \subseteq {p, NoPrompt}
  BY <1>1 DEF TurnAlone
<1> QED BY <1>2 DEF PassOwned

(* A turn begins with an empty pass.                                       *)
LEMMA OpenTurnBooks ==
  ASSUME Balance, WakeBooks, NEW p \in Prompts, OpenTurn(p)
  PROVE  WakeBooks'
<1> USE DEF WakeBooks
<1>1. /\ p \in live \ begun /\ begun' = begun \cup {p}
      /\ pass' = [NoPass EXCEPT !.turn = p, !.stage = "open"]
      /\ UNCHANGED <<pc, running, live, aborted, spawned, fate>>
      /\ UNCHANGED <<task, delivered, reported, buffered, requests, told, read, cut, slipped>>
  BY DEF OpenTurn, TurnBegin, loopVars
<1>2. pass = NoPass /\ p # NoPrompt
  BY <1>1, PassAlone, SortFacts
<1>3. /\ Posted' = Posted /\ Finished' = Finished /\ Spent' = Spent
      /\ pass'.taken = pass.taken /\ pass'.suppress = pass.suppress
      /\ pass'.turn = p /\ pass'.stage = "open" /\ pass'.read = {}
      /\ pass.taken = {} /\ pass.suppress = {}
  BY <1>1, <1>2 DEF Posted, Finished, Spent, NoPass
<1>4. PassOwned' /\ TurnAlone'
  BY <1>1, <1>2, <1>3 DEF PassOwned, TurnAlone
<1>5. Queried'
  BY <1>1, <1>3 DEF Queried
<1>6. WakeTypes'
  BY <1>1, <1>3, SortFacts DEF WakeTypes, NoPass, Stages
<1>7. Marked' /\ ToldOnce'
  BY <1>1, <1>3 DEF Marked, ToldOnce, Watched
<1> QED BY <1>4, <1>5, <1>6, <1>7

(* A turn ends outside a pass.                                             *)
LEMMA CloseTurnBooks ==
  ASSUME Balance, WakeBooks, NEW p \in Prompts, CloseTurn(p)
  PROVE  WakeBooks'
<1> USE DEF WakeBooks
<1>1. /\ pass.turn = p /\ pass.stage = "none" /\ pass' = NoPass
      /\ live' = live \ {p} /\ begun' = begun \ {p}
      /\ UNCHANGED <<pc, running, aborted, spawned, fate>>
      /\ UNCHANGED <<task, delivered, reported, buffered, requests, told, read, cut, slipped>>
  BY DEF CloseTurn, TurnEnd, Stage, loopVars
<1>2. /\ Posted' = Posted /\ Finished' = Finished /\ Spent' = Spent
      /\ pass'.taken = {} /\ pass'.suppress = {} /\ pass'.turn = NoPrompt
      /\ pass'.stage = "none" /\ pass.taken = {} /\ pass.suppress = {}
  BY <1>1 DEF Posted, Finished, Spent, NoPass, PassOwned
<1>3. PassOwned' /\ TurnAlone'
  BY <1>1, <1>2 DEF PassOwned, TurnAlone
<1>4. Queried'
  <2>1. NoPrompt \notin spawned
    BY SortFacts DEF Balance, IInv, TypeOK
  <2> QED BY <1>1, <1>2, <2>1 DEF Queried
<1>5. WakeTypes'
  BY <1>1, SortFacts DEF WakeTypes, NoPass, Stages
<1>6. Marked' /\ ToldOnce'
  BY <1>1, <1>2 DEF Marked, ToldOnce, Watched
<1> QED BY <1>3, <1>4, <1>5, <1>6

(* An abort drops the pass of the turn it aborts, if it is in one.         *)
LEMMA AbortBooks ==
  ASSUME Balance, WakeBooks, Abort
  PROVE  WakeBooks'
<1> USE DEF WakeBooks
<1>1. /\ live' \subseteq live /\ aborted' \subseteq aborted \cup (live \ live')
      /\ UNCHANGED <<begun, spawned>>
  BY DEF Abort, CancelLock, CancelAbort, Aborted
<1>2. TurnAlone'
  <2>1. live \subseteq spawned
    BY DEF Balance, Ledger, SpawnedOnce
  <2>2. running' = NoPrompt
    BY DEF Abort, CancelLock, CancelAbort, TurnAlone
  <2> QED BY <1>1, <2>1, <2>2 DEF TurnAlone
<1>3. \A w \in Wake :
        /\ fate'[w] \in {"pending", "done"} => fate[w] \in {"pending", "done"}
        /\ fate'[w] \in {"new", "pending", "done"} => fate[w] \in {"new", "pending", "done"}
  BY SortFacts DEF Abort, CancelLock, CancelAbort, Settle
<1>4. UNCHANGED <<task, delivered, reported, buffered, requests, told, read>>
  BY DEF Abort
<1>5. /\ Posted' = Posted /\ Finished' = Finished
      /\ \/ /\ pass' = pass /\ cut' = cut /\ slipped' = slipped
            /\ pass.turn \notin live \ live'
         \/ /\ pass' = NoPass /\ cut' = cut \cup pass.taken
            /\ slipped' = slipped \cup (pass.suppress \cap buffered)
  BY <1>4 DEF Abort, Posted, Finished
<1>6. /\ NoPass.turn = NoPrompt /\ NoPass.taken = {} /\ NoPass.suppress = {}
      /\ NoPass.stage = "none" /\ NoPrompt \notin spawned
  BY SortFacts DEF NoPass, Balance, IInv, TypeOK
<1>7. PassOwned'
  BY <1>1, <1>5, <1>6 DEF PassOwned
<1>8. Queried'
  BY <1>1, <1>4, <1>5, <1>6 DEF Queried
<1>9. WakeTypes'
  <2>1. NoPass \in [turn : Maybe, stage : Stages, read : SUBSET Wake,
                    suppress : SUBSET Wake, taken : SUBSET Wake]
    BY SortFacts DEF NoPass, Stages
  <2>2. buffered \subseteq Wake
    BY DEF WakeTypes, Subagent
  <2> QED BY <1>4, <1>5, <2>1, <2>2 DEF WakeTypes
<1>10. Spent \cup pass.taken \subseteq Spent' \cup pass'.taken /\ Spent \subseteq Spent'
  BY <1>4, <1>5 DEF Spent
<1>11. Marked'
  BY <1>4, <1>5, <1>6, <1>10 DEF Marked
<1>12. ToldOnce'
  <2>1. buffered \subseteq Wake /\ pass'.taken \subseteq pass.taken
    BY <1>5, <1>6 DEF WakeTypes, Subagent
  <2>2. \A w \in buffered' \cap Posted' :
          fate'[w] \in {"new", "pending", "done"} => Watched(w)'
    BY <1>3, <1>4, <1>5, <2>1 DEF ToldOnce, Watched
  <2>3. \A w \in Wake : fate'[w] \in {"pending", "done"} => w \in Posted' \cap reported'
    BY <1>3, <1>4, <1>5 DEF ToldOnce
  <2>4. /\ (told \cup pass.taken) \cap Bash \subseteq reported
        /\ told \cup pass.taken \cup buffered \subseteq Finished
        /\ (told \cup pass.taken) \cap buffered = {}
    BY DEF ToldOnce
  <2> QED BY <1>4, <1>5, <2>1, <2>2, <2>3, <2>4 DEF ToldOnce
<1> QED BY <1>2, <1>7, <1>8, <1>9, <1>11, <1>12

(* What a step that leaves the session alone leaves alone.                 *)
LEMMA StillSession ==
  ASSUME UNCHANGED vars
  PROVE  UNCHANGED <<pc, running, live, begun, aborted, spawned, fate>>
BY DEF vars, loopVars, turnVars

(* The start of a turn finds the commands that nobody has reported.        *)
LEMMA OpenTasksBooks ==
  ASSUME Balance, WakeBooks, NEW p \in Prompts, OpenTasks(p)
  PROVE  WakeBooks'
<1> DEFINE fresh == (Finished \cap Bash) \ reported
<1> USE DEF WakeBooks
<1>1. /\ pass.turn = p /\ pass.stage = "open" /\ reported' = reported \cup fresh
      /\ pass' = [pass EXCEPT !.stage = "openAsk", !.taken = fresh]
      /\ UNCHANGED <<vars, task, delivered, buffered, requests, told, read, cut, slipped>>
  BY DEF OpenTasks, Stage
<1>2. /\ pass'.turn = p /\ pass'.stage = "openAsk" /\ pass'.taken = fresh
      /\ pass'.suppress = {} /\ pass.suppress = {} /\ pass.taken = {}
      /\ UNCHANGED <<pc, running, live, begun, aborted, spawned, fate>>
  BY <1>1, StillSession DEF WakeTypes, PassOwned
<1>3. /\ Posted' = Posted /\ Finished' = Finished /\ Spent' = Spent
      /\ fresh \subseteq Finished \cap Bash /\ fresh \cap buffered = {}
      /\ fresh \cap Subagent = {}
  BY <1>1 DEF Posted, Finished, Spent, WakeTypes, Subagent
<1>4. WakeTypes'
  BY <1>1, <1>3, BashAssumption DEF WakeTypes, Stages
<1> HIDE DEF fresh
<1>5. PassOwned' /\ TurnAlone' /\ Queried'
  BY <1>1, <1>2, SortFacts DEF PassOwned, TurnAlone, Queried, Asking
<1>6. Marked'
  BY <1>1, <1>2, <1>3 DEF Marked
<1>7. ToldOnce'
  BY <1>1, <1>2, <1>3 DEF ToldOnce, Watched
<1> QED BY <1>4, <1>5, <1>6, <1>7

(* A request joins the coordinator's.                                      *)
LEMMA RequestAppended ==
  ASSUME requests \in Seq(Request), NEW r \in Request, requests' = Append(requests, r)
  PROVE  /\ requests' \in Seq(Request) /\ Len(requests') = Len(requests) + 1
         /\ \A k \in DOMAIN requests : k \in DOMAIN requests' /\ requests'[k] = requests[k]
         /\ \A k \in DOMAIN requests' :
              k \in DOMAIN requests \/ (k = Len(requests') /\ requests'[k] = r)
OBVIOUS

(* The turn in the pass asks for the subagents.                            *)
LEMMA AskQueried ==
  ASSUME Balance, WakeBooks, NEW r \in Request, requests' = Append(requests, r),
         UNCHANGED <<live, begun, spawned>>, r.turn = pass.turn, pass.stage \notin Asking,
         pass.turn # NoPrompt, pass'.turn = pass.turn, pass'.stage \in Asking
  PROVE  Queried'
<1>1. r.turn \in spawned \ (live \ begun)
  BY DEF WakeBooks, PassOwned, Balance, Ledger, SpawnedOnce
<1>2. \A k \in DOMAIN requests : requests[k].turn # pass.turn
  BY DEF WakeBooks, Queried
<1>3. /\ \A k \in DOMAIN requests : requests'[k] = requests[k]
      /\ \A k \in DOMAIN requests' :
           k \in DOMAIN requests \/ (k = Len(requests') /\ requests'[k] = r)
  BY RequestAppended DEF WakeBooks, WakeTypes
<1> QED BY <1>1, <1>2, <1>3 DEF WakeBooks, Queried

LEMMA OpenAskBooks ==
  ASSUME Balance, WakeBooks, NEW p \in Prompts, OpenAsk(p)
  PROVE  WakeBooks'
<1> USE DEF WakeBooks
<1>1. PICK r : /\ r = [turn |-> p, suppress |-> delivered]
               /\ requests' = Append(requests, r)
  BY DEF OpenAsk
<1>2. /\ pass.turn = p /\ pass.stage = "openAsk" /\ told' = told \cup pass.taken
      /\ pass' = [pass EXCEPT !.stage = "openWait", !.taken = {}]
      /\ UNCHANGED <<vars, task, delivered, reported, buffered, read, cut, slipped>>
  BY DEF OpenAsk, Stage
<1>3. /\ pass'.turn = p /\ pass'.stage = "openWait" /\ pass'.taken = {}
      /\ pass'.suppress = {} /\ pass.suppress = {} /\ p # NoPrompt
      /\ UNCHANGED <<pc, running, live, begun, aborted, spawned, fate>>
  BY <1>2, StillSession, SortFacts DEF WakeTypes, PassOwned
<1>4. /\ Posted' = Posted /\ Finished' = Finished /\ Spent' = Spent \cup pass.taken
  BY <1>2 DEF Posted, Finished, Spent
<1>5. /\ r \in Request /\ r.suppress = delivered /\ r.turn = p
  BY <1>1 DEF Request, WakeTypes
<1>6. /\ requests' \in Seq(Request)
      /\ \A k \in DOMAIN requests : k \in DOMAIN requests' /\ requests'[k] = requests[k]
      /\ \A k \in DOMAIN requests' : k \in DOMAIN requests \/ requests'[k] = r
  BY <1>1, <1>5, RequestAppended DEF WakeTypes
<1>7. WakeTypes'
  BY <1>2, <1>6 DEF WakeTypes, Stages
<1>8. Queried'
  BY <1>1, <1>2, <1>3, <1>5, AskQueried DEF Asking
<1>9. PassOwned' /\ TurnAlone'
  BY <1>2, <1>3 DEF PassOwned, TurnAlone
<1>10. Marked'
  BY <1>2, <1>3, <1>4, <1>5, <1>6 DEF Marked
<1>11. ToldOnce'
  <2>1. \A w : Watched(w) => Watched(w)'
    BY <1>2, <1>3, <1>6 DEF Watched
  <2> QED BY <1>2, <1>3, <1>4, <2>1 DEF ToldOnce
<1> QED BY <1>7, <1>8, <1>9, <1>10, <1>11

(* What the coordinator handed over is told, and the turn goes on.         *)
LEMMA OpenTellBooks ==
  ASSUME Balance, WakeBooks, NEW p \in Prompts, OpenTell(p)
  PROVE  WakeBooks'
<1> USE DEF WakeBooks
<1>1. /\ pass.turn = p /\ pass.stage = "openTell" /\ told' = told \cup pass.taken
      /\ pass' = [NoPass EXCEPT !.turn = p]
      /\ UNCHANGED <<vars, task, delivered, reported, buffered, requests, read, cut, slipped>>
  BY DEF OpenTell, Stage
<1>2. /\ pass'.turn = p /\ pass'.stage = "none" /\ pass'.taken = {}
      /\ pass'.suppress = {} /\ pass.suppress = {} /\ p # NoPrompt
      /\ UNCHANGED <<pc, running, live, begun, aborted, spawned, fate>>
  BY <1>1, StillSession, SortFacts DEF NoPass, PassOwned
<1>3. /\ Posted' = Posted /\ Finished' = Finished /\ Spent' = Spent \cup pass.taken
  BY <1>1 DEF Posted, Finished, Spent
<1>4. WakeTypes'
  BY <1>1, SortFacts DEF WakeTypes, NoPass, Stages
<1>5. PassOwned' /\ TurnAlone' /\ Queried'
  BY <1>1, <1>2 DEF PassOwned, TurnAlone, Queried, Asking
<1>6. Marked'
  BY <1>1, <1>2, <1>3 DEF Marked
<1>7. ToldOnce'
  BY <1>1, <1>2, <1>3 DEF ToldOnce, Watched
<1> QED BY <1>4, <1>5, <1>6, <1>7

(* A reminder pass takes over the marks.                                   *)
LEMMA PassDrainBooks ==
  ASSUME Balance, WakeBooks, NEW p \in Prompts, NEW R, PassDrain(p, R)
  PROVE  WakeBooks'
<1> USE DEF WakeBooks
<1>1. /\ pass.turn = p /\ pass.stage = "none" /\ R \subseteq Finished /\ delivered' = {}
      /\ read' = read \cup R
      /\ pass' = [pass EXCEPT !.stage = "tasks", !.read = R, !.suppress = R \cup delivered]
      /\ UNCHANGED <<vars, task, reported, buffered, requests, told, cut, slipped>>
  BY DEF PassDrain, Stage
<1>2. /\ pass'.turn = p /\ pass'.stage = "tasks" /\ pass'.taken = {} /\ pass.taken = {}
      /\ pass'.suppress = R \cup delivered /\ pass.suppress = {} /\ p # NoPrompt
      /\ UNCHANGED <<pc, running, live, begun, aborted, spawned, fate>>
  BY <1>1, StillSession, SortFacts DEF WakeTypes, PassOwned
<1>3. /\ Posted' = Posted /\ Finished' = Finished /\ Spent' = Spent \cup R
      /\ R \subseteq Wake
  BY <1>1 DEF Posted, Finished, Spent
<1>4. WakeTypes'
  BY <1>1, <1>3 DEF WakeTypes, Stages
<1>5. PassOwned' /\ TurnAlone' /\ Queried'
  BY <1>1, <1>2 DEF PassOwned, TurnAlone, Queried, Asking
<1>6. Marked'
  BY <1>1, <1>2, <1>3 DEF Marked
<1>7. ToldOnce'
  <2>1. \A w : Watched(w) => Watched(w)'
    BY <1>1, <1>2 DEF Watched
  <2> QED BY <1>1, <1>2, <1>3, <2>1 DEF ToldOnce
<1> QED BY <1>4, <1>5, <1>6, <1>7

(* The pass finds the commands that nobody has reported or marked.         *)
LEMMA PassTasksBooks ==
  ASSUME Balance, WakeBooks, NEW p \in Prompts, PassTasks(p)
  PROVE  WakeBooks'
<1> DEFINE fresh == (Finished \cap Bash) \ (reported \cup pass.suppress)
<1> USE DEF WakeBooks
<1>1. /\ pass.turn = p /\ pass.stage = "tasks"
      /\ reported' = reported \cup pass.suppress \cup fresh
      /\ pass' = [pass EXCEPT !.stage = "ask", !.taken = fresh]
      /\ UNCHANGED <<vars, task, delivered, buffered, requests, told, read, cut, slipped>>
  BY DEF PassTasks, Stage
<1>2. /\ pass'.turn = p /\ pass'.stage = "ask" /\ pass'.taken = fresh
      /\ pass'.suppress = pass.suppress /\ pass.taken = {} /\ p # NoPrompt
      /\ pass.suppress \subseteq Wake
      /\ UNCHANGED <<pc, running, live, begun, aborted, spawned, fate>>
  BY <1>1, StillSession, SortFacts DEF WakeTypes, PassOwned
<1>3. /\ Posted' = Posted /\ Finished' = Finished /\ Spent' = Spent
      /\ fresh \subseteq Finished \cap Bash /\ fresh \cap buffered = {}
      /\ fresh \cap Subagent = {} /\ pass.suppress \subseteq Spent
  BY <1>1 DEF Posted, Finished, Spent, WakeTypes, Subagent, Marked
<1>4. WakeTypes'
  BY <1>1, <1>2, <1>3, BashAssumption DEF WakeTypes, Stages
<1> HIDE DEF fresh
<1>5. PassOwned' /\ TurnAlone' /\ Queried'
  BY <1>1, <1>2 DEF PassOwned, TurnAlone, Queried, Asking
<1>6. Marked'
  BY <1>1, <1>2, <1>3 DEF Marked
<1>7. ToldOnce'
  BY <1>1, <1>2, <1>3 DEF ToldOnce, Watched
<1> QED BY <1>4, <1>5, <1>6, <1>7

LEMMA PassAskBooks ==
  ASSUME Balance, WakeBooks, NEW p \in Prompts, PassAsk(p)
  PROVE  WakeBooks'
<1> USE DEF WakeBooks
<1>1. PICK r : /\ r = [turn |-> p, suppress |-> pass.suppress]
               /\ requests' = Append(requests, r)
  BY DEF PassAsk
<1>2. /\ pass.turn = p /\ pass.stage = "ask"
      /\ pass' = [pass EXCEPT !.stage = "wait", !.suppress = {}]
      /\ UNCHANGED <<vars, task, delivered, reported, buffered, told, read, cut, slipped>>
  BY DEF PassAsk, Stage
<1>3. /\ pass'.turn = p /\ pass'.stage = "wait" /\ pass'.taken = pass.taken
      /\ pass'.suppress = {} /\ p # NoPrompt
      /\ UNCHANGED <<pc, running, live, begun, aborted, spawned, fate>>
  BY <1>2, StillSession, SortFacts DEF WakeTypes, PassOwned
<1>4. /\ Posted' = Posted /\ Finished' = Finished /\ Spent' = Spent
  BY <1>2 DEF Posted, Finished, Spent
<1>5. /\ r \in Request /\ r.suppress = pass.suppress /\ r.turn = p
  BY <1>1 DEF Request, WakeTypes
<1>6. /\ requests' \in Seq(Request)
      /\ \A k \in DOMAIN requests : k \in DOMAIN requests' /\ requests'[k] = requests[k]
      /\ \A k \in DOMAIN requests' : k \in DOMAIN requests \/ requests'[k] = r
      /\ \E k \in DOMAIN requests' : requests'[k] = r
  BY <1>1, <1>5, RequestAppended DEF WakeTypes
<1>7. WakeTypes'
  BY <1>2, <1>6 DEF WakeTypes, Stages
<1>8. Queried'
  BY <1>1, <1>2, <1>3, <1>5, AskQueried DEF Asking
<1>9. PassOwned' /\ TurnAlone'
  BY <1>2, <1>3 DEF PassOwned, TurnAlone
<1>10. Marked'
  BY <1>2, <1>3, <1>4, <1>5, <1>6 DEF Marked
<1>11. ToldOnce'
  <2>1. \A w : Watched(w) => Watched(w)'
    BY <1>2, <1>3, <1>5, <1>6 DEF Watched
  <2> QED BY <1>2, <1>3, <1>4, <2>1 DEF ToldOnce
<1> QED BY <1>7, <1>8, <1>9, <1>10, <1>11

(* The pass tells what it holds and reports it.                            *)
LEMMA PassTellBooks ==
  ASSUME Balance, WakeBooks, NEW p \in Prompts, PassTell(p)
  PROVE  WakeBooks'
<1> USE DEF WakeBooks
<1>1. /\ pass.turn = p /\ pass.stage = "tell"
      /\ told' = told \cup (pass.taken \ (Subagent \cap reported))
      /\ reported' = reported \cup pass.taken
      /\ pass' \in {[NoPass EXCEPT !.turn = p],
                    [pass EXCEPT !.stage = "sweep", !.taken = {}]}
      /\ UNCHANGED <<vars, task, delivered, buffered, requests, read, cut, slipped>>
  BY DEF PassTell, Stage
<1>2. /\ pass'.turn = p /\ pass'.stage \in {"none", "sweep"} /\ pass'.taken = {}
      /\ pass'.suppress = {} /\ pass.suppress = {} /\ p # NoPrompt
      /\ pass.taken \subseteq Wake
      /\ UNCHANGED <<pc, running, live, begun, aborted, spawned, fate>>
  BY <1>1, StillSession, SortFacts DEF WakeTypes, NoPass, PassOwned
<1>3. /\ Posted' = Posted /\ Finished' = Finished
      /\ Spent \cup (pass.taken \ (Subagent \cap reported)) = Spent'
  BY <1>1 DEF Posted, Finished, Spent
<1>4. Spent \cup pass.taken \subseteq Spent'
  BY <1>3 DEF Marked
<1>5. WakeTypes'
  BY <1>1, <1>2, SortFacts DEF WakeTypes, NoPass, Stages
<1>6. PassOwned' /\ TurnAlone' /\ Queried'
  BY <1>1, <1>2 DEF PassOwned, TurnAlone, Queried, Asking
<1>7. Marked'
  BY <1>1, <1>2, <1>3, <1>4 DEF Marked
<1>8. ToldOnce'
  BY <1>1, <1>2, <1>3 DEF ToldOnce, Watched
<1> QED BY <1>5, <1>6, <1>7, <1>8

(* The rows of what a tool result told are swept from the queue.           *)
LEMMA SweepsBooks ==
  ASSUME Balance, WakeBooks, NEW p \in Prompts, Sweeps(p)
  PROVE  WakeBooks'
<1> USE DEF WakeBooks
<1>1. /\ pass.turn = p /\ pass.stage = "sweep" /\ pass' = [NoPass EXCEPT !.turn = p]
      /\ Resting
      /\ UNCHANGED <<task, delivered, reported, buffered, requests, told, read, cut, slipped>>
  BY DEF Sweeps, Stage, Resting, TurnConsume
<1>2. /\ pass'.turn = p /\ pass'.stage = "none" /\ pass'.taken = {} /\ pass.taken = {}
      /\ pass'.suppress = {} /\ pass.suppress = {} /\ p # NoPrompt
  BY <1>1, SortFacts DEF NoPass, PassOwned
<1>3. TurnsKept /\ TurnAlone'
  BY <1>1, StayingKeeps DEF Staying
<1>4. Posted' = Posted /\ Finished' = Finished /\ Spent' = Spent
  BY <1>1 DEF Posted, Finished, Spent
<1>5. \A w \in Wake :
        /\ fate'[w] \in {"pending", "done"} => fate[w] \in {"pending", "done"}
        /\ fate'[w] \in {"new", "pending", "done"} => fate[w] \in {"new", "pending", "done"}
  BY <1>1, RestingFates DEF FateKept
<1>6. WakeTypes'
  BY <1>1, SortFacts DEF WakeTypes, NoPass, Stages
<1>7. PassOwned'
  BY <1>1, <1>2, <1>3 DEF PassOwned, TurnsKept
<1>8. Queried'
  BY <1>1, <1>2, <1>3 DEF Queried, Asking, TurnsKept
<1>9. Marked'
  BY <1>1, <1>2, <1>4 DEF Marked
<1>10. ToldOnce'
  <2>1. buffered \subseteq Wake
    BY DEF WakeTypes, Subagent
  <2>2. \A w \in buffered' \cap Posted' :
          fate'[w] \in {"new", "pending", "done"} => Watched(w)'
    BY <1>1, <1>2, <1>4, <1>5, <2>1 DEF ToldOnce, Watched
  <2>3. \A w \in Wake : fate'[w] \in {"pending", "done"} => w \in Posted' \cap reported'
    BY <1>1, <1>4, <1>5 DEF ToldOnce
  <2>4. /\ (told \cup pass.taken) \cap Bash \subseteq reported
        /\ told \cup pass.taken \cup buffered \subseteq Finished
        /\ (told \cup pass.taken) \cap buffered = {}
    BY DEF ToldOnce
  <2> QED BY <1>1, <1>2, <1>4, <2>2, <2>3, <2>4 DEF ToldOnce
<1> QED BY <1>3, <1>6, <1>7, <1>8, <1>9, <1>10

(* The request served first leaves the coordinator's queue.                *)
LEMMA RequestServed ==
  ASSUME requests \in Seq(Request), requests # <<>>, requests' = Tail(requests)
  PROVE  /\ requests' \in Seq(Request) /\ Len(requests') = Len(requests) - 1
         /\ 1 \in DOMAIN requests /\ Head(requests) = requests[1]
         /\ Head(requests) \in Request /\ Len(requests) \in Nat
         /\ \A k \in DOMAIN requests' :
              k + 1 \in DOMAIN requests /\ requests'[k] = requests[k + 1] /\ k \in Nat
OBVIOUS

(* The coordinator hands over its buffer: to the pass that waits for it,   *)
(* whose request is then the last, or to a turn that is gone.              *)
LEMMA ServeBooks ==
  ASSUME Balance, WakeBooks, Serve
  PROVE  WakeBooks'
<1> USE DEF WakeBooks
<1> DEFINE r     == Head(requests)
           found == buffered \ r.suppress
           heard == pass.turn = r.turn /\ pass.stage \in Asking
<1>1. /\ requests # <<>> /\ requests' = Tail(requests) /\ buffered' = {}
      /\ pass' = IF heard THEN [pass EXCEPT !.stage = Answered[pass.stage],
                                            !.taken = @ \cup found]
                 ELSE pass
      /\ cut' = IF heard THEN cut ELSE cut \cup found
      /\ slipped' = slipped \cup (found \cap delivered)
      /\ UNCHANGED <<vars, task, delivered, reported, told, read>>
  BY DEF Serve, Answered, Asking
<1>2. /\ requests' \in Seq(Request) /\ Len(requests') = Len(requests) - 1
      /\ r = requests[1] /\ r \in Request /\ 1 \in DOMAIN requests /\ Len(requests) \in Nat
      /\ \A k \in DOMAIN requests' :
           k + 1 \in DOMAIN requests /\ requests'[k] = requests[k + 1] /\ k \in Nat
  BY <1>1, RequestServed DEF WakeTypes
<1>3. /\ found \subseteq buffered /\ buffered \subseteq Subagent
      /\ buffered \ r.suppress = found /\ r.suppress \subseteq Spent
      /\ Subagent \subseteq Wake
  BY <1>2 DEF Subagent, Marked, WakeTypes, Spent
<1> HIDE DEF r, found
<1>4. /\ pass'.turn = pass.turn /\ pass'.suppress = pass.suppress
      /\ heard => /\ pass'.stage \in {"openTell", "tell"} /\ pass'.taken = pass.taken \cup found
                  /\ pass.turn = r.turn /\ pass.stage \in Asking
      /\ ~heard => pass' = pass
  BY <1>1 DEF WakeTypes, Answered, Asking
<1>5. UNCHANGED <<pc, running, live, begun, aborted, spawned, fate>>
  BY <1>1, StillSession
<1>6. /\ Posted' = Posted /\ Finished' = Finished /\ Spent \subseteq Spent'
      /\ Spent \cup pass.taken \cup found \subseteq Spent' \cup pass'.taken
  BY <1>1, <1>4 DEF Posted, Finished, Spent
<1>7. WakeTypes'
  <2>1. /\ requests' \in Seq(Request) /\ buffered' \subseteq Subagent
        /\ cut' \subseteq Wake /\ slipped' \subseteq Wake
    BY <1>1, <1>2, <1>3 DEF WakeTypes
  <2>2. pass' \in [turn : Maybe, stage : Stages, read : SUBSET Wake,
                   suppress : SUBSET Wake, taken : SUBSET Wake]
    <3>1. CASE ~heard
      BY <1>1, <3>1 DEF WakeTypes
    <3>2. CASE heard
      <4>1. PICK stage, taken : /\ stage = Answered[pass.stage] /\ taken = pass.taken \cup found
                                /\ pass' = [pass EXCEPT !.stage = stage, !.taken = taken]
        BY <1>1, <3>2
      <4>2. stage \in Stages
        BY <3>2, <4>1 DEF Answered, Asking, Stages
      <4>3. taken \in SUBSET Wake
        BY <1>3, <4>1 DEF WakeTypes
      <4> QED BY <4>1, <4>2, <4>3 DEF WakeTypes
    <3> QED BY <3>1, <3>2
  <2> QED BY <1>1, <2>1, <2>2 DEF WakeTypes
<1>8. PassOwned' /\ TurnAlone'
  <2>1. TurnAlone'
    BY <1>5 DEF TurnAlone
  <2>2. CASE ~heard
    BY <1>4, <1>5, <2>1, <2>2 DEF PassOwned
  <2>3. CASE heard
    <3>1. pass.turn # NoPrompt
      BY <2>3, SortFacts, <1>2 DEF Request
    <3> QED BY <1>4, <1>5, <2>1, <2>3, <3>1 DEF PassOwned, Asking
  <2> QED BY <2>2, <2>3
<1>9. Queried'
  <2>1. \A k \in DOMAIN requests' : requests'[k].turn \in spawned' \ (live' \ begun')
    BY <1>2, <1>5 DEF Queried
  <2>2. ASSUME NEW k \in DOMAIN requests', requests'[k].turn = pass'.turn
        PROVE  k = Len(requests') /\ pass'.stage \in Asking
    <3>1. k + 1 = Len(requests) /\ pass.stage \in Asking /\ k \in Nat
      BY <1>2, <1>4, <2>2 DEF Queried
    <3>2. ~heard
      <4>1. heard => 1 = Len(requests)
        BY <1>2, <1>4 DEF Queried
      <4>2. DOMAIN requests' = 1..Len(requests')
        BY <1>2
      <4> QED BY <1>2, <3>1, <4>1, <4>2
    <3> QED BY <1>2, <1>4, <3>1, <3>2
  <2> QED BY <2>1, <2>2 DEF Queried
<1> HIDE DEF heard
<1>10. Marked'
  BY <1>1, <1>2, <1>3, <1>4, <1>5, <1>6 DEF Marked, Spent
<1>11. ToldOnce'
  <2>1. pass'.taken \subseteq pass.taken \cup found
    BY <1>4
  <2> QED BY <1>1, <1>3, <1>4, <1>5, <1>6, <2>1 DEF ToldOnce, Subagent
<1> QED BY <1>7, <1>8, <1>9, <1>10, <1>11

----------------------------------------------------------------------------
(* The inductive invariant.                                                *)
WakeBalance == Balance /\ WakeBooks

LEMMA InitWakes == WakeInit => WakeBalance
<1> SUFFICES ASSUME WakeInit PROVE WakeBalance
  OBVIOUS
<1> USE DEF WakeInit
<1>1. Balance
  BY InitBalance
<1>2. /\ NoPass.turn = NoPrompt /\ NoPass.taken = {} /\ NoPass.suppress = {}
      /\ NoPass.stage = "none" /\ NoPrompt \notin Prompts /\ DOMAIN requests = {}
  BY SortFacts DEF NoPass
<1>3. Finished = {} /\ Posted = {}
  BY DEF Finished, Posted
<1>4. WakeTypes
  BY SortFacts DEF WakeTypes, NoPass, Stages, TaskStates
<1>5. PassOwned /\ TurnAlone /\ Queried
  BY <1>2 DEF PassOwned, TurnAlone, Queried, Init
<1>6. Marked
  BY <1>2, <1>3 DEF Marked
<1>7. ToldOnce
  <2>1. \A w \in Wake : fate[w] = "new"
    BY SortFacts DEF Init
  <2> QED BY <1>2, <1>3, <2>1 DEF ToldOnce
<1> QED BY <1>1, <1>4, <1>5, <1>6, <1>7 DEF WakeBalance, WakeBooks

LEMMA NextWakes == WakeBalance /\ [WakeNext]_allVars => WakeBalance'
<1> SUFFICES ASSUME WakeBalance, [WakeNext]_allVars PROVE WakeBalance'
  OBVIOUS
<1> USE DEF WakeBalance
<1>1. Balance'
  BY WakeIsNext, NextBalance
<1>2. ASSUME UNCHANGED allVars  PROVE WakeBooks'
  BY <1>2, SessionStepBooks DEF allVars, Resting
<1>3. ASSUME NEW w \in Wake, Bridge(w) \/ WakePrompt(w)  PROVE WakeBooks'
  BY <1>3, BridgeBooks, WakePromptBooks
<1>4. ASSUME NEW w \in Wake, NEW b \in BOOLEAN, ExitBash(w, b) \/ ExitSubagent(w, b)
      PROVE  WakeBooks'
  BY <1>4, ExitBashBooks, ExitSubagentBooks
<1>5. ASSUME NEW c \in Client, NEW asked \in BOOLEAN, UserPrompt(c, asked)
      PROVE  WakeBooks'
  BY <1>5, UserPromptBooks
<1>6. CancelUnmark \/ Abort \/ Serve => WakeBooks'
  BY CancelUnmarkBooks, AbortBooks, ServeBooks
<1>7. ASSUME SessionStep  PROVE WakeBooks'
  <2>1. Resting /\ UNCHANGED wakeVars
    BY <1>7 DEF SessionStep, Resting
  <2> QED BY <2>1, SessionStepBooks
<1>8. ASSUME NEW p \in Prompts, OpenTurn(p) \/ CloseTurn(p)  PROVE WakeBooks'
  BY <1>8, OpenTurnBooks, CloseTurnBooks
<1>9. ASSUME NEW p \in Prompts, PassStep(p)  PROVE WakeBooks'
  BY <1>9, OpenTasksBooks, OpenAskBooks, OpenTellBooks, PassTasksBooks, PassAskBooks,
     PassTellBooks, SweepsBooks DEF PassStep
<1>10. \A p \in Prompts : \A R : PassDrain(p, R) => WakeBooks'
  BY PassDrainBooks
<1> QED BY <1>1, <1>2, <1>3, <1>4, <1>5, <1>6, <1>7, <1>8, <1>9, <1>10 DEF WakeNext

LEMMA WakesBalanced == WakeSpec => []WakeBalance
BY InitWakes, NextWakes, PTL DEF WakeSpec

(* The surfaces leave the session its own: what is proved of every session *)
(* holds of one whose background tasks report this way.                    *)
THEOREM WakesRefineSession == WakeSpec => Spec
<1>1. WakeInit => Init
  BY DEF WakeInit
<1> QED BY <1>1, WakeIsNext, PTL DEF WakeSpec, Spec

(* A finished task is never forgotten while its session runs: the model    *)
(* has been told, its wake is under way, a pass holds it, or a surface can *)
(* still pick it up; only what an aborted turn had taken is lost.          *)
THEOREM TasksRemembered == WakeSpec => []NothingForgotten
<1>1. WakeBalance => NothingForgotten
  <2> SUFFICES ASSUME WakeBalance, NEW w \in Finished
               PROVE  \/ w \in told \cup read \cup cut \cup pass.taken
                      \/ task[w] = "posted"
                      \/ Reportable(w)
    BY DEF NothingForgotten
  <2>1. w \in Wake /\ (w \in Posted <=> task[w] = "posted")
    BY DEF Finished, Posted
  <2>2. CASE w \in Bash
    BY <2>1, <2>2 DEF WakeBalance, WakeBooks, Marked, Spent, Reportable
  <2>3. CASE w \notin Bash
    BY <2>1, <2>3 DEF WakeBalance, WakeBooks, Marked, Spent, Reportable, Subagent
  <2> QED BY <2>2, <2>3
<1> QED BY <1>1, WakesBalanced, PTL

(* Only the drains and the coordinator hand completions to a pass.         *)
LEMMA TakenMoves ==
  ASSUME WakeTypes, [WakeNext]_allVars
  PROVE  \/ pass'.taken \subseteq pass.taken
         \/ \E p \in Prompts : OpenTasks(p) \/ PassTasks(p)
         \/ Serve
<1> DEFINE Fewer == pass'.taken \subseteq pass.taken
<1>1. NoPass.taken = {} /\ \A p : [NoPass EXCEPT !.turn = p].taken = {}
  BY DEF NoPass
<1>2. UNCHANGED allVars \/ SessionStep \/ CancelUnmark \/ Abort => Fewer
  BY <1>1 DEF allVars, wakeVars, SessionStep, CancelUnmark, Abort
<1>3. ASSUME NEW w \in Wake, NEW b \in BOOLEAN,
             Bridge(w) \/ WakePrompt(w) \/ ExitBash(w, b) \/ ExitSubagent(w, b)
      PROVE  Fewer
  BY <1>3 DEF Bridge, WakePrompt, ExitBash, ExitSubagent
<1>4. ASSUME NEW c \in Client, NEW asked \in BOOLEAN, UserPrompt(c, asked)  PROVE Fewer
  BY <1>4 DEF UserPrompt
<1>5. ASSUME NEW p \in Prompts, OpenTurn(p) \/ CloseTurn(p) \/ OpenTell(p) \/ Sweeps(p)
      PROVE  Fewer
  BY <1>1, <1>5 DEF OpenTurn, CloseTurn, OpenTell, Sweeps, NoPass
<1>6. ASSUME NEW p \in Prompts, OpenAsk(p) \/ PassAsk(p) \/ PassTell(p)  PROVE Fewer
  <2>1. \/ \E s : pass' = [pass EXCEPT !.stage = s, !.taken = {}]
        \/ pass' = [pass EXCEPT !.stage = "wait", !.suppress = {}]
        \/ pass' = [NoPass EXCEPT !.turn = p]
    BY <1>6 DEF OpenAsk, PassAsk, PassTell
  <2> QED BY <1>1, <2>1 DEF WakeTypes
<1>7. ASSUME NEW p \in Prompts, NEW R, PassDrain(p, R)  PROVE Fewer
  <2>1. pass' = [pass EXCEPT !.stage = "tasks", !.read = R, !.suppress = R \cup delivered]
    BY <1>7 DEF PassDrain
  <2> QED BY <2>1 DEF WakeTypes
<1> HIDE DEF Fewer
<1>8. ASSUME WakeNext
      PROVE  Fewer \/ (\E p \in Prompts : OpenTasks(p) \/ PassTasks(p)) \/ Serve
  BY <1>2, <1>3, <1>4, <1>5, <1>6, <1>7, <1>8 DEF WakeNext, PassStep
<1> QED BY <1>2, <1>8 DEF Fewer

(* While a wake is queued or once it has run, and once a reminder has told,*)
(* no surface picks the completion up again, but for a subagent whose mark *)
(* missed the pass.                                                        *)
THEOREM TasksToldOnce == WakeSpec => NoEcho
<1> DEFINE Echoless == \A w \in (pass'.taken \ pass.taken) \ slipped' :
                         fate[w] \notin {"pending", "done"} /\ w \notin told
<1>1. ASSUME WakeBalance, NEW p \in Prompts, OpenTasks(p) \/ PassTasks(p)
      PROVE  Echoless
  <2>1. pass'.taken \subseteq Wake \cap (Bash \ reported)
    <3>1. pass \in [turn : Maybe, stage : Stages, read : SUBSET Wake,
                    suppress : SUBSET Wake, taken : SUBSET Wake]
      BY <1>1 DEF WakeBalance, WakeBooks, WakeTypes
    <3>2. \E s : \E fresh \in SUBSET (Bash \ reported) :
             pass' = [pass EXCEPT !.stage = s, !.taken = fresh]
      <4>1. CASE OpenTasks(p)
        <5> DEFINE new == (Finished \cap Bash) \ reported
        <5>1. new \in SUBSET (Bash \ reported)
          OBVIOUS
        <5>2. pass' = [pass EXCEPT !.stage = "openAsk", !.taken = new]
          BY <4>1 DEF OpenTasks
        <5> HIDE DEF new
        <5> QED BY <5>1, <5>2
      <4>2. CASE PassTasks(p)
        <5> DEFINE new == (Finished \cap Bash) \ (reported \cup pass.suppress)
        <5>1. new \in SUBSET (Bash \ reported)
          OBVIOUS
        <5>2. pass' = [pass EXCEPT !.stage = "ask", !.taken = new]
          BY <4>2 DEF PassTasks
        <5> HIDE DEF new
        <5> QED BY <5>1, <5>2
      <4> QED BY <1>1, <4>1, <4>2
    <3>3. pass'.taken \subseteq Bash \ reported
      BY <3>1, <3>2
    <3> QED BY <3>3, BashAssumption
  <2>2. /\ \A w \in Wake : fate[w] \in {"pending", "done"} => w \in reported
        /\ told \cap Bash \subseteq reported
    BY <1>1 DEF WakeBalance, WakeBooks, ToldOnce
  <2> QED BY <2>1, <2>2
<1>2. ASSUME WakeBalance, Serve  PROVE Echoless
  <2> DEFINE r == Head(requests)
  <2>0. /\ requests \in Seq(Request) /\ requests # <<>> /\ requests' = Tail(requests)
        /\ buffered \subseteq Wake
    BY <1>2 DEF Serve, WakeBalance, WakeBooks, WakeTypes, Subagent
  <2>1. /\ slipped' = slipped \cup ((buffered \ r.suppress) \cap delivered)
        /\ \/ pass' = pass
           \/ /\ pass.turn = r.turn /\ pass.stage \in Asking
              /\ pass'.taken = pass.taken \cup (buffered \ r.suppress)
    BY <1>2 DEF Serve, WakeBalance, WakeBooks, WakeTypes, Answered, Asking
  <2>2. /\ 1 \in DOMAIN requests /\ r = requests[1]
        /\ DOMAIN requests = 1..Len(requests)
    BY <2>0, RequestServed
  <2> HIDE DEF r
  <2>3. CASE pass' = pass
    BY <2>3
  <2>4. CASE /\ pass.turn = r.turn /\ pass.stage \in Asking
             /\ pass'.taken = pass.taken \cup (buffered \ r.suppress)
    <3>1. Len(requests) = 1 /\ pass.suppress = {}
      <4>1. 1 = Len(requests)
        BY <1>2, <2>2, <2>4 DEF WakeBalance, WakeBooks, Queried
      <4>2. pass.suppress = {}
        BY <1>2, <2>4 DEF WakeBalance, WakeBooks, PassOwned, Asking
      <4> QED BY <4>1, <4>2
    <3>2. \A k \in DOMAIN requests : requests[k] = r
      BY <2>2, <3>1
    <3>3. ASSUME NEW w \in buffered \ r.suppress, w \notin slipped'
          PROVE  fate[w] \notin {"pending", "done"} /\ w \notin told
      <4>1. ~Watched(w)
        BY <2>1, <3>1, <3>2, <3>3 DEF Watched
      <4>2. /\ w \in Wake /\ w \notin told
            /\ fate[w] \in {"pending", "done"} => w \in Posted
            /\ w \in Posted /\ fate[w] \in {"new", "pending", "done"} => Watched(w)
        BY <1>2, <2>0, <3>3 DEF WakeBalance, WakeBooks, ToldOnce
      <4> QED BY <4>1, <4>2
    <3> QED BY <2>4, <3>3
  <2> QED BY <2>1, <2>3, <2>4
<1>3. ASSUME pass'.taken \subseteq pass.taken  PROVE Echoless
  BY <1>3
<1> HIDE DEF Echoless
<1>4. WakeBalance /\ [WakeNext]_allVars => [Echoless]_allVars
  BY <1>1, <1>2, <1>3, TakenMoves DEF WakeBalance, WakeBooks
<1> QED BY <1>4, WakesBalanced, PTL DEF WakeSpec, NoEcho, Echoless
=============================================================================
