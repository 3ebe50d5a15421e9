--------------------------- MODULE SessionProofs ---------------------------
(***************************************************************************)
(* Proofs about a session, for every set of prompts and every order, cap   *)
(* and cancel kind, in three parts.                                        *)
(*                                                                         *)
(* Types and front.  The inductive invariant IInv is the conjunction of    *)
(* both with a fact about the flush, which takes the last stranded         *)
(* interjection and so needs one.                                          *)
(*                                                                         *)
(* The books of SessionLedger balance: no prompt, interjection or notice   *)
(* is lost or held twice, whatever the order of commands, completions,     *)
(* cancels and starting tasks.  The invariant is Ledger with Upkeep on top *)
(* of IInv.                                                                *)
(*                                                                         *)
(* The scheduler implements TurnService.  There is a lemma per kind of     *)
(* service step, in terms of the queue and of the answers, and then a      *)
(* lemma per action that finds its kind.  The books are what makes the     *)
(* mapping work: the waiting requests are the queue but for its running    *)
(* front, and a completion that owns the front is the running turn's.  The *)
(* order in which the queue is served comes last.                          *)
(*                                                                         *)
(* Each part has a lemma per action, in the order of SessionTurns, and in  *)
(* it a step per conjunct or group of variables the action disturbs.       *)
(***************************************************************************)
EXTENDS SessionLedger, PromptQueueProofs

----------------------------------------------------------------------------
(* I. Types and front.                                                     *)

(* A flush in progress has an interjection left to queue.                  *)
FlushHasText == pc = "flush" => stranded # <<>>
IInv == TypeOK /\ FrontIsRunning /\ FlushHasText

----------------------------------------------------------------------------
(* Facts about the data.                                                   *)

(* Every sort of prompt is a prompt, and no prompt is NoPrompt.            *)
LEMMA SortFacts ==
  /\ Client \subseteq Prompts /\ Fallback \subseteq Prompts
  /\ Wake \subseteq Prompts /\ Notice \subseteq Prompts
  /\ Goal \subseteq Prompts /\ Plan \subseteq Prompts
  /\ Prompts \subseteq Maybe /\ NoPrompt \in Maybe /\ NoPrompt \notin Prompts
BY NoPromptAssumption DEF Prompts, User, Synthetic, Maybe

(* The fates, listed.                                                      *)
LEMMA FatesFacts ==
  Fates = {"new", "buffered", "pending", "done", "cancelled", "rewound",
           "removed", "dropped", "merged", "discarded"}
BY DEF Fates, Settled, Answers

(* Settling prompts keeps the map of fates a map of fates.                 *)
LEMMA SettleType ==
  ASSUME NEW f \in [Prompts -> Fates], NEW S, NEW v \in Fates
  PROVE  Settle(f, S, v) \in [Prompts -> Fates]
BY DEF Settle

(* A capped push yields a sequence of prompts.                             *)
LEMMA PushCappedType ==
  ASSUME NEW s \in Seen, NEW n \in Prompts
  PROVE  PushCapped(s, n) \in Seen
BY CapAssumption DEF PushCapped, Seen

(* What is kept of a sequence of prompts is one.                           *)
LEMMA KeepSeen ==
  ASSUME NEW s \in Seen, NEW K
  PROVE  Keep(s, K) \in Seen
BY KeepType DEF Seen

(* Taking the head of a sequence.                                          *)
LEMMA HeadTail ==
  ASSUME NEW S, NEW s \in Seq(S), s # <<>>
  PROVE  Head(s) \in S /\ Tail(s) \in Seq(S)
OBVIOUS

(* Taking the last element of a sequence.                                  *)
LEMMA LastFront ==
  ASSUME NEW S, NEW s \in Seq(S), s # <<>>
  PROVE  /\ Last(s) \in S /\ Front(s) \in Seq(S)
         /\ Len(s) # 1 => Front(s) # <<>>
<1>1. Len(s) \in Nat /\ Len(s) # 0 /\ \A i \in 1..Len(s) : s[i] \in S
  OBVIOUS
<1>2. \A i \in 1..(Len(s) - 1) : s[i] \in S
  BY <1>1
<1>3. Len(s) - 1 \in Int /\ 1 \in Int
  BY <1>1
<1>4. /\ SubSeq(s, 1, Len(s) - 1) \in Seq(S)
      /\ Len(SubSeq(s, 1, Len(s) - 1)) = IF 1 <= Len(s) - 1
                                          THEN Len(s) - 1 - 1 + 1 ELSE 0
  BY <1>2, <1>3, SubSeqProperties
<1>5. Len(s) # 1 => Len(SubSeq(s, 1, Len(s) - 1)) # 0
  <2> DEFINE n == Len(s)
             m == Len(SubSeq(s, 1, Len(s) - 1))
  <2>1. m = IF 1 <= n - 1 THEN n - 1 - 1 + 1 ELSE 0
    BY <1>4
  <2>2. n \in Nat /\ n # 0
    BY <1>1
  <2> HIDE DEF n, m
  <2>3. n # 1 => m # 0
    BY <2>1, <2>2
  <2> QED BY <2>3 DEF n, m
<1>6. Len(s) # 1 => Front(s) # <<>>
  BY <1>5 DEF Front
<1>7. Last(s) \in S /\ Front(s) \in Seq(S)
  BY <1>1, <1>4 DEF Last, Front
<1> QED BY <1>6, <1>7

----------------------------------------------------------------------------
(* The initial state satisfies the invariant.                              *)
LEMMA InitInv == Init => IInv
<1> SUFFICES ASSUME Init PROVE IInv
  OBVIOUS
<1>1. cur \in [id : Maybe, ok : BOOLEAN]
  BY DEF Init, NoCompletion, Maybe
<1>2. cancel \in [pinned : Maybe, task : Maybe, resolved : Seen, kind : Kinds,
                 rewound : BOOLEAN]
  BY DEF Init, NoCancel, Maybe, Seen, Kinds
<1>3. fate \in [Prompts -> Fates] /\ terminals \in [Prompts -> Nat]
  BY FatesFacts DEF Init
<1>4. mcp \in {"initialising", "done"}
  BY DEF Init
<1>5. /\ stranded \in Seen /\ queue \in Seen /\ notices \in Seen
      /\ interjections \in Seen /\ buffer \in Seen
      /\ completions \in Seq([id : Maybe, ok : BOOLEAN])
  BY DEF Init, Seen
<1>6. running \in Maybe /\ pin \in Maybe /\ resuming \in Maybe
  BY SortFacts DEF Init
<1>7. TypeOK
  BY <1>1, <1>2, <1>3, <1>4, <1>5, <1>6 DEF Init, TypeOK
<1>8. FrontIsRunning /\ FlushHasText
  BY DEF Init, FrontIsRunning, FlushHasText
<1> QED BY <1>7, <1>8 DEF IInv

(* maybe_start_running_task promotes the front of the queue and nothing    *)
(* else.                                                                   *)
LEMMA MaybeStartSafe ==
  ASSUME TypeOK, FrontIsRunning, MaybeStart
  PROVE  /\ running' \in Maybe /\ pin' \in Maybe /\ rewindable' \in BOOLEAN
         /\ live' \subseteq Prompts /\ spawned' \subseteq Prompts
         /\ pc # "stopped" /\ running' # NoPrompt => IsFront(queue, running')
<1>1. CASE CanStart
  <2>1. queue # <<>> /\ Head(queue) \in Prompts
    BY <1>1 DEF CanStart, TypeOK, Seen
  <2> QED BY <1>1, <2>1, SortFacts DEF MaybeStart, TypeOK, IsFront
<1>2. CASE ~CanStart
  BY <1>2 DEF MaybeStart, TypeOK, FrontIsRunning
<1> QED BY <1>1, <1>2

(* queue_input, preemption and send-now included, never displaces the      *)
(* running turn.                                                           *)
LEMMA QueueInputSafe ==
  ASSUME TypeOK, NEW p \in Prompts, NEW asked \in BOOLEAN, QueueInput(p, asked)
  PROVE  /\ queue' \in Seen /\ marked' \subseteq Prompts
         /\ fate' \in [Prompts -> Fates]
         /\ IsFront(queue, running) => IsFront(queue', running)
<1> DEFINE q == Remaining(p)
<1>1. q \in Seen /\ (IsFront(queue, running) => IsFront(q, running))
  BY SweepSafe DEF TypeOK, Remaining, Seen
<1>2. fate' \in [Prompts -> Fates]
  BY SettleType, FatesFacts DEF TypeOK, QueueInput
<1>3. CASE SendsNow(p, asked)
  <2>1. queue' = InsertSendNow(q, running, marked, p) /\ marked' = marked \cup {p}
    BY <1>3 DEF QueueInput
  <2> QED BY <1>1, <1>2, <2>1, InsertSendNowSafe DEF TypeOK, Seen
<1>4. CASE ~SendsNow(p, asked)
  <2>1. queue' = Append(q, p) /\ marked' = marked
    BY <1>4 DEF QueueInput
  <2> QED BY <1>1, <1>2, <2>1, AppendSafe DEF TypeOK, Seen
<1> QED BY <1>3, <1>4

(* The head of a cancel fills the locals of cancel_running_task.           *)
LEMMA BeginCancelSafe ==
  ASSUME TypeOK, NEW kind \in Kinds, BeginCancel(kind)
  PROVE  /\ interjections' \in Seen /\ pc' = "cancelLock"
         /\ cancel' \in [pinned : Maybe, task : Maybe, resolved : Seen,
                         kind : Kinds, rewound : BOOLEAN]
<1>1. cancel' = [pinned |-> pin, task |-> NoPrompt, resolved |-> <<>>,
                 kind |-> kind, rewound |-> FALSE]
  BY DEF BeginCancel, NoCancel
<1>2. pin \in Maybe /\ NoPrompt \in Maybe /\ <<>> \in Seen
  BY SortFacts DEF TypeOK, Seen
<1>3. interjections' = <<>> /\ pc' = "cancelLock"
  BY DEF BeginCancel
<1> QED BY <1>1, <1>2, <1>3

----------------------------------------------------------------------------
(* Commands.                                                               *)

(* An edit of the queue that spares a running front keeps the invariant.   *)
LEMMA QueueEditStep ==
  ASSUME IInv, NEW q \in Seen, QueueEdit(q),
         IsFront(queue, running) => IsFront(q, running)
  PROVE  IInv'
<1>1. queue' = q /\ marked' \subseteq Prompts
  BY DEF IInv, TypeOK, QueueEdit
<1>2. fate' \in [Prompts -> Fates]
  BY SettleType, FatesFacts DEF IInv, TypeOK, QueueEdit
<1>3. UNCHANGED <<loopVars, starterVars, turnVars, waitVars, goalVars,
        noticeVars, running, rewindable, pin, interjections, active,
        completions, terminals>>
  BY DEF QueueEdit
<1>4. TypeOK'
  BY <1>1, <1>2, <1>3 DEF IInv, TypeOK, loopVars, starterVars, turnVars,
    waitVars, goalVars, noticeVars
<1>5. FrontIsRunning' /\ FlushHasText'
  BY <1>1, <1>3 DEF IInv, FrontIsRunning, FlushHasText, loopVars
<1> QED BY <1>4, <1>5 DEF IInv

(* handle_remove_queued_prompt refuses the running prompt.                 *)
LEMMA RemoveQueuedStep ==
  ASSUME IInv, NEW p \in Prompts, RemoveQueued(p)
  PROVE  IInv'
<1> DEFINE K == ToSet(queue) \ {p}
<1>1. Keep(queue, K) \in Seen /\ QueueEdit(Keep(queue, K))
  BY KeepSeen DEF IInv, TypeOK, RemoveQueued
<1>2. ASSUME IsFront(queue, running)  PROVE IsFront(Keep(queue, K), running)
  <2>1. running \in K
    BY <1>2 DEF IInv, TypeOK, RemoveQueued, IsFront, ToSet, Seen
  <2> QED BY <1>2, <2>1, KeepFront DEF IInv, TypeOK, Seen
<1> QED BY <1>1, <1>2, QueueEditStep

(* handle_clear_queue spares the running prompt.                           *)
LEMMA ClearQueueStep ==
  ASSUME IInv, NEW o, ClearQueue(o)
  PROVE  IInv'
<1> DEFINE mine == {p \in Client \ {running} : o \in {OwnerOf[p], AnyOwner}}
           K == ToSet(queue) \ mine
<1>1. Keep(queue, K) \in Seen /\ QueueEdit(Keep(queue, K))
  BY KeepSeen DEF IInv, TypeOK, ClearQueue
<1>2. ASSUME IsFront(queue, running)  PROVE IsFront(Keep(queue, K), running)
  <2>1. running \in K
    BY <1>2 DEF IInv, TypeOK, IsFront, ToSet, Seen
  <2> QED BY <1>2, <2>1, KeepFront DEF IInv, TypeOK, Seen
<1> QED BY <1>1, <1>2, QueueEditStep

(* handle_reorder_queue pins the running prompt.                           *)
LEMMA ReorderStep ==
  ASSUME IInv, NEW order \in Orders, Reorder(order)
  PROVE  IInv'
<1>1. order \in Seq(Client) /\ queue \in Seq(Prompts)
  BY OrdersAssumption DEF IInv, TypeOK, Seen
<1>2. /\ Reordered(queue, running, order) \in Seq(Prompts)
      /\ IsFront(queue, running) => IsFront(Reordered(queue, running, order), running)
  BY <1>1, ReorderedSafe
<1> QED BY <1>2, QueueEditStep DEF Reorder, Seen

(* The Prompt arm.                                                         *)
LEMMA PromptStep ==
  ASSUME IInv, NEW p \in Prompts, NEW asked \in BOOLEAN, Prompt(p, asked)
  PROVE  IInv'
<1>1. /\ queue' \in Seen /\ marked' \subseteq Prompts /\ fate' \in [Prompts -> Fates]
      /\ IsFront(queue, running) => IsFront(queue', running)
  BY QueueInputSafe DEF IInv, Prompt
<1>2. /\ interjections' \in Seen /\ pc' \in {"cancelLock", "start"}
      /\ cancel' \in [pinned : Maybe, task : Maybe, resolved : Seen, kind : Kinds,
                     rewound : BOOLEAN]
  BY BeginCancelSafe DEF IInv, TypeOK, Prompt, Kinds
<1>3. arm' = "prompt" /\ suppressed' \in BOOLEAN
  BY DEF Prompt
<1>4. UNCHANGED <<cur, stranded, starterVars, turnVars, waitVars, goalVars,
        notices, buffer, running, rewindable, pin, active, completions,
        terminals>>
  BY DEF Prompt
<1>5. TypeOK'
  BY <1>1, <1>2, <1>3, <1>4 DEF IInv, TypeOK, starterVars, turnVars,
    waitVars, goalVars
<1>6. FrontIsRunning' /\ FlushHasText'
  BY <1>1, <1>2, <1>3, <1>4 DEF IInv, FrontIsRunning, FlushHasText, Prompt,
    Ready
<1> QED BY <1>5, <1>6 DEF IInv

(* A promoted row goes behind the running front.                           *)
LEMMA InterjectQueuedStep ==
  ASSUME IInv, NEW p \in Prompts, InterjectQueued(p)
  PROVE  IInv'
<1>1. queue' \in Seen /\ (IsFront(queue, running) => IsFront(queue', running))
  <2> DEFINE K == ToSet(queue) \ {p}
  <2>1. Keep(queue, K) \in Seen
    BY KeepSeen DEF IInv, TypeOK
  <2>2. ASSUME IsFront(queue, running)  PROVE IsFront(Keep(queue, K), running)
    <3>1. running \in K
      BY <2>2 DEF IInv, TypeOK, InterjectQueued, IsFront, ToSet, Seen
    <3> QED BY <2>2, <3>1, KeepFront DEF IInv, TypeOK, Seen
  <2>3. queue' = InsertSendNow(Keep(queue, K), running, marked, p)
    BY DEF InterjectQueued
  <2> QED BY <2>1, <2>2, <2>3, InsertSendNowSafe DEF Seen
<1>2. marked' \subseteq Prompts /\ fate' \in [Prompts -> Fates]
  BY SettleType, FatesFacts DEF IInv, TypeOK, InterjectQueued
<1>3. /\ interjections' \in Seen /\ pc' \in {"cancelLock", "start"}
      /\ cancel' \in [pinned : Maybe, task : Maybe, resolved : Seen, kind : Kinds,
                     rewound : BOOLEAN]
  BY BeginCancelSafe DEF IInv, TypeOK, InterjectQueued, Kinds
<1>4. arm' = "interjectQueued"
  BY DEF InterjectQueued
<1>5. UNCHANGED <<cur, stranded, starterVars, turnVars, waitVars, goalVars,
        noticeVars, running, rewindable, pin, active, completions,
        terminals>>
  BY DEF InterjectQueued
<1>6. TypeOK'
  BY <1>1, <1>2, <1>3, <1>4, <1>5 DEF IInv, TypeOK, starterVars, turnVars,
    waitVars, goalVars, noticeVars
<1>7. FrontIsRunning' /\ FlushHasText'
  BY <1>1, <1>2, <1>3, <1>4, <1>5 DEF IInv, FrontIsRunning, FlushHasText,
    InterjectQueued, Ready
<1> QED BY <1>6, <1>7 DEF IInv

(* The Interject arm.                                                      *)
LEMMA InterjectStep ==
  ASSUME IInv, NEW i \in Fallback, Interject(i)
  PROVE  IInv'
<1>1. fate' \in [Prompts -> Fates]
  BY FatesFacts DEF IInv, TypeOK, Interject
<1>2. interjections' \in Seen
  <2>1. i \in Prompts
    BY SortFacts
  <2>2. Append(interjections, i) \in Seen
    BY <2>1, AppendSafe DEF IInv, TypeOK, Seen
  <2> QED BY <2>2 DEF IInv, TypeOK, Interject
<1>3. stranded' \in Seen /\ pc' \in {pc, "flush"} /\ arm' \in {arm, "interject"}
  <2>1. <<i>> \in Seen
    BY SortFacts DEF Seen
  <2> QED BY <2>1 DEF IInv, TypeOK, Interject
<1>4. pc' = "flush" => stranded' # <<>>
  BY DEF IInv, FlushHasText, Interject, Ready
<1>5. UNCHANGED <<cur, cancel, starterVars, turnVars, waitVars, goalVars,
        noticeVars, running, queue, marked, rewindable, pin, active,
        completions, terminals>>
  BY DEF Interject
<1>6. TypeOK'
  BY <1>1, <1>2, <1>3, <1>4, <1>5 DEF IInv, TypeOK, starterVars, turnVars,
    waitVars, goalVars, noticeVars
<1>7. FrontIsRunning' /\ FlushHasText'
  BY <1>1, <1>2, <1>3, <1>4, <1>5 DEF IInv, FrontIsRunning, FlushHasText,
    Interject, Ready
<1> QED BY <1>6, <1>7 DEF IInv

(* The GoalSummaryTurn arm queues at the back.                             *)
LEMMA GoalSummaryTurnStep ==
  ASSUME IInv, NEW g \in Goal, GoalSummaryTurn(g)
  PROVE  IInv'
<1>1. queue' \in Seen /\ (IsFront(queue, running) => IsFront(queue', running))
  BY AppendSafe, SortFacts DEF IInv, TypeOK, GoalSummaryTurn, Seen
<1>2. fate' \in [Prompts -> Fates]
  BY FatesFacts DEF IInv, TypeOK, GoalSummaryTurn
<1>3. pc' = "start" /\ arm' = "goalSummary"
  BY DEF GoalSummaryTurn
<1>4. UNCHANGED <<cur, stranded, cancel, starterVars, turnVars, waitVars,
        goalVars, noticeVars, running, marked, rewindable, pin,
        interjections, active, completions, terminals>>
  BY DEF GoalSummaryTurn
<1>5. TypeOK'
  BY <1>1, <1>2, <1>3, <1>4 DEF IInv, TypeOK, starterVars, turnVars,
    waitVars, goalVars, noticeVars
<1>6. FrontIsRunning' /\ FlushHasText'
  BY <1>1, <1>2, <1>3, <1>4 DEF IInv, FrontIsRunning, FlushHasText,
    GoalSummaryTurn, Ready
<1> QED BY <1>5, <1>6 DEF IInv

(* The InjectNotification arm.                                             *)
LEMMA InjectNotificationStep ==
  ASSUME IInv, NEW n \in Notice, NEW urgent \in BOOLEAN, InjectNotification(n, urgent)
  PROVE  IInv'
<1>1. notices' \in Seen /\ buffer' \in Seen
  BY PushCappedType, SortFacts DEF IInv, TypeOK, InjectNotification
<1>2. fate' \in [Prompts -> Fates]
  <2>1. [fate EXCEPT ![n] = "buffered"] \in [Prompts -> Fates]
    BY FatesFacts DEF IInv, TypeOK
  <2> QED BY <2>1, SettleType, FatesFacts DEF InjectNotification
<1>3. pc' \in {pc, "drain"} /\ arm' \in {arm, "notification"}
  BY DEF InjectNotification
<1>4. UNCHANGED <<cur, stranded, cancel, starterVars, turnVars, waitVars,
        goalVars, suppressed, running, queue, marked, rewindable, pin,
        interjections, active, completions, terminals>>
  BY DEF InjectNotification
<1>5. TypeOK'
  BY <1>1, <1>2, <1>3, <1>4 DEF IInv, TypeOK, starterVars, turnVars,
    waitVars, goalVars
<1>6. FrontIsRunning' /\ FlushHasText'
  BY <1>1, <1>2, <1>3, <1>4 DEF IInv, FrontIsRunning, FlushHasText,
    InjectNotification, Ready
<1> QED BY <1>5, <1>6 DEF IInv

(* The DropMonitorNotifications arm.                                       *)
LEMMA DropMonitorNotificationsStep ==
  ASSUME IInv, NEW w \in Wake, DropMonitorNotifications(w)
  PROVE  IInv'
<1>1. notices' \in Seen /\ buffer' \in Seen
  BY KeepSeen DEF IInv, TypeOK, DropMonitorNotifications, FromOthers
<1>2. fate' \in [Prompts -> Fates]
  BY SettleType, FatesFacts DEF IInv, TypeOK, DropMonitorNotifications
<1>3. UNCHANGED <<loopVars, starterVars, turnVars, waitVars, goalVars,
        suppressed, running, queue, marked, rewindable, pin, interjections,
        active, completions, terminals>>
  BY DEF DropMonitorNotifications
<1>4. TypeOK'
  BY <1>1, <1>2, <1>3 DEF IInv, TypeOK, loopVars, starterVars, turnVars,
    waitVars, goalVars
<1>5. FrontIsRunning' /\ FlushHasText'
  BY <1>1, <1>2, <1>3 DEF IInv, FrontIsRunning, FlushHasText,
    DropMonitorNotifications, Ready, loopVars
<1> QED BY <1>4, <1>5 DEF IInv

(* The Cancel arm.                                                         *)
LEMMA CancelStep ==
  ASSUME IInv, NEW kind \in Cancels, Cancel(kind)
  PROVE  IInv'
<1>1. /\ interjections' \in Seen /\ pc' \in {"cancelLock", "start"}
      /\ cancel' \in [pinned : Maybe, task : Maybe, resolved : Seen, kind : Kinds,
                     rewound : BOOLEAN]
  BY BeginCancelSafe, ScenarioAssumption DEF IInv, TypeOK, Cancel, Kinds
<1>2. fate' \in [Prompts -> Fates]
  BY SettleType, FatesFacts DEF IInv, TypeOK, Cancel
<1>3. arm' = "cancel"
  BY DEF Cancel
<1>4. UNCHANGED <<cur, stranded, starterVars, turnVars, waitVars, goalVars,
        noticeVars, running, queue, marked, rewindable, pin, active,
        completions, terminals>>
  BY DEF Cancel
<1>5. TypeOK'
  BY <1>1, <1>2, <1>3, <1>4 DEF IInv, TypeOK, starterVars, turnVars,
    waitVars, goalVars, noticeVars
<1>6. FrontIsRunning' /\ FlushHasText'
  BY <1>1, <1>2, <1>3, <1>4 DEF IInv, FrontIsRunning, FlushHasText, Cancel,
    Ready
<1> QED BY <1>5, <1>6 DEF IInv

(* The run loop returns.                                                   *)
LEMMA ShutdownStep ==
  ASSUME IInv, NEW closed \in BOOLEAN, Shutdown(closed)
  PROVE  IInv'
<1>1. queue' \in Seen /\ notices' \in Seen
  <2>1. Keep(queue, User) \in Seen /\ <<>> \in Seen
    BY KeepSeen DEF IInv, TypeOK, Seen
  <2> QED BY <2>1 DEF IInv, TypeOK, Shutdown
<1>2. fate' \in [Prompts -> Fates]
  BY SettleType, FatesFacts DEF IInv, TypeOK, Shutdown
<1>3. pc' = "stopped"
  BY DEF Shutdown
<1>4. UNCHANGED <<arm, cur, stranded, cancel, starterVars, turnVars,
        waitVars, goalVars, suppressed, buffer, running, marked, rewindable,
        pin, interjections, active, completions, terminals>>
  BY DEF Shutdown
<1>5. TypeOK'
  BY <1>1, <1>2, <1>3, <1>4 DEF IInv, TypeOK, starterVars, turnVars,
    waitVars, goalVars
<1>6. FrontIsRunning' /\ FlushHasText'
  BY <1>1, <1>2, <1>3, <1>4 DEF IInv, FrontIsRunning, FlushHasText, Shutdown,
    Ready
<1> QED BY <1>5, <1>6 DEF IInv

----------------------------------------------------------------------------
(* Steps inside the arms of the run loop.                                  *)

(* A stranded interjection goes behind the running front.                  *)
LEMMA FlushStep ==
  ASSUME IInv, Flush
  PROVE  IInv'
<1>1. /\ Last(stranded) \in Prompts /\ Front(stranded) \in Seen
      /\ Len(stranded) # 1 => Front(stranded) # <<>>
  BY LastFront DEF IInv, TypeOK, Flush, FlushHasText, Seen
<1>2. queue' \in Seen /\ (IsFront(queue, running) => IsFront(queue', running))
  BY <1>1, InsertFallbackSafe DEF IInv, TypeOK, Flush, Seen
<1>3. marked' \subseteq Prompts
  BY <1>1 DEF IInv, TypeOK, Flush
<1>4. fate' \in [Prompts -> Fates]
  BY FatesFacts DEF IInv, TypeOK, Flush
<1>5. stranded' \in Seen
  BY <1>1 DEF Flush
<1>6. pc' \in {"start", "flush"} /\ (pc' = "flush" => stranded' # <<>>)
  BY <1>1 DEF Flush
<1>7. UNCHANGED <<arm, cur, cancel, starterVars, turnVars, waitVars,
        goalVars, noticeVars, running, rewindable, pin, interjections,
        active, completions, terminals>>
  BY DEF Flush
<1>8. TypeOK'
  BY <1>1, <1>2, <1>3, <1>4, <1>5, <1>6, <1>7 DEF IInv, TypeOK, starterVars,
    turnVars, waitVars, goalVars, noticeVars
<1>9. FrontIsRunning' /\ FlushHasText'
  BY <1>1, <1>2, <1>3, <1>4, <1>5, <1>6, <1>7 DEF IInv, FrontIsRunning,
    FlushHasText, Flush
<1> QED BY <1>8, <1>9 DEF IInv

(* The locked part of a cancel frees the running slot with the row.        *)
LEMMA CancelLockStep ==
  ASSUME IInv, CancelLock
  PROVE  IInv'
<1>1. notices' \in Seen /\ buffer' \in Seen
  BY DEF IInv, TypeOK, CancelLock, Swept, Seen
<1>2. running' \in Maybe /\ running' = NoPrompt
  BY SortFacts DEF CancelLock
<1>3. queue' \in Seen /\ marked' \subseteq Prompts
  BY DEF IInv, TypeOK, CancelLock, Seen
<1>4. Taken \in Seen
  BY DEF IInv, TypeOK, Taken, FrontOf, Seen
<1>5. cancel' \in [pinned : Maybe, task : Maybe, resolved : Seen, kind : Kinds,
                   rewound : BOOLEAN]
  BY <1>4, SortFacts DEF IInv, TypeOK, CancelLock
<1>6. rewindable' \in BOOLEAN /\ suppressed' \in BOOLEAN
  BY DEF CancelLock
<1>7. live' \subseteq Prompts /\ aborted' \subseteq Prompts
  BY DEF IInv, TypeOK, CancelLock
<1>8. fate' \in [Prompts -> Fates]
  BY SettleType, FatesFacts DEF IInv, TypeOK, CancelLock
<1>9. pc' = "cancelGate"
  BY DEF CancelLock
<1>10. UNCHANGED <<arm, cur, stranded, starterVars, begun, spawned, waitVars,
        goalVars, pin, interjections, active, completions, terminals>>
  BY DEF CancelLock
<1>11. TypeOK'
  BY <1>1, <1>2, <1>3, <1>4, <1>5, <1>6, <1>7, <1>8, <1>9, <1>10 DEF IInv,
    TypeOK, starterVars, waitVars, goalVars
<1>12. FrontIsRunning' /\ FlushHasText'
  BY <1>1, <1>2, <1>3, <1>4, <1>5, <1>6, <1>7, <1>8, <1>9, <1>10 DEF IInv,
    FrontIsRunning, FlushHasText, CancelLock
<1> QED BY <1>11, <1>12 DEF IInv

(* The goal gate falls.                                                    *)
LEMMA CancelGateStep ==
  ASSUME IInv, CancelGate
  PROVE  IInv'
<1>1. goalGate' \in BOOLEAN /\ pc' = "cancelAbort"
  BY DEF CancelGate
<1>2. UNCHANGED <<arm, cur, stranded, cancel, starterVars, turnVars, waitVars,
        goal, noticeVars, running, queue, marked, rewindable, pin,
        interjections, active, completions, fate, terminals>>
  BY DEF CancelGate
<1>3. TypeOK'
  BY <1>1, <1>2 DEF IInv, TypeOK, starterVars, turnVars, waitVars, noticeVars
<1>4. FrontIsRunning' /\ FlushHasText'
  BY <1>1, <1>2 DEF IInv, FrontIsRunning, FlushHasText, CancelGate
<1> QED BY <1>3, <1>4 DEF IInv

(* The cancelled task is aborted.                                          *)
LEMMA CancelAbortStep ==
  ASSUME IInv, CancelAbort
  PROVE  IInv'
<1>1. live' \subseteq Prompts /\ aborted' \subseteq Prompts
  BY DEF IInv, TypeOK, CancelAbort, Aborted
<1>2. depth' \in Nat /\ pc' = "cancelFinish"
  BY DEF CancelAbort, DepthAfterAbort
<1>3. UNCHANGED <<arm, cur, stranded, cancel, starterVars, begun, spawned,
        waits, goalVars, noticeVars, running, queue, marked, rewindable, pin,
        interjections, active, completions, fate, terminals>>
  BY DEF CancelAbort
<1>4. TypeOK'
  BY <1>1, <1>2, <1>3 DEF IInv, TypeOK, starterVars, goalVars, noticeVars
<1>5. FrontIsRunning' /\ FlushHasText'
  BY <1>1, <1>2, <1>3 DEF IInv, FrontIsRunning, FlushHasText, CancelAbort
<1> QED BY <1>4, <1>5 DEF IInv

(* A cancel answers what it resolved.                                      *)
LEMMA CancelFinishStep ==
  ASSUME IInv, CancelFinish
  PROVE  IInv'
<1>1. pin' \in Maybe
  BY SortFacts DEF CancelFinish, PinAfterCancel
<1>2. terminals' \in [Prompts -> Nat]
  BY DEF IInv, TypeOK, CancelFinish
<1>3. rewindable' \in BOOLEAN /\ suppressed' \in BOOLEAN
  BY DEF CancelFinish
<1>4. fate' \in [Prompts -> Fates]
  BY SettleType, FatesFacts DEF IInv, TypeOK, CancelFinish
<1>5. goal' \in {"none", "active", "paused", "complete"}
  BY DEF IInv, TypeOK, CancelFinish
<1>6. cancel' \in [pinned : Maybe, task : Maybe, resolved : Seen, kind : Kinds,
                   rewound : BOOLEAN]
  BY SortFacts DEF CancelFinish, NoCancel, Kinds, Seen
<1>7. pc' = "start"
  BY DEF CancelFinish
<1>8. UNCHANGED <<arm, cur, stranded, starterVars, turnVars, waitVars,
        goalGate, notices, buffer, running, queue, marked, interjections,
        active, completions>>
  BY DEF CancelFinish
<1>9. TypeOK'
  BY <1>1, <1>2, <1>3, <1>4, <1>5, <1>6, <1>7, <1>8 DEF IInv, TypeOK,
    starterVars, turnVars, waitVars
<1>10. FrontIsRunning' /\ FlushHasText'
  BY <1>1, <1>2, <1>3, <1>4, <1>5, <1>6, <1>7, <1>8 DEF IInv, FrontIsRunning,
    FlushHasText, CancelFinish
<1> QED BY <1>9, <1>10 DEF IInv

(* The step that ends an arm starts the front prompt.                      *)
LEMMA StartStep ==
  ASSUME IInv, Start
  PROVE  IInv'
<1>1. /\ running' \in Maybe /\ pin' \in Maybe /\ rewindable' \in BOOLEAN
      /\ live' \subseteq Prompts /\ spawned' \subseteq Prompts
      /\ pc # "stopped" /\ running' # NoPrompt => IsFront(queue, running')
  BY MaybeStartSafe DEF Start, IInv
<1>2. pc' \in {"select", "drain"} /\ arm' \in {"none", "completion"}
  BY DEF Start
<1>3. UNCHANGED <<cur, stranded, cancel, starterVars, begun, aborted,
        waitVars, goalVars, noticeVars, queue, marked, interjections, active,
        completions, fate, terminals>>
  BY DEF Start
<1>4. TypeOK'
  BY <1>1, <1>2, <1>3 DEF IInv, TypeOK, starterVars, waitVars, goalVars,
    noticeVars
<1>5. FrontIsRunning' /\ FlushHasText'
  BY <1>1, <1>2, <1>3 DEF IInv, FrontIsRunning, FlushHasText, Start
<1> QED BY <1>4, <1>5 DEF IInv

(* An idle drain queues into an empty queue.                               *)
LEMMA DrainStep ==
  ASSUME IInv, Drain
  PROVE  IInv'
<1>1. Swept \in Seen /\ <<>> \in Seen
  BY DEF IInv, TypeOK, Swept, Seen
<1>2. Surfaced(Swept) \in Seen
  BY <1>1, KeepSeen DEF Surfaced
<1>3. notices' \in Seen /\ buffer' \in Seen
  <2>1. CASE Idle
    BY <2>1, <1>1 DEF Drain
  <2>2. CASE ~Idle
    BY <2>2 DEF IInv, TypeOK, Drain
  <2> QED BY <2>1, <2>2
<1>4. queue' \in Seen /\ (IsFront(queue, running) => IsFront(queue', running))
  <2>1. CASE queue' = queue
    BY <2>1 DEF IInv, TypeOK
  <2>2. CASE queue' # queue
    <3>1. queue = <<>> /\ Surfaced(Swept) # <<>> /\ queue' = <<Head(Surfaced(Swept))>>
      BY <2>2 DEF Drain, Idle
    <3> QED BY <1>2, <3>1 DEF Seen, IsFront
  <2> QED BY <2>1, <2>2
<1>5. fate' \in [Prompts -> Fates]
  <2> DEFINE all   == ToSet(Swept)
             batch == ToSet(Surfaced(Swept))
             told  == Settle(Settle(fate, all \ batch, "discarded"), batch, "merged")
  <2>1. Settle(fate, all, "discarded") \in [Prompts -> Fates]
    BY SettleType, FatesFacts DEF IInv, TypeOK
  <2>2. Settle(fate, all \ batch, "discarded") \in [Prompts -> Fates]
    BY SettleType, FatesFacts DEF IInv, TypeOK
  <2>3. told \in [Prompts -> Fates]
    BY <2>2, SettleType, FatesFacts
  <2>4. Settle(told, {Head(Surfaced(Swept))}, "pending") \in [Prompts -> Fates]
    BY <2>3, SettleType, FatesFacts
  <2>5. \/ fate' = Settle(fate, all, "discarded")
        \/ fate' = Settle(told, {Head(Surfaced(Swept))}, "pending")
        \/ fate' = fate
    BY DEF Drain
  <2> QED BY <2>1, <2>4, <2>5 DEF IInv, TypeOK
<1>6. pc' \in {"drainStart", "select"} /\ arm' \in {"none", arm}
  BY DEF Drain
<1>7. UNCHANGED <<cur, stranded, cancel, starterVars, turnVars, waitVars,
        goalVars, suppressed, running, marked, rewindable, pin,
        interjections, active, completions, terminals>>
  BY DEF Drain
<1>8. TypeOK'
  BY <1>1, <1>2, <1>3, <1>4, <1>5, <1>6, <1>7 DEF IInv, TypeOK, starterVars,
    turnVars, waitVars, goalVars
<1>9. FrontIsRunning' /\ FlushHasText'
  BY <1>1, <1>2, <1>3, <1>4, <1>5, <1>6, <1>7 DEF IInv, FrontIsRunning,
    FlushHasText, Drain
<1> QED BY <1>8, <1>9 DEF IInv

(* A drained batch starts.                                                 *)
LEMMA DrainStartStep ==
  ASSUME IInv, DrainStart
  PROVE  IInv'
<1>1. /\ running' \in Maybe /\ pin' \in Maybe /\ rewindable' \in BOOLEAN
      /\ live' \subseteq Prompts /\ spawned' \subseteq Prompts
      /\ pc # "stopped" /\ running' # NoPrompt => IsFront(queue, running')
  BY MaybeStartSafe DEF DrainStart, IInv
<1>2. pc' \in {"select", "drain"} /\ arm' \in {"none", "completion"}
  BY DEF DrainStart
<1>3. UNCHANGED <<cur, stranded, cancel, starterVars, begun, aborted,
        waitVars, goalVars, noticeVars, queue, marked, interjections, active,
        completions, fate, terminals>>
  BY DEF DrainStart
<1>4. TypeOK'
  BY <1>1, <1>2, <1>3 DEF IInv, TypeOK, starterVars, waitVars, goalVars,
    noticeVars
<1>5. FrontIsRunning' /\ FlushHasText'
  BY <1>1, <1>2, <1>3 DEF IInv, FrontIsRunning, FlushHasText, DrainStart
<1> QED BY <1>4, <1>5 DEF IInv

(* A completion is received.                                               *)
LEMMA CompleteStep ==
  ASSUME IInv, Complete
  PROVE  IInv'
<1>1. /\ cur' \in [id : Maybe, ok : BOOLEAN]
      /\ completions' \in Seq([id : Maybe, ok : BOOLEAN])
  BY HeadTail DEF IInv, TypeOK, Complete
<1>2. pin' \in Maybe
  BY SortFacts DEF IInv, TypeOK, Complete, Clear
<1>3. goalGate' \in BOOLEAN
  BY DEF Complete, GateAfter
<1>4. pc' = "complete" /\ arm' = "completion"
  BY DEF Complete
<1>5. UNCHANGED <<stranded, cancel, starterVars, turnVars, waitVars, goal,
        noticeVars, running, queue, marked, rewindable, interjections,
        active, fate, terminals>>
  BY DEF Complete
<1>6. TypeOK'
  BY <1>1, <1>2, <1>3, <1>4, <1>5 DEF IInv, TypeOK, starterVars, turnVars,
    waitVars, noticeVars
<1>7. FrontIsRunning' /\ FlushHasText'
  BY <1>1, <1>2, <1>3, <1>4, <1>5 DEF IInv, FrontIsRunning, FlushHasText,
    Complete
<1> QED BY <1>6, <1>7 DEF IInv

(* A completion pops the front it owns, else it leaves the queue alone.    *)
LEMMA CompleteLockStep ==
  ASSUME IInv, CompleteLock
  PROVE  IInv'
<1>1. queue' \in Seen /\ marked' \subseteq Prompts
  BY DEF IInv, TypeOK, CompleteLock, Owned, IsFront, Seen
<1>2. /\ running' \in Maybe
      /\ running' # NoPrompt => running' = running /\ queue' = queue
  BY SortFacts DEF IInv, TypeOK, CompleteLock, Clear
<1>3. fate' \in [Prompts -> Fates]
  BY FatesFacts DEF IInv, TypeOK, CompleteLock
<1>4. terminals' \in [Prompts -> Nat]
  <2>1. CASE Owned
    <3>1. cur.id \in Prompts
      BY <2>1 DEF IInv, TypeOK, Owned, IsFront, Seen
    <3> QED BY <2>1, <3>1 DEF IInv, TypeOK, CompleteLock
  <2>2. CASE ~Owned
    BY <2>2 DEF IInv, TypeOK, CompleteLock
  <2> QED BY <2>1, <2>2
<1>5. rewindable' \in BOOLEAN /\ pc' = "turnEnd"
  BY DEF CompleteLock
<1>6. UNCHANGED <<arm, cur, stranded, cancel, starterVars, turnVars,
        waitVars, goalVars, noticeVars, pin, interjections, active,
        completions>>
  BY DEF CompleteLock
<1>7. TypeOK'
  BY <1>1, <1>2, <1>3, <1>4, <1>5, <1>6 DEF IInv, TypeOK, starterVars,
    turnVars, waitVars, goalVars, noticeVars
<1>8. FrontIsRunning' /\ FlushHasText'
  BY <1>1, <1>2, <1>3, <1>4, <1>5, <1>6 DEF IInv, FrontIsRunning,
    FlushHasText, CompleteLock
<1> QED BY <1>7, <1>8 DEF IInv

(* The rest of the completion arm queues at the back only.                 *)
LEMMA TurnEndArmStep ==
  ASSUME IInv, TurnEndArm
  PROVE  IInv'
<1>1. notices' \in Seen /\ buffer' \in Seen /\ interjections' \in Seen
  BY DEF IInv, TypeOK, TurnEndArm, Swept, Seen
<1>2. queue' \in Seen /\ (IsFront(queue, running) => IsFront(queue', running))
  <2>1. ASSUME NEW g \in Goal, queue' = Append(queue, g)
        PROVE  queue' \in Seen /\ (IsFront(queue, running) => IsFront(queue', running))
    <3>1. queue \in Seq(Prompts) /\ g \in Prompts
      BY SortFacts DEF IInv, TypeOK, Seen
    <3>2. Append(queue, g) \in Seq(Prompts)
      BY <3>1
    <3>3. queue # <<>> => Append(queue, g) # <<>> /\ Head(Append(queue, g)) = Head(queue)
      BY <3>1
    <3> QED BY <2>1, <3>2, <3>3 DEF Seen, IsFront
  <2> QED BY <2>1 DEF IInv, TypeOK, TurnEndArm
<1>3. fate' \in [Prompts -> Fates]
  BY FatesFacts DEF IInv, TypeOK, TurnEndArm
<1>4. goal' \in {"none", "active", "paused", "complete"}
  BY DEF IInv, TypeOK, TurnEndArm
<1>5. stranded' \in Seen /\ cur' \in [id : Maybe, ok : BOOLEAN]
  BY SortFacts DEF IInv, TypeOK, TurnEndArm, NoCompletion
<1>6. pc' \in {"start", "flush"} /\ (pc' = "flush" => stranded' # <<>>)
  BY DEF TurnEndArm
<1>7. UNCHANGED <<arm, cancel, starterVars, turnVars, waitVars, goalGate,
        suppressed, running, marked, rewindable, pin, active, completions,
        terminals>>
  BY DEF TurnEndArm
<1>8. TypeOK'
  BY <1>1, <1>2, <1>3, <1>4, <1>5, <1>6, <1>7 DEF IInv, TypeOK, starterVars,
    turnVars, waitVars
<1>9. FrontIsRunning' /\ FlushHasText'
  BY <1>1, <1>2, <1>3, <1>4, <1>5, <1>6, <1>7 DEF IInv, FrontIsRunning,
    FlushHasText, TurnEndArm
<1> QED BY <1>8, <1>9 DEF IInv

----------------------------------------------------------------------------
(* The turn task.                                                          *)

(* A turn task enters handle_prompt.                                       *)
LEMMA TurnBeginStep ==
  ASSUME IInv, NEW p \in Prompts, TurnBegin(p)
  PROVE  IInv'
<1>1. begun' \subseteq Prompts /\ active' \in BOOLEAN
  BY DEF IInv, TypeOK, TurnBegin
<1>2. UNCHANGED <<loopVars, starterVars, live, aborted, spawned, waitVars,
        goalVars, noticeVars, running, queue, marked, rewindable, pin,
        interjections, completions, fate, terminals>>
  BY DEF TurnBegin
<1>3. TypeOK'
  BY <1>1, <1>2 DEF IInv, TypeOK, loopVars, starterVars, waitVars, goalVars,
    noticeVars
<1>4. FrontIsRunning' /\ FlushHasText'
  BY <1>1, <1>2 DEF IInv, FrontIsRunning, FlushHasText, TurnBegin, loopVars
<1> QED BY <1>3, <1>4 DEF IInv

(* An outbound update closes the rewind window.                            *)
LEMMA TurnEmitStep ==
  ASSUME IInv, NEW p \in Prompts, TurnEmit(p)
  PROVE  IInv'
<1>1. rewindable' \in BOOLEAN
  BY DEF TurnEmit
<1>2. UNCHANGED <<loopVars, starterVars, turnVars, waitVars, goalVars,
        noticeVars, running, queue, marked, pin, interjections, active,
        completions, fate, terminals>>
  BY DEF TurnEmit
<1>3. TypeOK'
  BY <1>1, <1>2 DEF IInv, TypeOK, loopVars, starterVars, turnVars, waitVars,
    goalVars, noticeVars
<1>4. FrontIsRunning' /\ FlushHasText'
  BY <1>1, <1>2 DEF IInv, FrontIsRunning, FlushHasText, TurnEmit, loopVars
<1> QED BY <1>3, <1>4 DEF IInv

(* A turn merges what is buffered for it.                                  *)
LEMMA TurnMergeStep ==
  ASSUME IInv, NEW p \in Prompts, TurnMerge(p)
  PROVE  IInv'
<1>1. fate' \in [Prompts -> Fates]
  BY SettleType, FatesFacts DEF IInv, TypeOK, TurnMerge
<1>2. interjections' \in Seen /\ buffer' \in Seen
  BY DEF TurnMerge, Seen
<1>3. UNCHANGED <<loopVars, starterVars, turnVars, waitVars, goalVars,
        suppressed, notices, running, queue, marked, rewindable, pin, active,
        completions, terminals>>
  BY DEF TurnMerge
<1>4. TypeOK'
  BY <1>1, <1>2, <1>3 DEF IInv, TypeOK, loopVars, starterVars, turnVars,
    waitVars, goalVars
<1>5. FrontIsRunning' /\ FlushHasText'
  BY <1>1, <1>2, <1>3 DEF IInv, FrontIsRunning, FlushHasText, TurnMerge,
    loopVars
<1> QED BY <1>4, <1>5 DEF IInv

(* A turn blocks in a wait tool.                                           *)
LEMMA TurnWaitStep ==
  ASSUME IInv, NEW p \in Prompts, TurnWait(p)
  PROVE  IInv'
<1>1. waits' \subseteq Prompts /\ depth' \in Nat
  BY DEF IInv, TypeOK, TurnWait
<1>2. UNCHANGED <<loopVars, starterVars, turnVars, goalVars, noticeVars,
        running, queue, marked, rewindable, pin, interjections, active,
        completions, fate, terminals>>
  BY DEF TurnWait
<1>3. TypeOK'
  BY <1>1, <1>2 DEF IInv, TypeOK, loopVars, starterVars, turnVars, goalVars,
    noticeVars
<1>4. FrontIsRunning' /\ FlushHasText'
  BY <1>1, <1>2 DEF IInv, FrontIsRunning, FlushHasText, TurnWait, loopVars
<1> QED BY <1>3, <1>4 DEF IInv

(* A wait guard is dropped.                                                *)
LEMMA DropGuardStep ==
  ASSUME IInv, NEW p \in Prompts, DropGuard(p)
  PROVE  IInv'
<1>1. waits' \subseteq Prompts /\ depth' \in Nat
  BY DEF IInv, TypeOK, DropGuard, Lowered
<1>2. UNCHANGED <<loopVars, starterVars, turnVars, goalVars, noticeVars,
        running, queue, marked, rewindable, pin, interjections, active,
        completions, fate, terminals>>
  BY DEF DropGuard
<1>3. TypeOK'
  BY <1>1, <1>2 DEF IInv, TypeOK, loopVars, starterVars, turnVars, goalVars,
    noticeVars
<1>4. FrontIsRunning' /\ FlushHasText'
  BY <1>1, <1>2 DEF IInv, FrontIsRunning, FlushHasText, DropGuard, loopVars
<1> QED BY <1>3, <1>4 DEF IInv

(* A turn that learned of a task's end drops its queued wake, never        *)
(* itself.                                                                 *)
LEMMA TurnConsumeStep ==
  ASSUME IInv, NEW p \in Prompts, NEW w \in Wake, TurnConsume(p, w)
  PROVE  IInv'
<1>1. queue' \in Seen /\ (IsFront(queue, running) => IsFront(queue', running))
  BY SweepSafe DEF IInv, TypeOK, TurnConsume, Seen
<1>2. notices' \in Seen
  BY KeepSeen DEF IInv, TypeOK, TurnConsume, FromOthers
<1>3. fate' \in [Prompts -> Fates]
  BY SettleType, FatesFacts DEF IInv, TypeOK, TurnConsume
<1>4. UNCHANGED <<loopVars, starterVars, turnVars, waitVars, goalVars,
        suppressed, buffer, running, marked, rewindable, pin, interjections,
        active, completions, terminals>>
  BY DEF TurnConsume
<1>5. TypeOK'
  BY <1>1, <1>2, <1>3, <1>4 DEF IInv, TypeOK, loopVars, starterVars,
    turnVars, waitVars, goalVars
<1>6. FrontIsRunning' /\ FlushHasText'
  BY <1>1, <1>2, <1>3, <1>4 DEF IInv, FrontIsRunning, FlushHasText,
    TurnConsume, loopVars
<1> QED BY <1>5, <1>6 DEF IInv

(* A turn changes the goal.                                                *)
LEMMA TurnGoalStep ==
  ASSUME IInv, NEW p \in Prompts,
         NEW status \in {"active", "complete", "none"}, TurnGoal(p, status)
  PROVE  IInv'
<1>1. goalGate' \in BOOLEAN /\ goal' \in {"none", "active", "paused", "complete"}
  BY DEF TurnGoal
<1>2. UNCHANGED <<loopVars, starterVars, turnVars, waitVars, noticeVars,
        running, queue, marked, rewindable, pin, interjections, active,
        completions, fate, terminals>>
  BY DEF TurnGoal
<1>3. TypeOK'
  BY <1>1, <1>2 DEF IInv, TypeOK, loopVars, starterVars, turnVars, waitVars,
    noticeVars
<1>4. FrontIsRunning' /\ FlushHasText'
  BY <1>1, <1>2 DEF IInv, FrontIsRunning, FlushHasText, TurnGoal, loopVars
<1> QED BY <1>3, <1>4 DEF IInv

(* A turn ends and reports.                                                *)
LEMMA TurnEndStep ==
  ASSUME IInv, NEW p \in Prompts, NEW ok \in BOOLEAN, TurnEnd(p, ok)
  PROVE  IInv'
<1>1. pin' \in Maybe
  BY SortFacts DEF IInv, TypeOK, TurnEnd, Clear
<1>2. completions' \in Seq([id : Maybe, ok : BOOLEAN])
  <2>1. [id |-> p, ok |-> ok] \in [id : Maybe, ok : BOOLEAN]
    BY SortFacts
  <2> QED BY <2>1 DEF IInv, TypeOK, TurnEnd
<1>3. live' \subseteq Prompts /\ begun' \subseteq Prompts /\ active' \in BOOLEAN
  BY DEF IInv, TypeOK, TurnEnd
<1>4. UNCHANGED <<loopVars, starterVars, aborted, spawned, waitVars,
        goalVars, noticeVars, running, queue, marked, rewindable,
        interjections, fate, terminals>>
  BY DEF TurnEnd
<1>5. TypeOK'
  BY <1>1, <1>2, <1>3, <1>4 DEF IInv, TypeOK, loopVars, starterVars,
    waitVars, goalVars, noticeVars
<1>6. FrontIsRunning' /\ FlushHasText'
  BY <1>1, <1>2, <1>3, <1>4 DEF IInv, FrontIsRunning, FlushHasText, TurnEnd,
    loopVars
<1> QED BY <1>5, <1>6 DEF IInv

(* The future of an aborted turn is dropped.                               *)
LEMMA ReapStep ==
  ASSUME IInv, NEW p \in Prompts, Reap(p)
  PROVE  IInv'
<1>1. pin' \in Maybe
  BY SortFacts DEF IInv, TypeOK, Reap, Clear
<1>2. aborted' \subseteq Prompts /\ begun' \subseteq Prompts /\ active' \in BOOLEAN
  BY DEF IInv, TypeOK, Reap
<1>3. UNCHANGED <<loopVars, starterVars, live, spawned, waitVars, goalVars,
        noticeVars, running, queue, marked, rewindable, interjections,
        completions, fate, terminals>>
  BY DEF Reap
<1>4. TypeOK'
  BY <1>1, <1>2, <1>3 DEF IInv, TypeOK, loopVars, starterVars, waitVars,
    goalVars, noticeVars
<1>5. FrontIsRunning' /\ FlushHasText'
  BY <1>1, <1>2, <1>3 DEF IInv, FrontIsRunning, FlushHasText, Reap, loopVars
<1> QED BY <1>4, <1>5 DEF IInv

----------------------------------------------------------------------------
(* The tasks that start a turn behind the run loop's back.                 *)

(* MCP initialisation starts the front prompt.                             *)
LEMMA McpReadyStep ==
  ASSUME IInv, McpReady
  PROVE  IInv'
<1>1. /\ running' \in Maybe /\ pin' \in Maybe /\ rewindable' \in BOOLEAN
      /\ live' \subseteq Prompts /\ spawned' \subseteq Prompts
      /\ pc # "stopped" /\ running' # NoPrompt => IsFront(queue, running')
  BY MaybeStartSafe DEF McpReady, IInv
<1>2. mcp' \in {"initialising", "done"}
  BY DEF McpReady
<1>3. UNCHANGED <<loopVars, resuming, begun, aborted, waitVars, goalVars,
        noticeVars, queue, marked, interjections, active, completions, fate,
        terminals>>
  BY DEF McpReady
<1>4. TypeOK'
  BY <1>1, <1>2, <1>3 DEF IInv, TypeOK, loopVars, waitVars, goalVars,
    noticeVars
<1>5. FrontIsRunning' /\ FlushHasText'
  BY <1>1, <1>2, <1>3 DEF IInv, FrontIsRunning, FlushHasText, McpReady,
    loopVars
<1> QED BY <1>4, <1>5 DEF IInv

(* A resumed plan approval queues its prompt.                              *)
LEMMA PlanQueueStep ==
  ASSUME IInv, NEW r \in Plan, PlanQueue(r)
  PROVE  IInv'
<1>1. /\ queue' \in Seen /\ marked' \subseteq Prompts /\ fate' \in [Prompts -> Fates]
      /\ IsFront(queue, running) => IsFront(queue', running)
  BY QueueInputSafe, SortFacts DEF IInv, PlanQueue
<1>2. resuming' \in Maybe
  BY SortFacts DEF PlanQueue
<1>3. UNCHANGED <<loopVars, mcp, turnVars, waitVars, goalVars, noticeVars,
        running, rewindable, pin, interjections, active, completions,
        terminals>>
  BY DEF PlanQueue
<1>4. TypeOK'
  BY <1>1, <1>2, <1>3 DEF IInv, TypeOK, loopVars, turnVars, waitVars,
    goalVars, noticeVars
<1>5. FrontIsRunning' /\ FlushHasText'
  BY <1>1, <1>2, <1>3 DEF IInv, FrontIsRunning, FlushHasText, PlanQueue,
    loopVars
<1> QED BY <1>4, <1>5 DEF IInv

(* A resumed plan approval starts its turn.                                *)
LEMMA PlanStartStep ==
  ASSUME IInv, PlanStart
  PROVE  IInv'
<1>1. /\ running' \in Maybe /\ pin' \in Maybe /\ rewindable' \in BOOLEAN
      /\ live' \subseteq Prompts /\ spawned' \subseteq Prompts
      /\ pc # "stopped" /\ running' # NoPrompt => IsFront(queue, running')
  BY MaybeStartSafe DEF PlanStart, IInv
<1>2. resuming' \in Maybe
  BY SortFacts DEF PlanStart
<1>3. UNCHANGED <<loopVars, mcp, begun, aborted, waitVars, goalVars,
        noticeVars, queue, marked, interjections, active, completions, fate,
        terminals>>
  BY DEF PlanStart
<1>4. TypeOK'
  BY <1>1, <1>2, <1>3 DEF IInv, TypeOK, loopVars, waitVars, goalVars,
    noticeVars
<1>5. FrontIsRunning' /\ FlushHasText'
  BY <1>1, <1>2, <1>3 DEF IInv, FrontIsRunning, FlushHasText, PlanStart,
    loopVars
<1> QED BY <1>4, <1>5 DEF IInv

----------------------------------------------------------------------------
(* Every command a client or another task sends keeps the invariant.       *)
LEMMA CommandStep ==
  ASSUME IInv, Command
  PROVE  IInv'
<1>1. ASSUME NEW p \in Client \cup Wake \cup Goal, NEW asked \in BOOLEAN,
             Prompt(p, asked)
      PROVE  IInv'
  BY <1>1, SortFacts, PromptStep
<1>2. ASSUME NEW p \in Client, InterjectQueued(p) \/ RemoveQueued(p)
      PROVE  IInv'
  BY <1>2, SortFacts, InterjectQueuedStep, RemoveQueuedStep
<1>3. ASSUME NEW order \in Orders, Reorder(order)  PROVE IInv'
  BY <1>3, ReorderStep
<1>4. ASSUME NEW o \in Owners \cup {AnyOwner}, ClearQueue(o)  PROVE IInv'
  BY <1>4, ClearQueueStep
<1>5. ASSUME NEW i \in Fallback, Interject(i)  PROVE IInv'
  BY <1>5, InterjectStep
<1>6. ASSUME NEW g \in Goal, GoalSummaryTurn(g)  PROVE IInv'
  BY <1>6, GoalSummaryTurnStep
<1>7. ASSUME NEW n \in Notice, NEW urgent \in BOOLEAN,
             InjectNotification(n, urgent)
      PROVE  IInv'
  BY <1>7, InjectNotificationStep
<1>8. ASSUME NEW w \in Wake, DropMonitorNotifications(w)  PROVE IInv'
  BY <1>8, DropMonitorNotificationsStep
<1>9. ASSUME NEW kind \in Cancels, Cancel(kind)  PROVE IInv'
  BY <1>9, CancelStep
<1>10. ASSUME NEW closed \in BOOLEAN, Shutdown(closed)  PROVE IInv'
  BY <1>10, ShutdownStep
<1> QED BY <1>1, <1>2, <1>3, <1>4, <1>5, <1>6, <1>7, <1>8, <1>9, <1>10
        DEF Command

(* Every step inside an arm of the run loop keeps the invariant.           *)
LEMMA RunLoopStepStep ==
  ASSUME IInv, RunLoopStep
  PROVE  IInv'
BY CompleteStep, CompleteLockStep, TurnEndArmStep, FlushStep, StartStep,
   CancelLockStep, CancelGateStep, CancelAbortStep, CancelFinishStep, DrainStep,
   DrainStartStep
   DEF RunLoopStep

(* Every step of a turn task keeps the invariant.                          *)
LEMMA TurnStepStep ==
  ASSUME IInv, NEW p \in Prompts, TurnStep(p)
  PROVE  IInv'
<1>1. ASSUME NEW w \in Wake, TurnConsume(p, w)  PROVE IInv'
  BY <1>1, TurnConsumeStep
<1>2. ASSUME NEW status \in {"active", "complete", "none"}, TurnGoal(p, status)
      PROVE  IInv'
  BY <1>2, TurnGoalStep
<1>3. ASSUME NEW ok \in BOOLEAN, TurnEnd(p, ok)  PROVE IInv'
  BY <1>3, TurnEndStep
<1> QED BY <1>1, <1>2, <1>3, TurnBeginStep, TurnEmitStep, TurnMergeStep,
           TurnWaitStep, DropGuardStep, ReapStep DEF TurnStep

(* The tasks that start a turn behind the run loop's back keep it as well. *)
LEMMA StarterStep ==
  ASSUME IInv, Starter
  PROVE  IInv'
BY McpReadyStep, PlanQueueStep, PlanStartStep DEF Starter

(* Every step of the session keeps the invariant.                          *)
LEMMA NextInv ==
  ASSUME IInv, [Next]_vars
  PROVE  IInv'
<1>1. CASE Next
  BY <1>1, CommandStep, RunLoopStepStep, TurnStepStep, StarterStep DEF Next
<1>2. CASE UNCHANGED vars
  BY <1>2 DEF vars, loopVars, starterVars, turnVars, waitVars, goalVars,
     noticeVars, IInv, TypeOK, FrontIsRunning, FlushHasText
<1> QED BY <1>1, <1>2

(* IInv holds in every reachable state of every session.                   *)
THEOREM Invariance == Spec => []IInv
BY InitInv, NextInv, PTL DEF Spec

(* Every variable of the scheduler keeps its type.                         *)
THEOREM TypeCorrect == Spec => []TypeOK
<1>1. IInv => TypeOK
  BY DEF IInv
<1> QED BY <1>1, Invariance, PTL

(* The prompt of the running turn is the front of the queue, in every      *)
(* interleaving of commands, completions, cancels and starting tasks.      *)
THEOREM RunningIsFront == Spec => []FrontIsRunning
<1>1. IInv => FrontIsRunning
  BY DEF IInv
<1> QED BY <1>1, Invariance, PTL

----------------------------------------------------------------------------
(* II. The books.                                                          *)

----------------------------------------------------------------------------
(* Facts about the data.                                                   *)

(* An interjection is no notice.                                           *)
LEMMA TextsAreNoNotices == Fallback \cap Notice = {}
<1> DEFINE sorts == <<Client, Fallback, Wake, Notice, Goal, Plan>>
<1>1. \A i, j \in 1..6 : i # j => sorts[i] \cap sorts[j] = {}
  BY SortsDisjoint, Zenon
<1>2. 2 \in 1..6 /\ 4 \in 1..6 /\ 2 # 4
  OBVIOUS
<1>3. sorts[2] \cap sorts[4] = {}
  BY <1>1, <1>2, Zenon
<1> QED BY <1>3

(* A capped push keeps what it pushed, and adds nothing else.              *)
LEMMA PushCappedContents ==
  ASSUME NEW s \in Seen, NEW n \in Prompts
  PROVE  /\ n \in ToSet(PushCapped(s, n))
         /\ ToSet(PushCapped(s, n)) \subseteq ToSet(s) \cup {n}
<1> DEFINE t == Append(s, n)
           m == Len(t) - Cap + 1
<1>1. /\ t \in Seq(Prompts) /\ Len(t) \in Nat /\ Len(t) >= 1
      /\ t[Len(t)] = n /\ DOMAIN t = 1..Len(t)
  BY DEF Seen
<1>2. ToSet(t) = ToSet(s) \cup {n}
  BY AppendContents DEF Seen
<1>3. CASE ~(Len(t) > Cap)
  BY <1>2, <1>3 DEF PushCapped
<1>4. CASE Len(t) > Cap
  <2>1. Cap \in Nat /\ Cap >= 1 /\ m \in Int /\ 1 <= m /\ m <= Len(t)
    BY <1>1, <1>4, CapAssumption
  <2> HIDE DEF t
  <2>2. \A i \in m..Len(t) : t[i] \in Prompts
    BY <1>1, <2>1
  <2> DEFINE u == SubSeq(t, m, Len(t))
  <2>3. /\ u \in Seq(Prompts)
        /\ Len(u) = Len(t) - m + 1
        /\ \A i \in 1..(Len(t) - m + 1) : u[i] = t[m + i - 1]
    BY <1>1, <2>1, <2>2, SubSeqProperties
  <2> HIDE DEF u, m
  <2>4. DOMAIN u = 1..(Len(t) - m + 1)
    BY <2>3
  <2>5. ASSUME NEW i \in DOMAIN u  PROVE u[i] \in ToSet(t)
    <3>1. m + i - 1 \in DOMAIN t
      BY <1>1, <2>1, <2>4
    <3> QED BY <2>3, <2>4, <3>1 DEF ToSet
  <2>6. n \in ToSet(u)
    <3>1. Len(t) - m + 1 \in 1..(Len(t) - m + 1) /\ m + (Len(t) - m + 1) - 1 = Len(t)
      BY <1>1, <2>1
    <3> QED BY <1>1, <2>3, <2>4, <3>1 DEF ToSet
  <2>7. ToSet(u) \subseteq ToSet(t)
    BY <2>5 DEF ToSet
  <2> QED BY <1>2, <1>4, <2>6, <2>7 DEF PushCapped, u, m, t
<1> QED BY <1>3, <1>4

(* The last element and the rest.                                          *)
LEMMA LastContents ==
  ASSUME NEW s \in Seen, s # <<>>
  PROVE  /\ ToSet(s) = ToSet(Front(s)) \cup {Last(s)}
         /\ IsInjective(s) => IsInjective(Front(s)) /\ Last(s) \notin ToSet(Front(s))
<1>1. PICK u \in Seq(Prompts), e \in Prompts : s = Append(u, e)
  BY SequenceEmptyOrAppend DEF Seen
<1>2. Len(u) \in Nat /\ Len(s) = Len(u) + 1 /\ s[Len(s)] = e
  BY <1>1
<1>3. Front(s) = u
  <2>1. \A i \in 1..Len(u) : s[i] = u[i] /\ s[i] \in Prompts
    BY <1>1
  <2>2. /\ SubSeq(s, 1, Len(u)) \in Seq(Prompts)
        /\ Len(SubSeq(s, 1, Len(u))) = Len(u)
        /\ \A i \in 1..Len(u) : SubSeq(s, 1, Len(u))[i] = s[i]
    BY <1>2, <2>1
  <2>3. SubSeq(s, 1, Len(u)) = u
    BY <2>1, <2>2, SeqEqual
  <2> QED BY <1>2, <2>3 DEF Front
<1>4. Last(s) = e
  BY <1>2 DEF Last
<1> DEFINE one == <<e>>
<1>5. s = u \o one /\ one \in Seq(Prompts)
  BY <1>1, AppendIsConcat
<1>6. ToSet(one) = {e}
  BY SingleContents
<1> HIDE DEF one
<1>7. /\ ToSet(u \o one) = ToSet(u) \cup ToSet(one)
      /\ IsInjective(u \o one) => IsInjective(u) /\ ToSet(u) \cap ToSet(one) = {}
  BY <1>5, ConcatContents
<1> QED BY <1>3, <1>4, <1>5, <1>6, <1>7

(* The front of a sequence of one is empty.                                *)
LEMMA FrontOfOne ==
  ASSUME NEW s \in Seen, Len(s) = 1
  PROVE  Front(s) = <<>>
<1>1. SubSeq(s, 1, Len(s) - 1) = <<>>
  BY SubSeqEmpty
<1> QED BY <1>1 DEF Front

(* A cancel that is not under way holds nothing.                           *)
LEMMA NoCancelFacts ==
  /\ NoCancel.task = NoPrompt /\ NoCancel.resolved = <<>> /\ ~NoCancel.rewound
  /\ NoCancel.pinned = NoPrompt
BY DEF NoCancel

(* The answers and what is none.                                           *)
LEMMA AnswerFacts ==
  /\ Answers = {"done", "cancelled", "rewound", "removed", "dropped"}
  /\ "pending" \notin Answers /\ "new" \notin Answers /\ "buffered" \notin Answers
BY DEF Answers

----------------------------------------------------------------------------
(* The variables the books are about.                                      *)
ledgerVars == <<pc, cur, cancel, running, queue, fate, interjections, stranded,
                notices, buffer, spawned, live, completions, pin, terminals>>

(* The books are balanced at first.                                        *)
LEMMA InitLedger == Init => Ledger
<1> SUFFICES ASSUME Init PROVE Ledger
  OBVIOUS
<1>1. ToSet(<<>>) = {} /\ IsInjective(<<>>)
  BY EmptyContents
<1>2. PromptsHeld /\ TextsHeld /\ NoticesHeld
  BY <1>1, NoCancelFacts, SortFacts
     DEF Init, PromptsHeld, TextsHeld, NoticesHeld, Cancelling
<1>3. SpawnedOnce /\ TurnReports /\ CancelSound /\ PinSound /\ TerminalOnce
  BY <1>1, NoCancelFacts
     DEF Init, SpawnedOnce, TurnReports, CancelSound, PinSound, TerminalOnce,
         Cancelling
<1> QED BY <1>2, <1>3 DEF Ledger

(* Steps beside the books.                                                 *)
LEMMA BesideLedger ==
  ASSUME Ledger, UNCHANGED ledgerVars
  PROVE  Ledger'
<1>1. (PromptsHeld /\ TextsHeld /\ NoticesHeld)'
  BY DEF Ledger, ledgerVars, PromptsHeld, TextsHeld, NoticesHeld
<1>2. (SpawnedOnce /\ TurnReports /\ CancelSound /\ PinSound /\ TerminalOnce)'
  BY DEF Ledger, ledgerVars, SpawnedOnce, TurnReports, CancelSound, PinSound,
         TerminalOnce
<1> QED BY <1>1, <1>2 DEF Ledger

(* maybe_start_running_task spawns a turn that was never spawned before.   *)
LEMMA StartLedger ==
  ASSUME IInv, Ledger, MaybeStart, pc # "stopped",
         \/ pc' = pc
         \/ pc \in {"start", "drainStart"} /\ pc' \in {"select", "drain"},
         UNCHANGED <<cur, cancel, queue, fate, interjections, stranded,
                     notices, buffer, completions, terminals>>
  PROVE  Ledger'
<1>1. CASE ~CanStart
  <2>1. UNCHANGED <<running, pin, live, spawned>>
    BY <1>1 DEF MaybeStart
  <2>2. (PromptsHeld /\ TextsHeld /\ NoticesHeld)'
    BY <2>1 DEF Ledger, PromptsHeld, TextsHeld, NoticesHeld, Cancelling
  <2>3. (SpawnedOnce /\ TurnReports)'
    BY <2>1 DEF Ledger, SpawnedOnce, TurnReports
  <2>4. (CancelSound /\ PinSound /\ TerminalOnce)'
    BY <2>1 DEF Ledger, CancelSound, PinSound, TerminalOnce, Cancelling
  <2> QED BY <2>2, <2>3, <2>4 DEF Ledger
<1>2. CASE CanStart
  <2> DEFINE h == Head(queue)
  <2>1. running = NoPrompt /\ h \in ToSet(queue) /\ h \in Prompts
    BY <1>2, SomeContents, HeadTail DEF CanStart, IInv, TypeOK, Seen
  <2>2. /\ running' = h /\ pin' = h
        /\ live' = live \cup {h} /\ spawned' = spawned \cup {h}
    BY <1>2 DEF MaybeStart
  <2> HIDE DEF h
  <2>3. h # NoPrompt /\ h \notin spawned /\ fate[h] = "pending"
        /\ h \notin ToSet(cancel.resolved)
    BY <2>1, SortFacts DEF Ledger, SpawnedOnce, PromptsHeld
  <2>4. live \subseteq {cancel.task} /\ live \subseteq spawned
    BY <2>1, SortFacts DEF Ledger, SpawnedOnce, IInv, TypeOK
  <2>5. (PromptsHeld /\ TextsHeld /\ NoticesHeld)'
    BY <2>2, <2>3 DEF Ledger, PromptsHeld, TextsHeld, NoticesHeld, Cancelling
  <2>6. SpawnedOnce'
    <3>1. ToSet(queue) \cap spawned = {}
      BY <2>1, SortFacts DEF Ledger, SpawnedOnce, IInv, TypeOK
    <3>2. \A p \in spawned' : fate'[p] \in Answers \cup {"pending"}
      BY <2>2, <2>3 DEF Ledger, SpawnedOnce
    <3>3. /\ ToSet(queue') \cap spawned' \subseteq {running'} /\ running' \in spawned'
          /\ live' \subseteq spawned' \cap {running', (cancel.task)'}
      BY <2>2, <2>4, <3>1
    <3>4. \A c \in ToSet(completions') : c.id \in spawned' \ live'
      BY <2>2, <2>3 DEF Ledger, SpawnedOnce
    <3>5. pc' = "complete" => (cur.id)' \in spawned' \ live'
      BY <2>2, <2>3 DEF Ledger, SpawnedOnce
    <3> QED BY <3>2, <3>3, <3>4, <3>5 DEF SpawnedOnce
  <2>7. TurnReports'
    BY <2>2 DEF TurnReports
  <2>8. CancelSound'
    BY <2>1, <2>2, <2>3 DEF Ledger, CancelSound, Cancelling
  <2>9. PinSound'
    BY <2>2, <2>3 DEF Ledger, PinSound, SpawnedOnce
  <2>10. TerminalOnce'
    BY <2>2, <2>3 DEF Ledger, TerminalOnce
  <2> QED BY <2>5, <2>6, <2>7, <2>8, <2>9, <2>10 DEF Ledger
<1> QED BY <1>1, <1>2

----------------------------------------------------------------------------
(* Commands.                                                               *)

(* queue_input holds the new prompt, and drops the preempted ones.         *)
LEMMA QueueInputLedger ==
  ASSUME IInv, Ledger, pc # "stopped", NEW p \in Prompts, fate[p] = "new",
         NEW asked \in BOOLEAN, QueueInput(p, asked)
  PROVE  LET kept == ToSet(Remaining(p))
             lost == IF CancelsTurn(p, asked) THEN ToSet(interjections) ELSE {}
         IN  /\ kept \subseteq ToSet(queue)
             /\ running \in ToSet(queue) => running \in kept
             /\ ToSet(queue') = kept \cup {p} /\ IsInjective(queue')
             /\ fate' = [x \in Prompts |->
                           IF x = p THEN "pending"
                           ELSE IF x \in lost THEN "discarded"
                           ELSE IF x \in ToSet(queue) \ kept THEN "dropped"
                           ELSE fate[x]]
<1> DEFINE q == Remaining(p)
<1>1. queue \in Seq(Prompts) /\ IsInjective(queue) /\ p \notin ToSet(queue)
  BY DEF IInv, TypeOK, Seen, Ledger, PromptsHeld
<1>2. /\ q \in Seq(Prompts) /\ IsInjective(q) /\ ToSet(q) \subseteq ToSet(queue)
      /\ running \in ToSet(queue) => running \in ToSet(q)
  <2>1. CASE Preempts(p)
    BY <1>1, <2>1, SweepSafe, SweepContents DEF Remaining
  <2>2. CASE ~Preempts(p)
    BY <1>1, <2>2 DEF Remaining
  <2> QED BY <2>1, <2>2
<1>3. p \notin ToSet(q)
  BY <1>1, <1>2
<1>4. ToSet(queue') = ToSet(q) \cup {p} /\ IsInjective(queue')
  <2>1. CASE SendsNow(p, asked)
    <3>1. queue' = InsertSendNow(q, running, marked, p)
      BY <2>1 DEF QueueInput
    <3> HIDE DEF q
    <3> QED BY <1>2, <1>3, <3>1, InsertSendNowContents
  <2>2. CASE ~SendsNow(p, asked)
    <3>1. queue' = Append(q, p)
      BY <2>2 DEF QueueInput
    <3> HIDE DEF q
    <3> QED BY <1>2, <1>3, <3>1, AppendContents
  <2> QED BY <2>1, <2>2
<1>5. fate' = [x \in Prompts |->
                IF x = p THEN "pending"
                ELSE IF x \in (IF CancelsTurn(p, asked) THEN ToSet(interjections) ELSE {})
                  THEN "discarded"
                ELSE IF x \in ToSet(queue) \ ToSet(q) THEN "dropped"
                ELSE fate[x]]
  BY DEF QueueInput, Settle
<1> QED BY <1>2, <1>4, <1>5

(* Steps of commands, sweeps and flushes take nothing from the turns: the  *)
(* prompt of a turn is settled by none of them, and none queues it again.  *)
LEMMA BesideTurns ==
  ASSUME IInv, Ledger, pc # "stopped",
         \/ UNCHANGED <<pc, cur, cancel>>
         \/ /\ pc \notin Cancelling \cup {"complete"}
            /\ pc' \in {"select", "start", "flush", "drain", "drainStart", "turnEnd"}
            /\ UNCHANGED cancel
         \/ pc = "select" /\ \E kind : BeginCancel(kind),
         UNCHANGED <<running, spawned, live, completions, pin, terminals>>,
         \A p \in spawned : fate'[p] = fate[p],
         ToSet(queue') \cap spawned \subseteq {running}
  PROVE  (SpawnedOnce /\ TurnReports /\ CancelSound /\ PinSound /\ TerminalOnce)'
<1>1. (cancel.task)' = cancel.task
  BY NoCancelFacts DEF BeginCancel, Ledger, CancelSound, Cancelling, NoCancel
<1>2. SpawnedOnce'
  BY <1>1 DEF Ledger, SpawnedOnce, BeginCancel
<1>3. TurnReports'
  BY DEF Ledger, TurnReports, BeginCancel
<1>4. TerminalOnce'
  BY DEF Ledger, TerminalOnce
<1>5. PinSound'
  BY DEF Ledger, PinSound, BeginCancel, Cancelling
<1>6. CancelSound'
  <2>1. CASE UNCHANGED <<pc, cur, cancel>>
    BY <2>1 DEF Ledger, CancelSound
  <2>2. CASE /\ pc \notin Cancelling \cup {"complete"}
             /\ pc' \in {"select", "start", "flush", "drain", "drainStart", "turnEnd"}
             /\ UNCHANGED cancel
    BY <2>2, NoCancelFacts DEF Ledger, CancelSound, Cancelling
  <2>3. CASE pc = "select" /\ \E kind : BeginCancel(kind)
    <3>1. /\ pc' = "cancelLock" /\ (cancel.pinned)' = pin /\ (cancel.task)' = NoPrompt
          /\ (cancel.resolved)' = <<>> /\ ~(cancel.rewound)'
      BY <2>3 DEF BeginCancel, NoCancel
    <3>2. pin \in {NoPrompt, running}
      BY <2>3 DEF Ledger, PinSound
    <3> QED BY <3>1, <3>2, EmptyContents DEF CancelSound, Cancelling
  <2> QED BY <2>1, <2>2, <2>3
<1> QED BY <1>2, <1>3, <1>4, <1>5, <1>6

(* Outside a cancel and a flush the queue alone holds the pending prompts. *)
LEMMA OutsideFacts ==
  ASSUME Ledger, pc \notin Cancelling \cup {"flush", "stopped"}
  PROVE  /\ cancel = NoCancel /\ ToSet(cancel.resolved) = {} /\ cancel.task = NoPrompt
         /\ cancel.resolved = <<>> /\ IsInjective(cancel.resolved)
         /\ stranded = <<>> /\ ToSet(stranded) = {} /\ IsInjective(stranded)
         /\ IsInjective(queue)
         /\ \A p \in Prompts : fate[p] = "pending" <=> p \in ToSet(queue)
         /\ \A i \in Fallback : fate[i] = "buffered" <=> i \in ToSet(interjections)
<1>1. /\ cancel.resolved = <<>> /\ stranded = <<>> /\ cancel.task = NoPrompt
      /\ cancel = NoCancel
  BY NoCancelFacts DEF Ledger, CancelSound, TextsHeld
<1>2. /\ ToSet(cancel.resolved) = {} /\ ToSet(stranded) = {}
      /\ IsInjective(cancel.resolved) /\ IsInjective(stranded)
  BY <1>1, EmptyContents
<1> QED BY <1>1, <1>2 DEF Ledger, PromptsHeld, TextsHeld

(* Every spawned prompt that the queue still holds is the running one.     *)
LEMMA QueuedIsRunning ==
  ASSUME IInv, Ledger, pc # "stopped"
  PROVE  /\ ToSet(queue) \subseteq Prompts
         /\ \A p \in ToSet(queue) \cap spawned : p = running
         /\ running # NoPrompt => running \in ToSet(queue)
<1>1. running # NoPrompt => running \in ToSet(queue)
  BY SomeContents DEF IInv, TypeOK, FrontIsRunning, IsFront, Seen
<1> QED BY <1>1, SomeContents DEF IInv, TypeOK, Seen, Ledger, SpawnedOnce

(* A prompt is queued, and the running turn perhaps cancelled for it.      *)
LEMMA PromptLedger ==
  ASSUME IInv, Ledger, NEW p \in Client \cup Wake \cup Goal,
         NEW asked \in BOOLEAN, Prompt(p, asked)
  PROVE  Ledger'
<1> DEFINE kept == ToSet(Remaining(p))
           lost == IF CancelsTurn(p, asked) THEN ToSet(interjections) ELSE {}
<1>1. pc = "select" /\ p \in Prompts /\ fate[p] = "new" /\ QueueInput(p, asked)
  BY SortFacts DEF Prompt, Ready
<1>2. /\ kept \subseteq ToSet(queue) /\ (running \in ToSet(queue) => running \in kept)
      /\ ToSet(queue') = kept \cup {p} /\ IsInjective(queue')
      /\ fate' = [x \in Prompts |->
                    IF x = p THEN "pending"
                    ELSE IF x \in lost THEN "discarded"
                    ELSE IF x \in ToSet(queue) \ kept THEN "dropped"
                    ELSE fate[x]]
  BY <1>1, QueueInputLedger
<1>3. /\ UNCHANGED <<cur, stranded, notices, buffer, running, pin, spawned, live,
                     completions, terminals>>
      /\ \/ BeginCancel("send_now") /\ CancelsTurn(p, asked)
         \/ /\ ~CancelsTurn(p, asked) /\ pc' = "start"
            /\ UNCHANGED <<interjections, cancel>>
  BY DEF Prompt, turnVars
<1> HIDE DEF kept
<1>4. /\ ToSet(queue) \subseteq Prompts /\ \A x \in ToSet(queue) \cap spawned : x = running
      /\ p \notin ToSet(queue) /\ p \notin spawned
  BY <1>1, QueuedIsRunning, SortFacts, AnswerFacts DEF Ledger, PromptsHeld, SpawnedOnce
<1>5. /\ cancel = NoCancel /\ ToSet(cancel.resolved) = {} /\ ToSet(stranded) = {}
      /\ stranded = <<>>
      /\ \A x \in Prompts : fate[x] = "pending" <=> x \in ToSet(queue)
      /\ \A i \in Fallback : fate[i] = "buffered" <=> i \in ToSet(interjections)
  BY <1>1, OutsideFacts DEF Cancelling
<1>6. /\ (cancel.resolved)' = <<>> /\ ToSet((cancel.resolved)') = {}
      /\ IsInjective((cancel.resolved)')
      /\ \/ interjections' = interjections /\ lost = {}
         \/ /\ interjections' = <<>> /\ ToSet(interjections') = {}
            /\ lost = ToSet(interjections)
      /\ \/ pc' = "start"
         \/ pc' = "cancelLock" /\ interjections' = <<>>
  BY <1>3, <1>5, EmptyContents, NoCancelFacts DEF BeginCancel, NoCancel
<1> HIDE DEF lost
<1>7. lost \subseteq ToSet(interjections) /\ lost \subseteq Fallback
      /\ lost \cap ToSet(queue) = {} /\ lost \cap Notice = {}
      /\ \A x \in lost : x \in Prompts /\ fate[x] = "buffered"
  BY <1>5, SortFacts, TextsAreNoNotices DEF Ledger, TextsHeld, lost
<1>8. PromptsHeld'
  <2>1. \A x \in Prompts : fate'[x] = "pending" <=> x \in kept \cup {p}
    BY <1>2, <1>4, <1>5, <1>7
  <2> QED BY <1>2, <1>6, <2>1 DEF PromptsHeld
<1>9. TextsHeld'
  <2>1. \A i \in Fallback : fate'[i] = "buffered" <=> i \in ToSet(interjections')
    BY <1>1, <1>2, <1>5, <1>6, <1>7, SortFacts
  <2> QED BY <1>1, <1>3, <1>5, <1>6, <2>1, EmptyContents
          DEF Ledger, TextsHeld, Cancelling
<1>10. NoticesHeld'
  <2>1. \A n \in Notice : fate'[n] = "buffered" <=> fate[n] = "buffered"
    BY <1>1, <1>2, <1>5, <1>7, SortFacts
  <2> QED BY <1>3, <2>1 DEF Ledger, NoticesHeld
<1>11. (SpawnedOnce /\ TurnReports /\ CancelSound /\ PinSound /\ TerminalOnce)'
  <2>1. \A x \in spawned : fate'[x] = fate[x]
    <3>1. \A x \in spawned : x \in Prompts /\ x # p /\ x \notin lost
                             /\ x \notin ToSet(queue) \ kept
      <4> SUFFICES ASSUME NEW x \in spawned
                   PROVE  x \in Prompts /\ x # p /\ x \notin lost /\ x \notin ToSet(queue) \ kept
        OBVIOUS
      <4>1. x \in Prompts /\ fate[x] \in Answers \cup {"pending"}
        BY DEF Ledger, SpawnedOnce, IInv, TypeOK
      <4>2. x # p /\ fate[x] # "buffered"
        BY <1>4, <4>1, AnswerFacts
      <4>3. x \notin lost
        BY <1>7, <4>2
      <4>4. x \in ToSet(queue) => x \in kept
        BY <1>2, <1>4
      <4> QED BY <4>1, <4>2, <4>3, <4>4
    <3> QED BY <1>2, <3>1
  <2>2. ToSet(queue') \cap spawned \subseteq {running}
    BY <1>2, <1>4
  <2> QED BY <1>1, <1>3, <2>1, <2>2, BesideTurns DEF Cancelling
<1> QED BY <1>8, <1>9, <1>10, <1>11 DEF Ledger

(* A queued row is promoted, and the running turn perhaps cancelled.       *)
LEMMA InterjectQueuedLedger ==
  ASSUME IInv, Ledger, NEW p \in Client, InterjectQueued(p)
  PROVE  Ledger'
<1> DEFINE others == Keep(queue, ToSet(queue) \ {p})
<1>1. pc = "select" /\ p \in Prompts /\ p \in ToSet(queue) /\ p # running
  BY SortFacts DEF InterjectQueued, Ready
<1>2. /\ cancel = NoCancel /\ ToSet(cancel.resolved) = {} /\ ToSet(stranded) = {}
      /\ stranded = <<>> /\ IsInjective(queue) /\ queue \in Seq(Prompts)
      /\ \A x \in Prompts : fate[x] = "pending" <=> x \in ToSet(queue)
      /\ \A i \in Fallback : fate[i] = "buffered" <=> i \in ToSet(interjections)
  BY <1>1, OutsideFacts DEF Cancelling, IInv, TypeOK, Seen
<1>3. ToSet(queue') = ToSet(queue) /\ IsInjective(queue')
  <2>1. /\ others \in Seq(Prompts) /\ ToSet(others) = ToSet(queue) \ {p}
        /\ IsInjective(others)
    BY <1>2, KeepType, KeepContents
  <2>2. queue' = InsertSendNow(others, running, marked, p)
    BY DEF InterjectQueued
  <2> HIDE DEF others
  <2>3. /\ ToSet(queue') = ToSet(others) \cup {p}
        /\ IsInjective(others) /\ p \notin ToSet(others) => IsInjective(queue')
    BY <1>1, <2>1, <2>2, InsertSendNowContents
  <2> QED BY <1>1, <2>1, <2>3
<1>4. /\ UNCHANGED <<cur, stranded, notices, buffer, running, pin, spawned, live,
                     completions, terminals>>
      /\ \/ /\ BeginCancel("send_now")
            /\ fate' = Settle(fate, ToSet(interjections), "discarded")
         \/ /\ pc' = "start"
            /\ UNCHANGED <<interjections, cancel, fate>>
  BY DEF InterjectQueued, turnVars, noticeVars
<1>5. /\ (cancel.resolved)' = <<>> /\ ToSet((cancel.resolved)') = {}
      /\ IsInjective((cancel.resolved)')
      /\ \/ pc' = "start" /\ interjections' = interjections /\ fate' = fate
         \/ /\ pc' = "cancelLock" /\ interjections' = <<>>
            /\ ToSet(interjections') = {}
            /\ fate' = Settle(fate, ToSet(interjections), "discarded")
  BY <1>2, <1>4, EmptyContents, NoCancelFacts DEF BeginCancel, NoCancel
<1>6. /\ \A x \in ToSet(interjections) :
           x \in Fallback /\ x \in Prompts /\ x \notin Notice /\ fate[x] = "buffered"
      /\ \A x \in Prompts :
           \/ fate'[x] = fate[x] /\ ~(x \in ToSet(interjections) /\ pc' = "cancelLock")
           \/ x \in ToSet(interjections) /\ fate'[x] = "discarded" /\ pc' = "cancelLock"
  <2>1. \A x \in ToSet(interjections) :
          x \in Fallback /\ x \in Prompts /\ x \notin Notice /\ fate[x] = "buffered"
    BY <1>2, SortFacts, TextsAreNoNotices DEF Ledger, TextsHeld
  <2> QED BY <1>5, <2>1 DEF Settle
<1>7. PromptsHeld'
  <2>1. \A x \in Prompts : fate'[x] = "pending" <=> x \in ToSet(queue)
    BY <1>2, <1>6
  <2> QED BY <1>3, <1>5, <2>1 DEF PromptsHeld
<1>8. TextsHeld'
  <2>1. \A i \in Fallback : fate'[i] = "buffered" <=> i \in ToSet(interjections')
    BY <1>2, <1>5, <1>6, SortFacts
  <2> QED BY <1>1, <1>2, <1>4, <1>5, <2>1, EmptyContents DEF Ledger, TextsHeld, Cancelling
<1>9. NoticesHeld'
  <2>1. \A n \in Notice : fate'[n] = "buffered" <=> fate[n] = "buffered"
    BY <1>6, SortFacts
  <2> QED BY <1>4, <2>1 DEF Ledger, NoticesHeld
<1>10. (SpawnedOnce /\ TurnReports /\ CancelSound /\ PinSound /\ TerminalOnce)'
  <2>1. \A x \in spawned : fate'[x] = fate[x]
    BY <1>6, AnswerFacts DEF Ledger, SpawnedOnce, IInv, TypeOK
  <2>2. ToSet(queue') \cap spawned \subseteq {running}
    BY <1>1, <1>3, QueuedIsRunning
  <2> QED BY <1>1, <1>4, <2>1, <2>2, BesideTurns DEF Cancelling
<1> QED BY <1>7, <1>8, <1>9, <1>10 DEF Ledger

(* A queue edit answers what it takes out and spares the running turn.     *)
LEMMA QueueEditLedger ==
  ASSUME IInv, Ledger, pc = "select", NEW q \in Seen, QueueEdit(q),
         ToSet(q) \subseteq ToSet(queue), IsInjective(q),
         running \in ToSet(queue) => running \in ToSet(q)
  PROVE  Ledger'
<1>1. /\ cancel = NoCancel /\ ToSet(cancel.resolved) = {}
      /\ cancel.resolved = <<>> /\ IsInjective(cancel.resolved)
      /\ \A x \in Prompts : fate[x] = "pending" <=> x \in ToSet(queue)
  BY OutsideFacts DEF Cancelling
<1>2. /\ queue' = q
      /\ UNCHANGED <<pc, cur, stranded, cancel, notices, buffer, running, pin,
                     interjections, spawned, live, completions, terminals>>
  BY DEF QueueEdit, loopVars, noticeVars, turnVars
<1>3. \A x \in Prompts :
        fate'[x] = IF x \in ToSet(queue) \ ToSet(q) THEN "removed" ELSE fate[x]
  BY DEF QueueEdit, Settle
<1>4. PromptsHeld'
  BY <1>1, <1>2, <1>3 DEF PromptsHeld
<1>5. \A x \in Prompts : fate'[x] = "buffered" <=> fate[x] = "buffered"
  BY <1>1, <1>3
<1>6. TextsHeld' /\ NoticesHeld'
  BY <1>2, <1>5, SortFacts DEF Ledger, TextsHeld, NoticesHeld
<1>7. (SpawnedOnce /\ TurnReports /\ CancelSound /\ PinSound /\ TerminalOnce)'
  <2>1. \A x \in spawned : fate'[x] = fate[x]
    BY <1>3, QueuedIsRunning DEF IInv, TypeOK
  <2>2. ToSet(queue') \cap spawned \subseteq {running}
    BY <1>2, QueuedIsRunning
  <2> QED BY <1>2, <2>1, <2>2, BesideTurns
<1> QED BY <1>4, <1>6, <1>7 DEF Ledger

(* A client removes a queued row.                                          *)
LEMMA RemoveQueuedLedger ==
  ASSUME IInv, Ledger, NEW p \in Prompts, RemoveQueued(p)
  PROVE  Ledger'
<1> DEFINE K == ToSet(queue) \ {p}
           q == Keep(queue, K)
<1>1. /\ pc = "select" /\ p # running /\ QueueEdit(q)
      /\ queue \in Seq(Prompts) /\ IsInjective(queue)
  BY OutsideFacts DEF RemoveQueued, Ready, Cancelling, IInv, TypeOK, Seen
<1>2. /\ q \in Seen /\ ToSet(q) = ToSet(queue) \cap K /\ IsInjective(q)
  BY <1>1, KeepType, KeepContents DEF Seen
<1> HIDE DEF q
<1> QED BY <1>1, <1>2, QueueEditLedger

(* A client clears its queued rows.                                        *)
LEMMA ClearQueueLedger ==
  ASSUME IInv, Ledger, NEW o, ClearQueue(o)
  PROVE  Ledger'
<1> DEFINE mine == {p \in Client \ {running} : o \in {OwnerOf[p], AnyOwner}}
           K == ToSet(queue) \ mine
           q == Keep(queue, K)
<1>1. /\ pc = "select" /\ running \notin mine /\ QueueEdit(q)
      /\ queue \in Seq(Prompts) /\ IsInjective(queue)
  BY OutsideFacts DEF ClearQueue, Ready, Cancelling, IInv, TypeOK, Seen
<1> HIDE DEF mine
<1>2. /\ q \in Seen /\ ToSet(q) = ToSet(queue) \cap K /\ IsInjective(q)
  BY <1>1, KeepType, KeepContents DEF Seen
<1> HIDE DEF q
<1> QED BY <1>1, <1>2, QueueEditLedger

(* A client reorders its queued rows.                                      *)
LEMMA ReorderLedger ==
  ASSUME IInv, Ledger, NEW order \in Orders, Reorder(order)
  PROVE  Ledger'
<1> DEFINE q == Reordered(queue, running, order)
<1>1. /\ pc = "select" /\ QueueEdit(q) /\ order \in Seq(Client)
      /\ queue \in Seq(Prompts) /\ IsInjective(queue)
  BY OutsideFacts, OrdersAssumption DEF Reorder, Ready, Cancelling, IInv, TypeOK, Seen
<1>2. /\ q \in Seen /\ ToSet(q) = ToSet(queue) /\ IsInjective(q)
  BY <1>1, ReorderedSafe, ReorderedContents DEF Seen
<1> HIDE DEF q
<1> QED BY <1>1, <1>2, QueueEditLedger

(* A client interjects: the running turn's buffer takes the text, or the   *)
(* flush, which finds no turn pinned.                                      *)
LEMMA InterjectLedger ==
  ASSUME IInv, Ledger, NEW i \in Fallback, Interject(i)
  PROVE  Ledger'
<1>1. /\ pc = "select" /\ i \in Prompts /\ fate[i] = "new"
      /\ \A x \in Prompts : fate'[x] = IF x = i THEN "buffered" ELSE fate[x]
      /\ UNCHANGED <<cur, cancel, notices, buffer, running, queue, pin, spawned,
                     live, completions, terminals>>
  BY SortFacts DEF Interject, Ready, IInv, TypeOK, noticeVars, turnVars
<1>2. /\ ToSet(cancel.resolved) = {} /\ ToSet(stranded) = {} /\ stranded = <<>>
      /\ cancel.resolved = <<>> /\ IsInjective(cancel.resolved)
      /\ \A x \in Prompts : fate[x] = "pending" <=> x \in ToSet(queue)
      /\ \A x \in Fallback : fate[x] = "buffered" <=> x \in ToSet(interjections)
      /\ interjections \in Seq(Prompts) /\ IsInjective(interjections)
      /\ ToSet(interjections) \subseteq Fallback /\ pin \in {NoPrompt, running}
      /\ IsInjective(stranded)
  BY <1>1, OutsideFacts DEF Cancelling, Ledger, TextsHeld, PinSound, IInv, TypeOK, Seen
<1>3. PromptsHeld'
  BY <1>1, <1>2 DEF Ledger, PromptsHeld
<1>4. NoticesHeld'
  <2>1. \A n \in Notice : fate'[n] = "buffered" <=> fate[n] = "buffered"
    BY <1>1, TextsAreNoNotices, SortFacts
  <2> QED BY <1>1, <2>1 DEF Ledger, NoticesHeld
<1>5. /\ ToSet(interjections') \subseteq Fallback /\ IsInjective(interjections')
      /\ ToSet(stranded') \subseteq Fallback /\ IsInjective(stranded')
      /\ ToSet(interjections') \cap ToSet(stranded') = {}
      /\ ToSet(interjections') \cup ToSet(stranded') = ToSet(interjections) \cup {i}
      /\ \/ pc' = "select" /\ stranded' = <<>> /\ running # NoPrompt
         \/ pc' = "flush" /\ interjections' = interjections
  <2>1. CASE pin # NoPrompt
    <3>1. /\ interjections' = Append(interjections, i) /\ pc' = pc /\ stranded' = stranded
      BY <2>1 DEF Interject
    <3>2. /\ ToSet(interjections') = ToSet(interjections) \cup {i}
          /\ IsInjective(interjections')
      BY <1>1, <1>2, <3>1, AppendContents
    <3> QED BY <1>1, <1>2, <2>1, <3>1, <3>2
  <2>2. CASE pin = NoPrompt
    <3>1. stranded' = <<i>> /\ pc' = "flush" /\ interjections' = interjections
      BY <2>2 DEF Interject
    <3>2. ToSet(stranded') = {i} /\ IsInjective(stranded')
      BY <3>1, SingleContents
    <3> QED BY <1>1, <1>2, <3>1, <3>2
  <2> QED BY <2>1, <2>2
<1>6. TextsHeld'
  <2>1. \A x \in Fallback :
          fate'[x] = "buffered" <=> x \in ToSet(interjections') \cup ToSet(stranded')
    BY <1>1, <1>2, <1>5, SortFacts
  <2> QED BY <1>1, <1>5, <2>1 DEF Ledger, TextsHeld, Cancelling
<1>7. (SpawnedOnce /\ TurnReports /\ CancelSound /\ PinSound /\ TerminalOnce)'
  <2>1. \A x \in spawned : fate'[x] = fate[x]
    BY <1>1, AnswerFacts DEF Ledger, SpawnedOnce, IInv, TypeOK
  <2>2. ToSet(queue') \cap spawned \subseteq {running}
    BY <1>1, QueuedIsRunning
  <2> QED BY <1>1, <1>5, <2>1, <2>2, BesideTurns DEF Cancelling
<1> QED BY <1>3, <1>4, <1>6, <1>7 DEF Ledger

(* A new prompt of the session itself goes to the back of the queue.       *)
LEMMA AppendLedger ==
  ASSUME IInv, Ledger, pc \notin Cancelling \cup {"flush", "stopped", "complete"},
         NEW g \in Goal, fate[g] = "new",
         queue' = Append(queue, g), fate' = [fate EXCEPT ![g] = "pending"]
  PROVE  /\ IsInjective(queue') /\ ToSet(queue') = ToSet(queue) \cup {g}
         /\ ToSet(queue') \cap spawned \subseteq {running}
         /\ \A x \in Prompts : fate'[x] = "pending" <=> x \in ToSet(queue')
         /\ \A x \in Prompts : fate'[x] = "buffered" <=> fate[x] = "buffered"
         /\ \A x \in spawned : fate'[x] = fate[x]
<1>1. /\ IsInjective(queue) /\ queue \in Seq(Prompts) /\ g \in Prompts
      /\ \A x \in Prompts : fate[x] = "pending" <=> x \in ToSet(queue)
      /\ \A x \in Prompts : fate'[x] = IF x = g THEN "pending" ELSE fate[x]
      /\ spawned \subseteq Prompts
  BY OutsideFacts, SortFacts DEF Cancelling, IInv, TypeOK, Seen
<1>2. /\ IsInjective(queue') /\ ToSet(queue') = ToSet(queue) \cup {g}
  BY <1>1, AppendContents
<1>3. g \notin spawned
  BY <1>1, AnswerFacts DEF Ledger, SpawnedOnce
<1> QED BY <1>1, <1>2, <1>3, QueuedIsRunning

(* A goal summary is queued.                                               *)
LEMMA GoalSummaryTurnLedger ==
  ASSUME IInv, Ledger, NEW g \in Goal, GoalSummaryTurn(g)
  PROVE  Ledger'
<1>1. /\ pc = "select" /\ pc' = "start" /\ fate[g] = "new"
      /\ queue' = Append(queue, g) /\ fate' = [fate EXCEPT ![g] = "pending"]
      /\ UNCHANGED <<cur, stranded, cancel, notices, buffer, running, pin,
                     interjections, spawned, live, completions, terminals>>
  BY DEF GoalSummaryTurn, Ready, noticeVars, turnVars
<1>2. /\ IsInjective(queue') /\ ToSet(queue') \cap spawned \subseteq {running}
      /\ \A x \in Prompts : fate'[x] = "pending" <=> x \in ToSet(queue')
      /\ \A x \in Prompts : fate'[x] = "buffered" <=> fate[x] = "buffered"
      /\ \A x \in spawned : fate'[x] = fate[x]
  BY <1>1, AppendLedger DEF Cancelling
<1>3. ToSet(cancel.resolved) = {} /\ IsInjective(cancel.resolved) /\ stranded = <<>>
  BY <1>1, OutsideFacts DEF Cancelling
<1>4. PromptsHeld'
  BY <1>1, <1>2, <1>3 DEF PromptsHeld
<1>5. TextsHeld' /\ NoticesHeld'
  BY <1>1, <1>2, <1>3, SortFacts DEF Ledger, TextsHeld, NoticesHeld, Cancelling
<1>6. (SpawnedOnce /\ TurnReports /\ CancelSound /\ PinSound /\ TerminalOnce)'
  BY <1>1, <1>2, BesideTurns DEF Cancelling
<1> QED BY <1>4, <1>5, <1>6 DEF Ledger

(* A cancel begins: the interjections of the turn go with it.              *)
LEMMA CancelLedger ==
  ASSUME IInv, Ledger, NEW kind, Cancel(kind)
  PROVE  Ledger'
<1>1. /\ pc = "select" /\ BeginCancel(kind) /\ pc' = "cancelLock"
      /\ interjections' = <<>> /\ ToSet(interjections') = {}
      /\ (cancel.resolved)' = <<>> /\ ToSet((cancel.resolved)') = {}
      /\ IsInjective((cancel.resolved)') /\ IsInjective(interjections')
      /\ fate' = Settle(fate, ToSet(interjections), "discarded")
      /\ UNCHANGED <<cur, stranded, notices, buffer, running, queue, pin, spawned,
                     live, completions, terminals>>
  BY EmptyContents, NoCancelFacts
     DEF Cancel, Ready, BeginCancel, NoCancel, noticeVars, turnVars
<1>2. /\ ToSet(stranded) = {} /\ IsInjective(queue) /\ stranded = <<>>
      /\ \A x \in Prompts : fate[x] = "pending" <=> x \in ToSet(queue)
      /\ \A i \in Fallback : fate[i] = "buffered" <=> i \in ToSet(interjections)
      /\ IsInjective(stranded)
  BY <1>1, OutsideFacts DEF Cancelling
<1>3. /\ \A x \in ToSet(interjections) :
           x \in Fallback /\ x \in Prompts /\ x \notin Notice /\ fate[x] = "buffered"
      /\ \A x \in Prompts :
           fate'[x] = IF x \in ToSet(interjections) THEN "discarded" ELSE fate[x]
  BY <1>1, <1>2, SortFacts, TextsAreNoNotices DEF Ledger, TextsHeld, Settle
<1>4. PromptsHeld'
  <2>1. \A x \in Prompts : fate'[x] = "pending" <=> x \in ToSet(queue)
    BY <1>2, <1>3
  <2> QED BY <1>1, <1>2, <2>1 DEF PromptsHeld
<1>5. TextsHeld'
  <2>1. \A i \in Fallback : fate'[i] # "buffered"
    BY <1>2, <1>3, SortFacts
  <2> QED BY <1>1, <1>2, <2>1 DEF Ledger, TextsHeld
<1>6. NoticesHeld'
  <2>1. \A n \in Notice : fate'[n] = "buffered" <=> fate[n] = "buffered"
    BY <1>3, SortFacts
  <2> QED BY <1>1, <2>1 DEF Ledger, NoticesHeld
<1>7. (SpawnedOnce /\ TurnReports /\ CancelSound /\ PinSound /\ TerminalOnce)'
  <2>1. \A x \in spawned : fate'[x] = fate[x]
    BY <1>3, AnswerFacts DEF Ledger, SpawnedOnce, IInv, TypeOK
  <2>2. ToSet(queue') \cap spawned \subseteq {running}
    BY <1>1, QueuedIsRunning
  <2> QED BY <1>1, <2>1, <2>2, BesideTurns
<1> QED BY <1>4, <1>5, <1>6, <1>7 DEF Ledger

(* The pending list and the turn's buffer, as one set.                     *)
LEMMA SweptContents ==
  ASSUME IInv, Ledger
  PROVE  /\ ToSet(notices \o buffer) = ToSet(notices) \cup ToSet(buffer)
         /\ ToSet(notices \o buffer) \subseteq Notice
         /\ \A n \in Notice : fate[n] = "buffered" <=> n \in ToSet(notices \o buffer)
<1>1. ToSet(notices \o buffer) = ToSet(notices) \cup ToSet(buffer)
  BY ConcatContents DEF IInv, TypeOK, Seen
<1> QED BY <1>1 DEF Ledger, NoticesHeld

(* A notice is buffered; what the cap pushes out is discarded.             *)
LEMMA InjectNotificationLedger ==
  ASSUME IInv, Ledger, NEW n \in Notice, NEW urgent \in BOOLEAN,
         InjectNotification(n, urgent)
  PROVE  Ledger'
<1> DEFINE before == ToSet(notices \o buffer)
           after  == ToSet(notices' \o buffer')
<1>1. /\ pc = "select" /\ n \in Prompts /\ fate[n] = "new"
      /\ pc' \in {"select", "drain"}
      /\ UNCHANGED <<cur, stranded, cancel, running, queue, pin, interjections,
                     spawned, live, completions, terminals>>
      /\ fate' = Settle([fate EXCEPT ![n] = "buffered"], before \ after, "discarded")
  BY SortFacts DEF InjectNotification, Ready, turnVars
<1>2. /\ ToSet(notices') \cup ToSet(buffer') \subseteq ToSet(notices) \cup ToSet(buffer) \cup {n}
      /\ n \in ToSet(notices') \cup ToSet(buffer')
      /\ ToSet(notices') \cap ToSet(buffer') = {}
      /\ notices' \in Seen /\ buffer' \in Seen
  <2>1. /\ notices \in Seen /\ buffer \in Seen
        /\ ToSet(notices) \cap ToSet(buffer) = {}
        /\ n \notin ToSet(notices) \cup ToSet(buffer)
    BY <1>1 DEF IInv, TypeOK, Ledger, NoticesHeld
  <2>2. CASE active /\ urgent
    <3>1. buffer' = PushCapped(buffer, n) /\ notices' = notices
      BY <2>2 DEF InjectNotification
    <3> QED BY <1>1, <2>1, <3>1, PushCappedContents, PushCappedType
  <2>3. CASE ~(active /\ urgent)
    <3>1. notices' = PushCapped(notices, n) /\ buffer' = buffer
      BY <2>3 DEF InjectNotification
    <3> QED BY <1>1, <2>1, <3>1, PushCappedContents, PushCappedType
  <2> QED BY <2>2, <2>3
<1>3. after = ToSet(notices') \cup ToSet(buffer')
  BY <1>2, ConcatContents DEF Seen
<1>4. /\ before = ToSet(notices) \cup ToSet(buffer) /\ before \subseteq Notice
      /\ \A x \in Notice : fate[x] = "buffered" <=> x \in before
  BY SweptContents
<1> HIDE DEF before, after
<1>5. \A x \in Prompts : fate'[x] = IF x \in before \ after THEN "discarded"
                                    ELSE IF x = n THEN "buffered" ELSE fate[x]
  BY <1>1 DEF Settle, IInv, TypeOK
<1>6. n \in after /\ n \notin before /\ after \subseteq before \cup {n}
  BY <1>1, <1>2, <1>3, <1>4
<1>7. NoticesHeld'
  <2>1. \A x \in Notice : fate'[x] = "buffered" <=> x \in after
    BY <1>4, <1>5, <1>6, SortFacts
  <2> QED BY <1>2, <1>3, <1>4, <1>6, <2>1 DEF NoticesHeld
<1>8. PromptsHeld'
  <2>1. \A x \in Prompts : fate'[x] = "pending" <=> fate[x] = "pending"
    BY <1>1, <1>4, <1>5, SortFacts
  <2> QED BY <1>1, <2>1 DEF Ledger, PromptsHeld
<1>9. TextsHeld'
  <2>1. \A i \in Fallback : fate'[i] = "buffered" <=> fate[i] = "buffered"
    BY <1>4, <1>5, TextsAreNoNotices, SortFacts
  <2> QED BY <1>1, <2>1 DEF Ledger, TextsHeld, Cancelling
<1>10. (SpawnedOnce /\ TurnReports /\ CancelSound /\ PinSound /\ TerminalOnce)'
  <2>1. \A x \in spawned : fate'[x] = fate[x]
    <3>1. \A x \in spawned : x \in Prompts /\ x # n /\ x \notin before
      BY <1>1, <1>4, SortFacts, AnswerFacts DEF Ledger, SpawnedOnce, IInv, TypeOK
    <3> QED BY <1>5, <3>1
  <2>2. ToSet(queue') \cap spawned \subseteq {running}
    BY <1>1, QueuedIsRunning
  <2> QED BY <1>1, <2>1, <2>2, BesideTurns DEF Cancelling
<1> QED BY <1>7, <1>8, <1>9, <1>10 DEF Ledger

(* The notices of a task that has ended are discarded.                     *)
LEMMA DropMonitorNotificationsLedger ==
  ASSUME IInv, Ledger, NEW w \in Wake, DropMonitorNotifications(w)
  PROVE  Ledger'
<1> DEFINE moot == {n \in ToSet(notices \o buffer) : SourceOf[n] = w}
<1>1. /\ pc = "select"
      /\ UNCHANGED <<pc, cur, stranded, cancel, running, queue, pin,
                     interjections, spawned, live, completions, terminals>>
      /\ fate' = Settle(fate, moot, "discarded")
  BY DEF DropMonitorNotifications, Ready, loopVars, turnVars
<1>2. /\ ToSet(notices') = {n \in ToSet(notices) : SourceOf[n] # w}
      /\ ToSet(buffer') = {n \in ToSet(buffer) : SourceOf[n] # w}
  BY KeepContents DEF DropMonitorNotifications, FromOthers, IInv, TypeOK, Seen
<1>3. /\ moot = {n \in ToSet(notices) \cup ToSet(buffer) : SourceOf[n] = w}
      /\ moot \subseteq Notice /\ \A n \in moot : fate[n] = "buffered"
  BY SweptContents
<1> HIDE DEF moot
<1>4. \A x \in Prompts : fate'[x] = IF x \in moot THEN "discarded" ELSE fate[x]
  BY <1>1 DEF Settle
<1>5. NoticesHeld'
  BY <1>2, <1>3, <1>4, SortFacts DEF Ledger, NoticesHeld
<1>6. PromptsHeld'
  <2>1. \A x \in Prompts : fate'[x] = "pending" <=> fate[x] = "pending"
    BY <1>3, <1>4
  <2> QED BY <1>1, <2>1 DEF Ledger, PromptsHeld
<1>7. TextsHeld'
  <2>1. \A i \in Fallback : fate'[i] = "buffered" <=> fate[i] = "buffered"
    BY <1>3, <1>4, TextsAreNoNotices, SortFacts
  <2> QED BY <1>1, <2>1 DEF Ledger, TextsHeld, Cancelling
<1>8. (SpawnedOnce /\ TurnReports /\ CancelSound /\ PinSound /\ TerminalOnce)'
  <2>1. \A x \in spawned : fate'[x] = fate[x]
    BY <1>3, <1>4, AnswerFacts DEF Ledger, SpawnedOnce, IInv, TypeOK
  <2>2. ToSet(queue') \cap spawned \subseteq {running}
    BY <1>1, QueuedIsRunning
  <2> QED BY <1>1, <2>1, <2>2, BesideTurns
<1> QED BY <1>5, <1>6, <1>7, <1>8 DEF Ledger

(* The loop returns: whatever it holds is answered as dropped.             *)
LEMMA ShutdownLedger ==
  ASSUME IInv, Ledger, NEW closed \in BOOLEAN, Shutdown(closed)
  PROVE  Ledger'
<1> DEFINE lost == ToSet(notices) \ ToSet(notices')
<1>1. /\ pc = "select" /\ pc' = "stopped" /\ completions = <<>>
      /\ UNCHANGED <<cur, stranded, cancel, buffer, running, pin, interjections,
                     spawned, live, completions, terminals>>
      /\ fate' = Settle(Settle(fate, ToSet(queue), "dropped"), lost, "discarded")
      /\ ToSet(notices') \subseteq ToSet(notices)
  BY EmptyContents DEF Shutdown, Ready, turnVars
<1>2. /\ lost \subseteq Notice /\ \A n \in lost : fate[n] = "buffered"
      /\ \A x \in Prompts : fate[x] = "pending" <=> x \in ToSet(queue)
      /\ cancel = NoCancel /\ stranded = <<>>
  BY <1>1, OutsideFacts DEF Ledger, NoticesHeld, Cancelling
<1>3. lost = ToSet(notices) \ ToSet(notices')
  OBVIOUS
<1> HIDE DEF lost
<1>4. \A x \in Prompts : fate'[x] = IF x \in lost THEN "discarded"
                                    ELSE IF fate[x] = "pending" THEN "dropped"
                                    ELSE fate[x]
  BY <1>1, <1>2 DEF Settle
<1>5. PromptsHeld'
  BY <1>1 DEF PromptsHeld
<1>6. NoticesHeld'
  <2>1. \A x \in Notice :
          fate'[x] = "buffered" <=> x \in ToSet(notices') \cup ToSet(buffer')
    BY <1>1, <1>2, <1>3, <1>4, SortFacts DEF Ledger, NoticesHeld
  <2> QED BY <1>1, <2>1 DEF Ledger, NoticesHeld
<1>7. TextsHeld'
  <2>1. \A i \in Fallback : fate'[i] = "buffered" <=> fate[i] = "buffered"
    BY <1>2, <1>4, TextsAreNoNotices, SortFacts
  <2> QED BY <1>1, <1>2, <2>1 DEF Ledger, TextsHeld, Cancelling
<1>8. \A x \in spawned : \/ fate'[x] = fate[x]
                         \/ fate[x] = "pending" /\ fate'[x] = "dropped"
  BY <1>2, <1>4, AnswerFacts DEF Ledger, SpawnedOnce, IInv, TypeOK
<1>9. SpawnedOnce'
  BY <1>1, <1>8, AnswerFacts DEF Ledger, SpawnedOnce
<1>10. TurnReports' /\ PinSound'
  BY <1>1 DEF Ledger, TurnReports, PinSound
<1>11. CancelSound'
  BY <1>1, <1>2, NoCancelFacts, EmptyContents DEF CancelSound, Cancelling
<1>12. TerminalOnce'
  BY <1>1, <1>8 DEF Ledger, TerminalOnce
<1> QED BY <1>5, <1>6, <1>7, <1>9, <1>10, <1>11, <1>12 DEF Ledger

----------------------------------------------------------------------------
(* The rest of the arms.                                                   *)

(* A stranded interjection becomes a prompt.                               *)
LEMMA FlushLedger ==
  ASSUME IInv, Ledger, Flush
  PROVE  Ledger'
<1> DEFINE i == Last(stranded)
           rest == Front(stranded)
<1>1. /\ pc = "flush" /\ stranded \in Seen /\ stranded # <<>>
      /\ queue' = InsertFallback(queue, running, i)
      /\ fate' = [fate EXCEPT ![i] = "pending"]
      /\ stranded' = rest
      /\ pc' = (IF Len(stranded) = 1 THEN "start" ELSE "flush")
      /\ UNCHANGED <<cur, cancel, notices, buffer, running, pin, interjections,
                     spawned, live, completions, terminals>>
  BY DEF Flush, turnVars, noticeVars, IInv, TypeOK, FlushHasText
<1>2. /\ ToSet(stranded) = ToSet(rest) \cup {i} /\ rest \in Seen
      /\ IsInjective(stranded) => IsInjective(rest) /\ i \notin ToSet(rest)
      /\ Len(stranded) = 1 => rest = <<>>
  BY <1>1, LastContents, FrontOfOne, LastFront DEF Seen
<1> HIDE DEF i, rest
<1>3. /\ IsInjective(queue) /\ queue \in Seq(Prompts) /\ ToSet(cancel.resolved) = {}
      /\ cancel = NoCancel /\ IsInjective(cancel.resolved)
      /\ \A x \in Prompts : fate[x] = "pending" <=> x \in ToSet(queue)
  BY <1>1, NoCancelFacts, EmptyContents
     DEF Ledger, PromptsHeld, CancelSound, Cancelling, IInv, TypeOK, Seen
<1>4. /\ i \in Fallback /\ i \in Prompts /\ fate[i] = "buffered" /\ i \notin Notice
      /\ i \notin ToSet(interjections) /\ i \notin ToSet(rest) /\ i \notin ToSet(queue)
  BY <1>2, <1>3, SortFacts, TextsAreNoNotices DEF Ledger, TextsHeld
<1>5. ToSet(queue') = ToSet(queue) \cup {i} /\ IsInjective(queue')
  BY <1>1, <1>3, <1>4, InsertFallbackContents
<1>6. \A x \in Prompts : fate'[x] = IF x = i THEN "pending" ELSE fate[x]
  BY <1>1 DEF IInv, TypeOK
<1>7. PromptsHeld'
  BY <1>1, <1>3, <1>4, <1>5, <1>6 DEF PromptsHeld
<1>8. TextsHeld'
  <2>1. \A x \in Fallback :
          fate'[x] = "buffered" <=> x \in ToSet(interjections) \cup ToSet(rest)
    BY <1>2, <1>4, <1>6, SortFacts DEF Ledger, TextsHeld
  <2>2. /\ ToSet(rest) \subseteq Fallback /\ IsInjective(rest)
        /\ ToSet(interjections) \cap ToSet(rest) = {}
    BY <1>2 DEF Ledger, TextsHeld
  <2> QED BY <1>1, <1>2, <2>1, <2>2 DEF Ledger, TextsHeld, Cancelling
<1>9. NoticesHeld'
  <2>1. \A n \in Notice : fate'[n] = "buffered" <=> fate[n] = "buffered"
    BY <1>4, <1>6, SortFacts
  <2> QED BY <1>1, <2>1 DEF Ledger, NoticesHeld
<1>10. (SpawnedOnce /\ TurnReports /\ CancelSound /\ PinSound /\ TerminalOnce)'
  <2>1. i \notin spawned
    BY <1>4, AnswerFacts DEF Ledger, SpawnedOnce
  <2>2. \A x \in spawned : fate'[x] = fate[x]
    BY <1>6, <2>1 DEF IInv, TypeOK
  <2>3. ToSet(queue') \cap spawned \subseteq {running}
    BY <1>1, <1>5, <2>1, QueuedIsRunning
  <2> QED BY <1>1, <2>2, <2>3, BesideTurns DEF Cancelling
<1> QED BY <1>7, <1>8, <1>9, <1>10 DEF Ledger

(* A cancel takes its rows: they and what stays queued are what was        *)
(* queued, and the running turn is among the rows taken.                   *)
LEMMA TakenContents ==
  ASSUME IInv, Ledger, CancelLock
  PROVE  /\ IsInjective(queue') /\ IsInjective(Taken)
         /\ ToSet(queue') \cap ToSet(Taken) = {}
         /\ ToSet(queue') \cup ToSet(Taken) = ToSet(queue)
         /\ running # NoPrompt => running \in ToSet(Taken)
         /\ queue = <<>> => ToSet(Taken) = {}
<1>1. /\ pc = "cancelLock" /\ queue \in Seq(Prompts) /\ IsInjective(queue)
      /\ queue' = (IF queue = <<>> \/ Teardown THEN <<>> ELSE Tail(queue))
      /\ running # NoPrompt => queue # <<>> /\ Head(queue) = running
  BY DEF CancelLock, IInv, TypeOK, Seen, FrontIsRunning, IsFront, Ledger, PromptsHeld
<1>2. CASE queue = <<>>
  BY <1>1, <1>2, EmptyContents DEF Taken, FrontOf
<1>3. CASE queue # <<>> /\ Teardown
  BY <1>1, <1>3, EmptyContents, SomeContents DEF Taken
<1>4. CASE queue # <<>> /\ ~Teardown
  <2> DEFINE one == <<Head(queue)>>
             rest == Tail(queue)
  <2>1. Taken = one /\ queue' = rest
    BY <1>1, <1>4 DEF Taken, FrontOf
  <2>2. ToSet(one) = {Head(queue)} /\ IsInjective(one)
    BY SingleContents
  <2>3. /\ ToSet(queue) = {Head(queue)} \cup ToSet(rest)
        /\ IsInjective(rest) /\ Head(queue) \notin ToSet(rest)
    BY <1>1, <1>4, TailContents
  <2> HIDE DEF one, rest
  <2> QED BY <1>1, <1>4, <2>1, <2>2, <2>3
<1> QED BY <1>2, <1>3, <1>4

(* The rows of a cancel move from the queue to its locals.                 *)
LEMMA CancelLockLedger ==
  ASSUME IInv, Ledger, CancelLock
  PROVE  Ledger'
<1> DEFINE pristine == cancel.kind = "rewind" /\ rewindable
           gone == IF Teardown THEN ToSet(notices \o buffer) ELSE {}
<1>1. /\ pc = "cancelLock" /\ pc' = "cancelGate" /\ running' = NoPrompt
      /\ (cancel.task)' = (IF pristine THEN NoPrompt ELSE running)
      /\ (cancel.resolved)' = Taken /\ (cancel.pinned)' = cancel.pinned
      /\ (cancel.rewound)' = (pristine /\ queue # <<>>)
      /\ live' = live \ (IF pristine THEN {running} \cap live ELSE {})
      /\ fate' = Settle(fate, gone, "discarded")
      /\ UNCHANGED <<cur, stranded, spawned, pin, interjections, completions, terminals>>
  BY DEF CancelLock, IInv, TypeOK
<1>2. /\ IsInjective(queue') /\ IsInjective(Taken)
      /\ ToSet(queue') \cap ToSet(Taken) = {}
      /\ ToSet(queue') \cup ToSet(Taken) = ToSet(queue)
      /\ running # NoPrompt => running \in ToSet(Taken)
      /\ queue = <<>> => ToSet(Taken) = {}
  BY TakenContents
<1>3. gone \subseteq Notice /\ \A n \in gone : fate[n] = "buffered"
  BY SweptContents
<1>4. NoticesHeld'
  <2>1. \A x \in Prompts : fate'[x] = IF x \in gone THEN "discarded" ELSE fate[x]
    BY <1>1 DEF Settle
  <2>2. CASE Teardown
    <3>1. notices' = <<>> /\ buffer' = <<>> /\ ToSet(<<>>) = {}
      BY <2>2, EmptyContents DEF CancelLock
    <3>2. \A n \in Notice : fate'[n] # "buffered"
      BY <2>1, <2>2, SweptContents, SortFacts
    <3> QED BY <3>1, <3>2 DEF NoticesHeld
  <2>3. CASE ~Teardown
    <3>1. notices' = notices \o buffer /\ buffer' = <<>> /\ ToSet(buffer') = {}
      BY <2>3, EmptyContents DEF CancelLock, Swept
    <3>2. \A n \in Notice : fate'[n] = fate[n]
      BY <2>1, <2>3, SortFacts
    <3> QED BY <3>1, <3>2, SweptContents DEF NoticesHeld
  <2> QED BY <2>2, <2>3
<1> HIDE DEF pristine, gone
<1>5. \A x \in Prompts : fate'[x] = IF x \in gone THEN "discarded" ELSE fate[x]
  BY <1>1 DEF Settle
<1>6. /\ cancel.task = NoPrompt /\ ToSet(cancel.resolved) = {} /\ ~cancel.rewound
      /\ cancel.pinned # NoPrompt => running = cancel.pinned
      /\ interjections = <<>> /\ stranded = <<>>
      /\ \A x \in Prompts : fate[x] = "pending" <=> x \in ToSet(queue)
  BY <1>1, EmptyContents DEF Ledger, CancelSound, TextsHeld, Cancelling, PromptsHeld
<1>7. PromptsHeld'
  <2>1. \A x \in Prompts : fate'[x] = "pending" <=> fate[x] = "pending"
    BY <1>3, <1>5
  <2> QED BY <1>1, <1>2, <1>6, <2>1 DEF PromptsHeld
<1>8. TextsHeld'
  <2>1. \A i \in Fallback : fate'[i] = "buffered" <=> fate[i] = "buffered"
    BY <1>3, <1>5, TextsAreNoNotices, SortFacts
  <2> QED BY <1>1, <1>6, <2>1 DEF Ledger, TextsHeld, Cancelling
<1>9. /\ spawned \subseteq Prompts /\ NoPrompt \notin Prompts
      /\ \A x \in ToSet(queue) \cap spawned : x = running
      /\ \A x \in spawned : fate'[x] = fate[x]
      /\ live \subseteq spawned \cap {running}
  <2>1. \A x \in spawned : x \in Prompts /\ x \notin gone
    BY <1>3, AnswerFacts DEF Ledger, SpawnedOnce, IInv, TypeOK
  <2> QED BY <1>1, <1>5, <1>6, <2>1, QueuedIsRunning, SortFacts
          DEF Ledger, SpawnedOnce, IInv, TypeOK
<1>10. SpawnedOnce'
  <2>1. ToSet(queue') \cap spawned' \subseteq {running'}
    BY <1>1, <1>2, <1>9
  <2>2. live' \subseteq spawned' \cap {running', (cancel.task)'} /\ live' \subseteq live
    BY <1>1, <1>9
  <2> QED BY <1>1, <1>9, <2>1, <2>2 DEF Ledger, SpawnedOnce
<1>11. TurnReports' /\ PinSound'
  BY <1>1 DEF TurnReports, PinSound
<1>12. CancelSound'
  <2>1. (cancel.task)' # NoPrompt =>
          (cancel.task)' \in ToSet((cancel.resolved)') \cap spawned' /\ ~(cancel.rewound)'
    BY <1>1, <1>2 DEF Ledger, SpawnedOnce
  <2>2. ASSUME ~(cancel.rewound)'
        PROVE  /\ ToSet((cancel.resolved)') \cap spawned' \subseteq {(cancel.task)'}
               /\ (cancel.pinned)' \in {NoPrompt, (cancel.task)'}
    <3>1. CASE pristine
      BY <1>1, <1>2, <1>6, <2>2, <3>1, EmptyContents
    <3>2. CASE ~pristine
      BY <1>1, <1>2, <1>6, <1>9, <3>2
    <3> QED BY <3>1, <3>2
  <2> QED BY <1>1, <2>1, <2>2 DEF CancelSound, Cancelling
<1>13. TerminalOnce'
  BY <1>1, <1>9 DEF Ledger, TerminalOnce
<1> QED BY <1>4, <1>7, <1>8, <1>10, <1>11, <1>12, <1>13 DEF Ledger

(* The goal gate is in no book.                                            *)
LEMMA CancelGateLedger ==
  ASSUME IInv, Ledger, CancelGate
  PROVE  Ledger'
<1>1. /\ pc = "cancelGate" /\ pc' = "cancelAbort"
      /\ UNCHANGED <<cur, stranded, cancel, live, spawned, notices, buffer, running, queue,
                     pin, interjections, completions, fate, terminals>>
  BY DEF CancelGate, turnVars, noticeVars
<1>2. PromptsHeld' /\ TextsHeld' /\ NoticesHeld'
  BY <1>1 DEF Ledger, PromptsHeld, TextsHeld, NoticesHeld, Cancelling
<1>3. SpawnedOnce' /\ TurnReports'
  BY <1>1 DEF Ledger, SpawnedOnce, TurnReports
<1>4. CancelSound'
  BY <1>1 DEF Ledger, CancelSound, Cancelling
<1>5. PinSound' /\ TerminalOnce'
  BY <1>1 DEF Ledger, PinSound, TerminalOnce
<1> QED BY <1>2, <1>3, <1>4, <1>5 DEF Ledger

(* The taken turn is aborted; a turn a start task promoted meanwhile is    *)
(* another one, because its row is still queued.                           *)
LEMMA CancelAbortLedger ==
  ASSUME IInv, Ledger, CancelAbort
  PROVE  Ledger'
<1>1. /\ pc = "cancelAbort" /\ pc' = "cancelFinish" /\ live' = live \ {cancel.task}
      /\ UNCHANGED <<cur, stranded, cancel, spawned, notices, buffer, running, queue,
                     pin, interjections, completions, fate, terminals>>
  BY DEF CancelAbort, Aborted, noticeVars
<1>2. running # NoPrompt => running # cancel.task
  BY <1>1, QueuedIsRunning DEF Ledger, PromptsHeld, CancelSound
<1>3. PromptsHeld' /\ TextsHeld' /\ NoticesHeld'
  BY <1>1 DEF Ledger, PromptsHeld, TextsHeld, NoticesHeld, Cancelling
<1>4. SpawnedOnce'
  BY <1>1 DEF Ledger, SpawnedOnce
<1>5. TurnReports'
  BY <1>1, <1>2 DEF Ledger, TurnReports
<1>6. CancelSound'
  BY <1>1 DEF Ledger, CancelSound, Cancelling
<1>7. PinSound' /\ TerminalOnce'
  BY <1>1 DEF Ledger, PinSound, TerminalOnce
<1> QED BY <1>3, <1>4, <1>5, <1>6, <1>7 DEF Ledger

(* The cancelled turn, and no other, gets its terminal; the rows taken are *)
(* answered.                                                               *)
LEMMA CancelFinishLedger ==
  ASSUME IInv, Ledger, CancelFinish
  PROVE  Ledger'
<1> DEFINE published == IF cancel.rewound THEN {} ELSE {CancelledId} \cap Prompts
           answer == IF cancel.rewound THEN "rewound" ELSE "cancelled"
           rows == ToSet(cancel.resolved)
<1>1. /\ pc = "cancelFinish" /\ pc' = "start" /\ pin' = NoPrompt /\ cancel' = NoCancel
      /\ terminals' = [p \in Prompts |->
                         terminals[p] + (IF p \in published THEN 1 ELSE 0)]
      /\ fate' = Settle(fate, rows, answer)
      /\ UNCHANGED <<cur, stranded, spawned, live, notices, buffer, running, queue,
                     interjections, completions>>
  BY DEF CancelFinish, PinAfterCancel, turnVars
<1>2. /\ cancel.task \notin live /\ live \subseteq spawned \cap {running, cancel.task}
      /\ cancel.task # NoPrompt => cancel.task \in rows \cap spawned /\ ~cancel.rewound
      /\ ~cancel.rewound =>
           rows \cap spawned \subseteq {cancel.task} /\ cancel.pinned \in {NoPrompt, cancel.task}
      /\ ToSet(queue) \cap rows = {} /\ IsInjective(queue) /\ spawned \subseteq Prompts
      /\ \A p \in Prompts : fate[p] = "pending" <=> p \in ToSet(queue) \cup rows
  BY <1>1 DEF Ledger, SpawnedOnce, CancelSound, PromptsHeld, IInv, TypeOK
<1>3. ~cancel.rewound => published = {cancel.task} \ {NoPrompt}
  BY <1>2, SortFacts DEF CancelledId, IInv, TypeOK
<1>4. answer \in {"rewound", "cancelled"} /\ (answer = "cancelled" <=> ~cancel.rewound)
  OBVIOUS
<1>5. cancel.rewound => published = {} /\ cancel.task = NoPrompt
  BY <1>2
<1> HIDE DEF published, answer, rows
<1>6. \A p \in Prompts : fate'[p] = IF p \in rows THEN answer ELSE fate[p]
  BY <1>1 DEF Settle
<1>7. /\ (cancel.resolved)' = <<>> /\ ToSet((cancel.resolved)') = {}
      /\ IsInjective((cancel.resolved)') /\ (cancel.task)' = NoPrompt
  BY <1>1, NoCancelFacts, EmptyContents
<1>8. PromptsHeld'
  <2>1. \A p \in Prompts : fate'[p] = "pending" <=> p \in ToSet(queue)
    BY <1>2, <1>4, <1>6
  <2> QED BY <1>1, <1>2, <1>7, <2>1 DEF PromptsHeld
<1>9. \A p \in Prompts : fate'[p] = "buffered" <=> fate[p] = "buffered"
  BY <1>2, <1>4, <1>6
<1>10. TextsHeld' /\ NoticesHeld'
  BY <1>1, <1>9, SortFacts DEF Ledger, TextsHeld, NoticesHeld, Cancelling
<1>11. SpawnedOnce'
  <2>1. \A p \in spawned : fate'[p] \in Answers \cup {"pending"}
    BY <1>2, <1>4, <1>6, AnswerFacts DEF Ledger, SpawnedOnce
  <2>2. live' \subseteq spawned' \cap {running', (cancel.task)'}
    BY <1>1, <1>2
  <2> QED BY <1>1, <2>1, <2>2 DEF Ledger, SpawnedOnce
<1>12. TurnReports' /\ PinSound'
  BY <1>1 DEF Ledger, TurnReports, PinSound
<1>13. CancelSound'
  BY <1>1, NoCancelFacts, EmptyContents DEF CancelSound, Cancelling
<1>14. TerminalOnce'
  <2>1. ASSUME NEW p \in Prompts
        PROVE  terminals'[p] =
                 IF p \in spawned /\ fate'[p] \in {"done", "cancelled"} THEN 1 ELSE 0
    <3>1. /\ terminals[p] =
               IF p \in spawned /\ fate[p] \in {"done", "cancelled"} THEN 1 ELSE 0
          /\ terminals'[p] = terminals[p] + (IF p \in published THEN 1 ELSE 0)
          /\ fate'[p] = IF p \in rows THEN answer ELSE fate[p]
      BY <1>1, <1>6 DEF Ledger, TerminalOnce
    <3>2. CASE p \in rows
      <4>1. fate[p] = "pending" /\ (p \in published <=> answer = "cancelled" /\ p \in spawned)
        BY <1>2, <1>3, <1>4, <1>5, <3>2, SortFacts
      <4> QED BY <1>4, <3>1, <3>2, <4>1
    <3>3. CASE p \notin rows
      <4>1. p \notin published
        BY <1>2, <1>3, <1>5, <3>3
      <4> QED BY <3>1, <3>3, <4>1
    <3> QED BY <3>2, <3>3
  <2> QED BY <1>1, <2>1 DEF TerminalOnce
<1> QED BY <1>8, <1>10, <1>11, <1>12, <1>13, <1>14 DEF Ledger

(* The end of an arm starts the front prompt.                              *)
LEMMA StartStepLedger ==
  ASSUME IInv, Ledger, Start
  PROVE  Ledger'
<1>1. /\ pc = "start" /\ MaybeStart /\ pc' \in {"select", "drain"}
      /\ UNCHANGED <<cur, cancel, queue, fate, interjections, stranded, notices,
                     buffer, completions, terminals>>
  BY DEF Start, noticeVars
<1> QED BY <1>1, StartLedger

(* So does a drain that queued a turn.                                     *)
LEMMA DrainStartLedger ==
  ASSUME IInv, Ledger, DrainStart
  PROVE  Ledger'
<1>1. /\ pc = "drainStart" /\ MaybeStart /\ pc' = "select"
      /\ UNCHANGED <<cur, cancel, queue, fate, interjections, stranded, notices,
                     buffer, completions, terminals>>
  BY DEF DrainStart, noticeVars
<1> QED BY <1>1, StartLedger

(* An idle session's notices become one queued turn, or are discarded.     *)
LEMMA DrainLedger ==
  ASSUME IInv, Ledger, Drain
  PROVE  Ledger'
<1> DEFINE all == ToSet(Swept)
           batch == Surfaced(Swept)
<1>1. /\ pc = "drain" /\ pc' \in {"drainStart", "select"}
      /\ UNCHANGED <<cur, stranded, cancel, running, pin, interjections, spawned,
                     live, completions, terminals>>
  BY DEF Drain, turnVars
<1>2. /\ all \subseteq Notice /\ all = ToSet(notices) \cup ToSet(buffer)
      /\ \A n \in Notice : fate[n] = "buffered" <=> n \in all
  BY SweptContents DEF Swept
<1>3. /\ IsInjective(queue) /\ ToSet(cancel.resolved) = {}
      /\ cancel.resolved = <<>> /\ IsInjective(cancel.resolved) /\ stranded = <<>>
      /\ \A x \in Prompts : fate[x] = "pending" <=> x \in ToSet(queue)
      /\ spawned \subseteq Prompts
  BY <1>1, OutsideFacts DEF Cancelling, IInv, TypeOK
<1>4. \/ UNCHANGED <<notices, buffer, queue, fate>>
      \/ /\ ToSet(notices') = {} /\ ToSet(buffer') = {} /\ queue = <<>>
         /\ \/ queue' = queue /\ \A x \in Prompts : fate'[x] = IF x \in all THEN "discarded" ELSE fate[x]
            \/ \E h \in all :
                 /\ ToSet(queue') = {h} /\ IsInjective(queue') /\ fate'[h] = "pending"
                 /\ \A x \in Prompts \ {h} :
                      IF x \in all THEN fate'[x] \in {"discarded", "merged"}
                                   ELSE fate'[x] = fate[x]
  <2>1. CASE ~Idle
    BY <2>1 DEF Drain
  <2>2. CASE Idle
    <3>1. ToSet(notices') = {} /\ ToSet(buffer') = {} /\ queue = <<>>
      BY <2>2, EmptyContents DEF Drain, Idle
    <3>2. CASE batch = <<>>
      <4>1. queue' = queue /\ fate' = Settle(fate, all, "discarded")
        BY <2>2, <3>2 DEF Drain
      <4>2. \A x \in Prompts : fate'[x] = IF x \in all THEN "discarded" ELSE fate[x]
        BY <4>1 DEF Settle
      <4> QED BY <3>1, <4>1, <4>2
    <3>3. CASE batch # <<>>
      <4>1. /\ queue' = <<Head(batch)>>
            /\ fate' = Settle(Settle(Settle(fate, all \ ToSet(batch), "discarded"),
                                     ToSet(batch), "merged"),
                              {Head(batch)}, "pending")
        BY <2>2, <3>3 DEF Drain
      <4>2. batch \in Seq(Prompts) /\ ToSet(batch) \subseteq all
        <5>1. Swept \in Seq(Prompts)
          BY DEF IInv, TypeOK, Swept, Seen
        <5>2. ~(goal \in {"active", "complete"})
          BY <3>3 DEF Surfaced
        <5> QED BY <5>1, <5>2, KeepType, KeepContents DEF Surfaced
      <4> HIDE DEF all, batch
      <4> DEFINE h == Head(batch)
      <4>3. h \in ToSet(batch) /\ h \in all /\ h \in Prompts
        BY <3>3, <4>2, SomeContents
      <4>4. queue' = <<h>> /\ ToSet(<<h>>) = {h} /\ IsInjective(<<h>>)
        BY <4>1, SingleContents
      <4>5. \A x \in Prompts : fate'[x] = IF x = h THEN "pending"
                                          ELSE IF x \in ToSet(batch) THEN "merged"
                                          ELSE IF x \in all THEN "discarded"
                                          ELSE fate[x]
        BY <4>1 DEF Settle
      <4> HIDE DEF h
      <4>6. \A x \in Prompts \ {h} :
              IF x \in all THEN fate'[x] \in {"discarded", "merged"}
                           ELSE fate'[x] = fate[x]
        BY <4>2, <4>5
      <4> QED BY <3>1, <4>3, <4>4, <4>5, <4>6
    <3> QED BY <3>2, <3>3
  <2> QED BY <2>1, <2>2
<1> HIDE DEF all, batch
<1>5. CASE UNCHANGED <<notices, buffer, queue, fate>>
  <2>1. PromptsHeld' /\ NoticesHeld'
    BY <1>1, <1>5 DEF Ledger, PromptsHeld, NoticesHeld
  <2>2. TextsHeld'
    BY <1>1, <1>3, <1>5 DEF Ledger, TextsHeld, Cancelling
  <2>3. (SpawnedOnce /\ TurnReports /\ CancelSound /\ PinSound /\ TerminalOnce)'
    BY <1>1, <1>5, QueuedIsRunning, BesideTurns DEF Cancelling
  <2> QED BY <2>1, <2>2, <2>3 DEF Ledger
<1>6. CASE /\ ToSet(notices') = {} /\ ToSet(buffer') = {} /\ queue = <<>>
           /\ IsInjective(queue') /\ ToSet(queue') \subseteq all
           /\ \A x \in Prompts : IF x \in ToSet(queue') THEN fate'[x] = "pending"
                                 ELSE IF x \in all THEN fate'[x] \in {"discarded", "merged"}
                                 ELSE fate'[x] = fate[x]
  <2>1. ToSet(queue) = {}
    BY <1>6, EmptyContents
  <2>2. PromptsHeld'
    <3>1. \A x \in Prompts : fate'[x] = "pending" <=> x \in ToSet(queue')
      BY <1>2, <1>3, <1>6, <2>1
    <3> QED BY <1>1, <1>3, <1>6, <3>1 DEF PromptsHeld
  <2>3. NoticesHeld'
    <3>1. \A n \in Notice : fate'[n] # "buffered"
      BY <1>2, <1>6, SortFacts
    <3> QED BY <1>6, <3>1 DEF NoticesHeld
  <2>4. TextsHeld'
    <3>1. \A i \in Fallback : fate'[i] = fate[i]
      BY <1>2, <1>6, TextsAreNoNotices, SortFacts
    <3> QED BY <1>1, <1>3, <3>1 DEF Ledger, TextsHeld, Cancelling
  <2>5. (SpawnedOnce /\ TurnReports /\ CancelSound /\ PinSound /\ TerminalOnce)'
    <3>1. spawned \cap all = {}
      BY <1>2, <1>3, AnswerFacts DEF Ledger, SpawnedOnce
    <3>2. \A x \in spawned : fate'[x] = fate[x]
      BY <1>3, <1>6, <3>1
    <3>3. ToSet(queue') \cap spawned \subseteq {running}
      BY <1>6, <3>1
    <3> QED BY <1>1, <3>2, <3>3, BesideTurns DEF Cancelling
  <2> QED BY <2>2, <2>3, <2>4, <2>5 DEF Ledger
<1>7. \/ UNCHANGED <<notices, buffer, queue, fate>>
      \/ /\ ToSet(notices') = {} /\ ToSet(buffer') = {} /\ queue = <<>>
         /\ IsInjective(queue') /\ ToSet(queue') \subseteq all
         /\ \A x \in Prompts : IF x \in ToSet(queue') THEN fate'[x] = "pending"
                               ELSE IF x \in all THEN fate'[x] \in {"discarded", "merged"}
                               ELSE fate'[x] = fate[x]
  <2>1. queue = <<>> => ToSet(queue) = {}
    BY EmptyContents
  <2> QED BY <1>3, <1>4, <2>1
<1> QED BY <1>5, <1>6, <1>7

----------------------------------------------------------------------------
(* The completion arm.                                                     *)

(* The completion at the head of the channel, and those behind it.         *)
LEMMA CompletionsSplit ==
  ASSUME IInv, completions # <<>>
  PROVE  ToSet(completions) = {Head(completions)} \cup ToSet(Tail(completions))
BY TailContents DEF IInv, TypeOK

(* A completion is taken; the pin no longer names its turn.                *)
LEMMA CompleteLedger ==
  ASSUME IInv, Ledger, Complete
  PROVE  Ledger'
<1>1. /\ pc = "select" /\ pc' = "complete" /\ cur' = Head(completions)
      /\ ToSet(completions) = {cur'} \cup ToSet(completions')
      /\ pin' = Clear(pin, (cur.id)')
      /\ UNCHANGED <<stranded, cancel, spawned, live, notices, buffer, running, queue,
                     interjections, fate, terminals>>
  BY CompletionsSplit DEF Complete, turnVars, noticeVars
<1>2. PromptsHeld' /\ TextsHeld' /\ NoticesHeld'
  BY <1>1 DEF Ledger, PromptsHeld, TextsHeld, NoticesHeld, Cancelling
<1>3. (cur.id)' \in spawned \ live /\ (cur.id)' # NoPrompt
  BY <1>1, SortFacts DEF Ledger, SpawnedOnce, IInv, TypeOK
<1>4. SpawnedOnce'
  BY <1>1, <1>3 DEF Ledger, SpawnedOnce
<1>5. TurnReports'
  BY <1>1 DEF Ledger, TurnReports
<1>6. CancelSound' /\ TerminalOnce'
  BY <1>1 DEF Ledger, CancelSound, TerminalOnce, Cancelling
<1>7. PinSound'
  BY <1>1, <1>3 DEF Ledger, PinSound, Clear
<1> QED BY <1>2, <1>4, <1>5, <1>6, <1>7 DEF Ledger

(* A completion owns the front only if the front is its running turn: the  *)
(* slot of any other turn is left alone.                                   *)
LEMMA OwnedFacts ==
  ASSUME IInv, Ledger, pc = "complete"
  PROVE  /\ cur.id \in spawned \ live /\ cur.id \in Prompts /\ cur.id # NoPrompt
         /\ Owned => /\ running = cur.id /\ queue # <<>> /\ Head(queue) = cur.id
                     /\ live = {} /\ pin = NoPrompt
         /\ ~Owned => Clear(running, cur.id) = running
<1>1. /\ cur.id \in spawned \ live /\ cur.id \in Prompts /\ cur.id # NoPrompt
      /\ cancel.task = NoPrompt /\ live \subseteq {running, NoPrompt} /\ live \subseteq Prompts
      /\ pin \in {NoPrompt, running} /\ pin # cur.id
  BY SortFacts, NoCancelFacts
     DEF Ledger, SpawnedOnce, CancelSound, PinSound, Cancelling, IInv, TypeOK
<1>2. ASSUME Owned
      PROVE  /\ running = cur.id /\ queue # <<>> /\ Head(queue) = cur.id
             /\ live = {} /\ pin = NoPrompt
  <2>1. queue # <<>> /\ Head(queue) = cur.id /\ Head(queue) \in ToSet(queue)
    BY <1>2, SomeContents DEF Owned, IsFront, IInv, TypeOK, Seen
  <2>2. running = cur.id
    BY <1>1, <2>1, QueuedIsRunning
  <2> QED BY <1>1, <2>1, <2>2, SortFacts
<1>3. ~Owned => Clear(running, cur.id) = running
  BY <1>1 DEF IInv, FrontIsRunning, Owned, Clear
<1> QED BY <1>1, <1>2, <1>3

(* The turn that owns the front is done, and published once.               *)
LEMMA CompleteLockLedger ==
  ASSUME IInv, Ledger, CompleteLock
  PROVE  Ledger'
<1>1. /\ pc = "complete" /\ pc' = "turnEnd"
      /\ queue' = (IF Owned THEN Tail(queue) ELSE queue)
      /\ running' = (IF Owned THEN NoPrompt ELSE Clear(running, cur.id))
      /\ fate' = (IF Owned THEN [fate EXCEPT ![cur.id] = "done"] ELSE fate)
      /\ terminals' = (IF Owned THEN [terminals EXCEPT ![cur.id] = @ + 1] ELSE terminals)
      /\ UNCHANGED <<cur, stranded, cancel, spawned, live, notices, buffer, pin,
                     interjections, completions>>
  BY DEF CompleteLock, turnVars, noticeVars
<1>2. /\ cur.id \in spawned \ live /\ cur.id \in Prompts /\ cur.id # NoPrompt
      /\ Owned => /\ running = cur.id /\ queue # <<>> /\ Head(queue) = cur.id
                  /\ live = {} /\ pin = NoPrompt
      /\ ~Owned => Clear(running, cur.id) = running
  BY <1>1, OwnedFacts
<1>3. /\ cancel = NoCancel /\ ToSet(cancel.resolved) = {} /\ cancel.task = NoPrompt
      /\ IsInjective(cancel.resolved) /\ stranded = <<>> /\ IsInjective(queue)
      /\ queue \in Seq(Prompts)
      /\ \A p \in Prompts : fate[p] = "pending" <=> p \in ToSet(queue)
  BY <1>1, OutsideFacts DEF Cancelling, IInv, TypeOK, Seen
<1>4. CASE ~Owned
  <2>1. UNCHANGED <<running, queue, fate, terminals>>
    BY <1>1, <1>2, <1>4
  <2>2. PromptsHeld' /\ TextsHeld' /\ NoticesHeld'
    BY <1>1, <1>3, <2>1 DEF Ledger, PromptsHeld, TextsHeld, NoticesHeld, Cancelling
  <2>3. SpawnedOnce'
    BY <1>1, <2>1 DEF Ledger, SpawnedOnce
  <2>4. TurnReports'
    <3>1. running # NoPrompt => running # cur.id
      BY <1>2, <1>4 DEF Clear
    <3> QED BY <1>1, <2>1, <3>1 DEF Ledger, TurnReports
  <2>5. CancelSound' /\ PinSound' /\ TerminalOnce'
    BY <1>1, <2>1 DEF Ledger, CancelSound, PinSound, TerminalOnce, Cancelling
  <2> QED BY <2>2, <2>3, <2>4, <2>5 DEF Ledger
<1>5. CASE Owned
  <2>1. /\ running' = NoPrompt /\ running = cur.id
        /\ ToSet(queue) = {cur.id} \cup ToSet(queue') /\ cur.id \notin ToSet(queue')
        /\ IsInjective(queue')
    BY <1>1, <1>2, <1>3, <1>5, TailContents
  <2>2. \A p \in Prompts : fate'[p] = IF p = cur.id THEN "done" ELSE fate[p]
    BY <1>1, <1>2, <1>5 DEF IInv, TypeOK
  <2>3. fate[cur.id] = "pending"
    BY <1>2, <1>3, <2>1
  <2>4. PromptsHeld'
    <3>1. \A p \in Prompts : fate'[p] = "pending" <=> p \in ToSet(queue')
      BY <1>3, <2>1, <2>2
    <3> QED BY <1>1, <1>3, <2>1, <3>1 DEF PromptsHeld
  <2>5. \A p \in Prompts : fate'[p] = "buffered" <=> fate[p] = "buffered"
    BY <2>2, <2>3
  <2>6. TextsHeld' /\ NoticesHeld'
    BY <1>1, <1>3, <2>5, SortFacts DEF Ledger, TextsHeld, NoticesHeld, Cancelling
  <2>7. SpawnedOnce'
    <3>1. \A p \in spawned : fate'[p] \in Answers \cup {"pending"}
      BY <2>2, AnswerFacts DEF Ledger, SpawnedOnce, IInv, TypeOK
    <3>2. ToSet(queue') \cap spawned \subseteq {NoPrompt}
      BY <1>1, <2>1, QueuedIsRunning
    <3> QED BY <1>1, <1>2, <1>5, <2>1, <3>1, <3>2 DEF Ledger, SpawnedOnce
  <2>8. TurnReports' /\ CancelSound' /\ PinSound'
    BY <1>1, <1>2, <1>3, <1>5, <2>1 DEF Ledger, TurnReports, CancelSound, PinSound, Cancelling
  <2>9. TerminalOnce'
    <3>1. ASSUME NEW p \in Prompts
          PROVE  terminals'[p] =
                   IF p \in spawned /\ fate'[p] \in {"done", "cancelled"} THEN 1 ELSE 0
      <4>1. terminals[p] =
              IF p \in spawned /\ fate[p] \in {"done", "cancelled"} THEN 1 ELSE 0
        BY DEF Ledger, TerminalOnce
      <4>2. terminals'[p] = IF p = cur.id THEN terminals[p] + 1 ELSE terminals[p]
        BY <1>1, <1>2, <1>5 DEF IInv, TypeOK
      <4> QED BY <1>2, <2>2, <2>3, <4>1, <4>2
    <3> QED BY <1>1, <3>1 DEF TerminalOnce
  <2> QED BY <2>4, <2>6, <2>7, <2>8, <2>9 DEF Ledger
<1> QED BY <1>4, <1>5

(* The end of the arm: a continuation may be queued, the events of the     *)
(* turn become pending notices, the interjections it missed are taken.     *)
LEMMA TurnEndArmLedger ==
  ASSUME IInv, Ledger, TurnEndArm
  PROVE  Ledger'
<1>1. /\ pc = "turnEnd" /\ pc' = (IF interjections = <<>> THEN "start" ELSE "flush")
      /\ stranded' = interjections /\ interjections' = <<>> /\ ToSet(interjections') = {}
      /\ IsInjective(interjections')
      /\ notices' = notices \o buffer /\ buffer' = <<>> /\ ToSet(buffer') = {}
      /\ UNCHANGED <<cancel, running, pin, spawned, live, completions, terminals>>
  BY EmptyContents DEF TurnEndArm, Swept, turnVars
<1>2. /\ IsInjective(queue) /\ ToSet(cancel.resolved) = {}
      /\ cancel.resolved = <<>> /\ IsInjective(cancel.resolved)
      /\ \A x \in Prompts : fate[x] = "pending" <=> x \in ToSet(queue)
      /\ \A i \in Fallback : fate[i] = "buffered" <=> i \in ToSet(interjections)
  BY <1>1, OutsideFacts DEF Cancelling
<1>3. /\ IsInjective(queue') /\ ToSet(queue') \cap spawned \subseteq {running}
      /\ \A x \in Prompts : fate'[x] = "pending" <=> x \in ToSet(queue')
      /\ \A x \in Prompts : fate'[x] = "buffered" <=> fate[x] = "buffered"
      /\ \A x \in spawned : fate'[x] = fate[x]
  <2>1. CASE UNCHANGED <<queue, fate>>
    BY <1>1, <1>2, <2>1, QueuedIsRunning
  <2>2. ASSUME NEW g \in Goal, fate[g] = "new", queue' = Append(queue, g),
               fate' = [fate EXCEPT ![g] = "pending"]
        PROVE  /\ IsInjective(queue') /\ ToSet(queue') \cap spawned \subseteq {running}
               /\ \A x \in Prompts : fate'[x] = "pending" <=> x \in ToSet(queue')
               /\ \A x \in Prompts : fate'[x] = "buffered" <=> fate[x] = "buffered"
               /\ \A x \in spawned : fate'[x] = fate[x]
    BY <1>1, <2>2, AppendLedger DEF Cancelling
  <2>3. \/ UNCHANGED <<queue, fate>>
        \/ \E g \in Goal : /\ fate[g] = "new"
                           /\ queue' = Append(queue, g)
                           /\ fate' = [fate EXCEPT ![g] = "pending"]
    BY DEF TurnEndArm
  <2> QED BY <2>1, <2>2, <2>3
<1>4. PromptsHeld'
  BY <1>1, <1>2, <1>3 DEF PromptsHeld
<1>5. TextsHeld'
  <2>1. \A i \in Fallback : fate'[i] = "buffered" <=> i \in ToSet(interjections)
    BY <1>2, <1>3, SortFacts
  <2> QED BY <1>1, <2>1 DEF Ledger, TextsHeld, Cancelling
<1>6. NoticesHeld'
  <2>1. \A n \in Notice : fate'[n] = "buffered" <=> fate[n] = "buffered"
    BY <1>3, SortFacts
  <2> QED BY <1>1, <2>1, SweptContents DEF NoticesHeld
<1>7. (SpawnedOnce /\ TurnReports /\ CancelSound /\ PinSound /\ TerminalOnce)'
  BY <1>1, <1>3, BesideTurns DEF Cancelling
<1> QED BY <1>4, <1>5, <1>6, <1>7 DEF Ledger

----------------------------------------------------------------------------
(* Turn tasks, and the tasks that start a turn.                            *)

(* The turn merges what it was sent.                                       *)
LEMMA TurnMergeLedger ==
  ASSUME IInv, Ledger, NEW p \in Prompts, TurnMerge(p)
  PROVE  Ledger'
<1> DEFINE merged == ToSet(interjections \o buffer)
<1>1. /\ pc # "stopped" /\ interjections' = <<>> /\ buffer' = <<>>
      /\ ToSet(interjections') = {} /\ ToSet(buffer') = {} /\ IsInjective(interjections')
      /\ fate' = Settle(fate, merged, "merged")
      /\ UNCHANGED <<pc, cur, stranded, cancel, spawned, live, notices, running, queue,
                     pin, completions, terminals>>
  BY EmptyContents DEF TurnMerge, Open, loopVars, turnVars
<1>2. merged = ToSet(interjections) \cup ToSet(buffer)
  BY ConcatContents DEF IInv, TypeOK, Seen
<1> HIDE DEF merged
<1>3. /\ \A x \in merged : x \in Prompts /\ fate[x] = "buffered"
      /\ \A x \in Prompts : fate'[x] = IF x \in merged THEN "merged" ELSE fate[x]
  BY <1>1, <1>2, SortFacts DEF Ledger, TextsHeld, NoticesHeld, Settle
<1>4. PromptsHeld'
  <2>1. \A x \in Prompts : fate'[x] = "pending" <=> fate[x] = "pending"
    BY <1>3
  <2> QED BY <1>1, <2>1 DEF Ledger, PromptsHeld
<1>5. TextsHeld'
  <2>1. \A i \in Fallback : fate'[i] = "buffered" <=> i \in ToSet(stranded)
    BY <1>2, <1>3, SortFacts, TextsAreNoNotices DEF Ledger, TextsHeld, NoticesHeld
  <2> QED BY <1>1, <2>1 DEF Ledger, TextsHeld, Cancelling
<1>6. NoticesHeld'
  <2>1. \A n \in Notice : fate'[n] = "buffered" <=> n \in ToSet(notices)
    BY <1>2, <1>3, SortFacts, TextsAreNoNotices DEF Ledger, TextsHeld, NoticesHeld
  <2> QED BY <1>1, <2>1 DEF Ledger, NoticesHeld
<1>7. (SpawnedOnce /\ TurnReports /\ CancelSound /\ PinSound /\ TerminalOnce)'
  <2>1. \A x \in spawned : fate'[x] = fate[x]
    BY <1>3, AnswerFacts DEF Ledger, SpawnedOnce, IInv, TypeOK
  <2> QED BY <1>1, <2>1, QueuedIsRunning, BesideTurns
<1> QED BY <1>4, <1>5, <1>6, <1>7 DEF Ledger

(* The turn learns that a task is done; its wake and notices are moot.     *)
LEMMA TurnConsumeLedger ==
  ASSUME IInv, Ledger, NEW p \in Prompts, NEW w \in Wake, TurnConsume(p, w)
  PROVE  Ledger'
<1> DEFINE moot == {n \in ToSet(notices) : SourceOf[n] = w}
           swept == ToSet(queue) \ ToSet(queue')
<1>1. /\ pc # "stopped" /\ queue' = Sweep(queue, running, {w})
      /\ fate' = Settle(Settle(fate, swept, "dropped"), moot, "discarded")
      /\ UNCHANGED <<pc, cur, stranded, cancel, spawned, live, buffer, running,
                     pin, interjections, completions, terminals>>
  BY DEF TurnConsume, Open, loopVars, turnVars
<1>2. /\ ToSet(notices') = {n \in ToSet(notices) : SourceOf[n] # w}
  BY KeepContents DEF TurnConsume, FromOthers, IInv, TypeOK, Seen
<1>3. /\ ToSet(queue') = {x \in ToSet(queue) : x = running \/ x # w}
      /\ IsInjective(queue) => IsInjective(queue')
  BY <1>1, SweepContents DEF IInv, TypeOK, Seen
<1>4. /\ \A n \in moot : n \in Notice /\ n \in Prompts /\ fate[n] = "buffered"
      /\ \A x \in swept : x \in ToSet(queue) /\ x \in Prompts /\ fate[x] = "pending"
                          /\ x # running /\ x \notin ToSet(queue')
      /\ moot = {n \in ToSet(notices) : SourceOf[n] = w}
  BY <1>1, <1>3, SortFacts, QueuedIsRunning DEF Ledger, NoticesHeld, PromptsHeld
<1>5. \A x \in ToSet(queue) : x \in swept \/ x \in ToSet(queue')
  OBVIOUS
<1> HIDE DEF moot, swept
<1>6. \A x \in Prompts : fate'[x] = IF x \in moot THEN "discarded"
                                    ELSE IF x \in swept THEN "dropped" ELSE fate[x]
  BY <1>1 DEF Settle
<1>7. PromptsHeld'
  <2>1. ASSUME NEW x \in Prompts
        PROVE  fate'[x] = "pending" <=> x \in ToSet(queue') \cup ToSet(cancel.resolved)
    <3>1. /\ fate[x] = "pending" <=> x \in ToSet(queue) \cup ToSet(cancel.resolved)
          /\ x \notin ToSet(queue) \cap ToSet(cancel.resolved)
          /\ x \in ToSet(queue') => x \in ToSet(queue)
      BY <1>1, <1>3 DEF Ledger, PromptsHeld
    <3>2. CASE x \in moot
      BY <1>4, <1>6, <3>1, <3>2
    <3>3. CASE x \in swept
      BY <1>4, <1>6, <3>1, <3>3
    <3>4. CASE x \notin moot \cup swept
      BY <1>5, <1>6, <3>1, <3>4
    <3> QED BY <3>2, <3>3, <3>4
  <2>2. ToSet(queue') \cap ToSet(cancel.resolved) = {}
    BY <1>1, <1>3 DEF Ledger, PromptsHeld
  <2> QED BY <1>1, <1>3, <2>1, <2>2 DEF Ledger, PromptsHeld
<1>8. NoticesHeld'
  <2>1. \A n \in Notice :
          fate'[n] = "buffered" <=> n \in ToSet(notices') \cup ToSet(buffer')
    BY <1>1, <1>2, <1>4, <1>6, SortFacts DEF Ledger, NoticesHeld
  <2> QED BY <1>1, <1>2, <2>1 DEF Ledger, NoticesHeld
<1>9. TextsHeld'
  <2>1. \A i \in Fallback : fate'[i] = "buffered" <=> fate[i] = "buffered"
    BY <1>4, <1>6, TextsAreNoNotices, SortFacts
  <2> QED BY <1>1, <2>1 DEF Ledger, TextsHeld, Cancelling
<1>10. (SpawnedOnce /\ TurnReports /\ CancelSound /\ PinSound /\ TerminalOnce)'
  <2>1. \A x \in spawned : x \in Prompts /\ x \notin moot /\ x \notin swept
    BY <1>1, <1>4, QueuedIsRunning, AnswerFacts DEF Ledger, SpawnedOnce, IInv, TypeOK
  <2>2. \A x \in spawned : fate'[x] = fate[x]
    BY <1>6, <2>1
  <2>3. ToSet(queue') \cap spawned \subseteq {running}
    BY <1>1, <1>3, QueuedIsRunning
  <2> QED BY <1>1, <2>2, <2>3, BesideTurns
<1> QED BY <1>7, <1>8, <1>9, <1>10 DEF Ledger

(* The turn ends: its completion is on its way.                            *)
LEMMA TurnEndLedger ==
  ASSUME IInv, Ledger, NEW p \in Prompts, NEW ok \in BOOLEAN, TurnEnd(p, ok)
  PROVE  Ledger'
<1> DEFINE c == [id |-> p, ok |-> ok]
<1>1. /\ p \in live /\ live' = live \ {p} /\ pin' \in {pin, Clear(pin, p)}
      /\ completions' = Append(completions, c)
      /\ UNCHANGED <<pc, cur, stranded, cancel, spawned, notices, buffer, running, queue,
                     interjections, fate, terminals>>
  BY DEF TurnEnd, loopVars, noticeVars
<1>2. c \in [id : Maybe, ok : BOOLEAN] /\ c.id = p
  BY SortFacts
<1> HIDE DEF c
<1>3. ToSet(completions') = ToSet(completions) \cup {c}
  <2> DEFINE R == [id : Maybe, ok : BOOLEAN]
  <2>1. completions \in Seq(R) /\ c \in R
    BY <1>2 DEF IInv, TypeOK
  <2> HIDE DEF R
  <2>2. ToSet(Append(completions, c)) = ToSet(completions) \cup {c}
    BY <2>1, AppendContents
  <2> QED BY <1>1, <2>2
<1>4. PromptsHeld' /\ TextsHeld' /\ NoticesHeld'
  BY <1>1 DEF Ledger, PromptsHeld, TextsHeld, NoticesHeld, Cancelling
<1>5. SpawnedOnce'
  BY <1>1, <1>2, <1>3 DEF Ledger, SpawnedOnce
<1>6. TurnReports'
  BY <1>1, <1>2, <1>3 DEF Ledger, TurnReports
<1>7. CancelSound' /\ TerminalOnce'
  BY <1>1 DEF Ledger, CancelSound, TerminalOnce, Cancelling
<1>8. PinSound'
  <2>1. pc = "complete" => cur.id # NoPrompt
    BY SortFacts DEF Ledger, SpawnedOnce, IInv, TypeOK
  <2> QED BY <1>1, <2>1 DEF Ledger, PinSound, Clear
<1> QED BY <1>4, <1>5, <1>6, <1>7, <1>8 DEF Ledger

(* The guard of an aborted turn may clear the pin, its own only.           *)
LEMMA ReapLedger ==
  ASSUME IInv, Ledger, NEW p \in Prompts, Reap(p)
  PROVE  Ledger'
<1>1. /\ pin' \in {pin, Clear(pin, p)}
      /\ UNCHANGED <<pc, cur, stranded, cancel, spawned, live, notices, buffer, running,
                     queue, interjections, completions, fate, terminals>>
  BY DEF Reap, loopVars, noticeVars
<1>2. PromptsHeld' /\ TextsHeld' /\ NoticesHeld'
  BY <1>1 DEF Ledger, PromptsHeld, TextsHeld, NoticesHeld, Cancelling
<1>3. SpawnedOnce' /\ TurnReports' /\ CancelSound' /\ TerminalOnce'
  BY <1>1 DEF Ledger, SpawnedOnce, TurnReports, CancelSound, TerminalOnce, Cancelling
<1>4. PinSound'
  <2>1. pc = "complete" => cur.id # NoPrompt
    BY SortFacts DEF Ledger, SpawnedOnce, IInv, TypeOK
  <2> QED BY <1>1, <2>1 DEF Ledger, PinSound, Clear
<1> QED BY <1>2, <1>3, <1>4 DEF Ledger

(* MCP initialisation and a resumed approval start the front prompt,       *)
(* whatever arm the loop is in.                                            *)
LEMMA StarterLedger ==
  ASSUME IInv, Ledger, McpReady \/ PlanStart
  PROVE  Ledger'
<1>1. /\ pc # "stopped" /\ MaybeStart /\ pc' = pc
      /\ UNCHANGED <<cur, cancel, queue, fate, interjections, stranded, notices,
                     buffer, completions, terminals>>
  BY DEF McpReady, PlanStart, Open, loopVars, noticeVars
<1> QED BY <1>1, StartLedger

(* A resumed approval queues its prompt, whatever arm the loop is in.      *)
LEMMA PlanQueueLedger ==
  ASSUME IInv, Ledger, NEW r \in Plan, PlanQueue(r)
  PROVE  Ledger'
<1> DEFINE kept == ToSet(Remaining(r))
           lost == IF CancelsTurn(r, FALSE) THEN ToSet(interjections) ELSE {}
<1>1. /\ pc # "stopped" /\ r \in Prompts /\ fate[r] = "new" /\ QueueInput(r, FALSE)
      /\ UNCHANGED <<pc, cur, stranded, cancel, spawned, live, notices, buffer, running,
                     pin, interjections, completions, terminals>>
  BY SortFacts DEF PlanQueue, Open, loopVars, turnVars, noticeVars
<1>2. lost = {}
  <2> DEFINE sorts == <<Client, Fallback, Wake, Notice, Goal, Plan>>
  <2>1. \A i, j \in 1..6 : i # j => sorts[i] \cap sorts[j] = {}
    BY SortsDisjoint, Zenon
  <2>2. {1, 2, 6} \subseteq 1..6 /\ 1 # 6 /\ 2 # 6
    OBVIOUS
  <2>3. sorts[1] \cap sorts[6] = {} /\ sorts[2] \cap sorts[6] = {}
    BY <2>1, <2>2, Zenon
  <2>4. r \notin User
    BY <2>3 DEF User
  <2> QED BY <2>4 DEF CancelsTurn, SendsNow
<1>3. /\ kept \subseteq ToSet(queue) /\ (running \in ToSet(queue) => running \in kept)
      /\ ToSet(queue') = kept \cup {r} /\ IsInjective(queue')
      /\ fate' = [x \in Prompts |->
                    IF x = r THEN "pending"
                    ELSE IF x \in lost THEN "discarded"
                    ELSE IF x \in ToSet(queue) \ kept THEN "dropped"
                    ELSE fate[x]]
  BY <1>1, QueueInputLedger
<1> HIDE DEF kept, lost
<1>4. \A x \in Prompts : fate'[x] = IF x = r THEN "pending"
                                    ELSE IF x \in ToSet(queue) \ kept THEN "dropped"
                                    ELSE fate[x]
  BY <1>2, <1>3
<1>5. /\ ToSet(queue) \cap ToSet(cancel.resolved) = {} /\ IsInjective(cancel.resolved)
      /\ \A x \in Prompts :
           fate[x] = "pending" <=> x \in ToSet(queue) \cup ToSet(cancel.resolved)
      /\ r \notin ToSet(queue) \cup ToSet(cancel.resolved)
  BY <1>1 DEF Ledger, PromptsHeld
<1>6. PromptsHeld'
  <2>1. \A x \in Prompts :
          fate'[x] = "pending" <=> x \in ToSet(queue') \cup ToSet(cancel.resolved)
    BY <1>3, <1>4, <1>5
  <2>2. ToSet(queue') \cap ToSet(cancel.resolved) = {}
    BY <1>3, <1>5
  <2> QED BY <1>1, <1>3, <1>5, <2>1, <2>2 DEF PromptsHeld
<1>7. \A x \in Prompts : fate'[x] = "buffered" <=> fate[x] = "buffered"
  BY <1>1, <1>4, <1>5
<1>8. TextsHeld' /\ NoticesHeld'
  BY <1>1, <1>7, SortFacts DEF Ledger, TextsHeld, NoticesHeld, Cancelling
<1>9. (SpawnedOnce /\ TurnReports /\ CancelSound /\ PinSound /\ TerminalOnce)'
  <2>1. \A x \in spawned : x \in Prompts /\ x # r /\ x \notin ToSet(queue) \ kept
    BY <1>1, <1>3, QueuedIsRunning, AnswerFacts DEF Ledger, SpawnedOnce, IInv, TypeOK
  <2>2. \A x \in spawned : fate'[x] = fate[x]
    BY <1>4, <2>1
  <2>3. ToSet(queue') \cap spawned \subseteq {running}
    BY <1>1, <1>3, <2>1, QueuedIsRunning
  <2> QED BY <1>1, <2>2, <2>3, BesideTurns
<1> QED BY <1>6, <1>8, <1>9 DEF Ledger

----------------------------------------------------------------------------
(* Steps of a turn that leave the books alone.                             *)
LEMMA TurnBesideLedger ==
  ASSUME IInv, Ledger, NEW p \in Prompts,
         \/ TurnBegin(p) \/ TurnEmit(p) \/ TurnWait(p) \/ DropGuard(p)
         \/ \E status : TurnGoal(p, status)
  PROVE  Ledger'
<1>1. UNCHANGED ledgerVars
  <2>1. CASE TurnBegin(p)
    BY <2>1 DEF TurnBegin, ledgerVars, loopVars, noticeVars
  <2>2. CASE TurnEmit(p)
    BY <2>2 DEF TurnEmit, ledgerVars, loopVars, noticeVars, turnVars
  <2>3. CASE TurnWait(p)
    BY <2>3 DEF TurnWait, ledgerVars, loopVars, noticeVars, turnVars
  <2>4. CASE DropGuard(p)
    BY <2>4 DEF DropGuard, ledgerVars, loopVars, noticeVars, turnVars
  <2>5. ASSUME NEW status, TurnGoal(p, status)  PROVE UNCHANGED ledgerVars
    BY <2>5 DEF TurnGoal, ledgerVars, loopVars, noticeVars, turnVars
  <2> QED BY <2>1, <2>2, <2>3, <2>4, <2>5
<1> QED BY <1>1, BesideLedger

(* Every step of the session keeps the books.                              *)
LEMMA NextLedger ==
  ASSUME IInv, Ledger, [Next]_vars
  PROVE  Ledger'
<1>1. CASE Command
  <2>1. ASSUME NEW p \in Client, InterjectQueued(p) \/ RemoveQueued(p)
        PROVE  Ledger'
    BY <2>1, SortFacts, InterjectQueuedLedger, RemoveQueuedLedger
  <2>2. ASSUME NEW kind \in Cancels, Cancel(kind)  PROVE Ledger'
    BY <2>2, CancelLedger
  <2>3. ASSUME NEW o \in Owners \cup {AnyOwner}, ClearQueue(o)  PROVE Ledger'
    BY <2>3, ClearQueueLedger
  <2> QED BY <1>1, <2>1, <2>2, <2>3, PromptLedger, ReorderLedger, InterjectLedger,
             GoalSummaryTurnLedger, InjectNotificationLedger,
             DropMonitorNotificationsLedger, ShutdownLedger DEF Command
<1>2. CASE RunLoopStep
  BY <1>2, CompleteLedger, CompleteLockLedger, TurnEndArmLedger, FlushLedger,
     StartStepLedger, CancelLockLedger, CancelGateLedger, CancelAbortLedger,
     CancelFinishLedger, DrainLedger, DrainStartLedger DEF RunLoopStep
<1>3. ASSUME NEW p \in Prompts, TurnStep(p)  PROVE Ledger'
  <2>1. ASSUME NEW w \in Wake, TurnConsume(p, w)  PROVE Ledger'
    BY <2>1, TurnConsumeLedger
  <2>2. ASSUME NEW ok \in BOOLEAN, TurnEnd(p, ok)  PROVE Ledger'
    BY <2>2, TurnEndLedger
  <2> QED BY <1>3, <2>1, <2>2, TurnBesideLedger, TurnMergeLedger, ReapLedger DEF TurnStep
<1>4. CASE Starter
  BY <1>4, StarterLedger, PlanQueueLedger DEF Starter
<1>5. CASE UNCHANGED vars
  <2>1. UNCHANGED ledgerVars
    BY <1>5 DEF vars, ledgerVars, loopVars, starterVars, turnVars, waitVars,
       goalVars, noticeVars
  <2> QED BY <2>1, BesideLedger
<1> QED BY <1>1, <1>2, <1>3, <1>4, <1>5 DEF Next

----------------------------------------------------------------------------
(* Upkeep: the queue has a start ahead of it, the wait depth counts        *)
(* nothing that is gone.                                                   *)
Zeroing == {"cancelGate", "cancelAbort"}

(* maybe_start_running_task leaves no queue without a running turn.        *)
LEMMA StartUpkeep ==
  ASSUME IInv, Ledger, Upkeep, MaybeStart, pc' \in Zeroing <=> pc \in Zeroing,
         UNCHANGED <<queue, depth, waits>>
  PROVE  Upkeep'
<1>1. live \subseteq live' /\ live' \subseteq live \cup {Head(queue)}
  BY DEF MaybeStart
<1>2. running' = NoPrompt => queue = <<>>
  BY HeadTail, SortFacts DEF MaybeStart, CanStart, IInv, TypeOK, Seen
<1>3. IsFiniteSet(waits \cap live')
  <2>1. live' \subseteq {running, cancel.task, Head(queue)}
    BY <1>1 DEF Ledger, SpawnedOnce
  <2>2. IsFiniteSet({running, cancel.task, Head(queue)})
    <3>1. /\ IsFiniteSet({running}) /\ IsFiniteSet({cancel.task})
          /\ IsFiniteSet({Head(queue)})
      BY FS_Singleton
    <3>2. IsFiniteSet({running} \cup {cancel.task} \cup {Head(queue)})
      BY <3>1, FS_Union
    <3>3. {running} \cup {cancel.task} \cup {Head(queue)}
            = {running, cancel.task, Head(queue)}
      OBVIOUS
    <3> QED BY <3>2, <3>3
  <2> QED BY <2>1, <2>2, FS_Subset
<1>4. /\ Cardinality(waits \cap live) <= Cardinality(waits \cap live')
      /\ Cardinality(waits \cap live) \in Nat /\ Cardinality(waits \cap live') \in Nat
  <2>1. waits \cap live \subseteq waits \cap live'
    BY <1>1
  <2> QED BY <1>3, <2>1, FS_Subset, FS_CardinalityType
<1>5. DepthSound'
  BY <1>4 DEF Upkeep, DepthSound, IInv, TypeOK, Zeroing
<1>6. QueueServed'
  BY <1>2 DEF QueueServed
<1> QED BY <1>5, <1>6 DEF Upkeep

(* A step that leaves turns and waits alone, and queues nothing that no    *)
(* later step of its arm starts.                                           *)
LEMMA BesideUpkeep ==
  ASSUME Upkeep, pc' \in Zeroing <=> pc \in Zeroing,
         UNCHANGED <<depth, waits, live>>,
         QueueServed'
  PROVE  Upkeep'
BY DEF Upkeep, DepthSound, Zeroing

(* The queue stays served where it does not grow.                          *)
LEMMA ShrinkServed ==
  ASSUME IInv, Upkeep, queue' \in Seen, ToSet(queue') \subseteq ToSet(queue),
         UNCHANGED <<running, resuming>>,
         pc' \in {"select", "drain", "complete"} => pc \in {"select", "drain", "complete"}
  PROVE  QueueServed'
<1>1. queue = <<>> => queue' = <<>>
  BY SomeContents DEF IInv, TypeOK, Seen
<1> QED BY <1>1 DEF Upkeep, QueueServed

(* Commands keep the upkeep.                                               *)
LEMMA CommandUpkeep ==
  ASSUME IInv, IInv', Ledger, Ledger', Upkeep, Command
  PROVE  Upkeep'
<1> USE DEF Zeroing
<1>1. /\ pc = "select" /\ pc' \notin Zeroing
      /\ UNCHANGED <<running, resuming, depth, waits, live>>
      /\ \/ pc' \notin {"select", "drain", "complete"}
         \/ pc' \in {"select", "drain"} /\ (queue' = queue \/ \E q : QueueEdit(q))
  <2>1. ASSUME NEW p \in Client \cup Wake \cup Goal, NEW asked \in BOOLEAN,
               Prompt(p, asked)
        PROVE  /\ pc = "select" /\ pc' \in {"start", "cancelLock"}
               /\ UNCHANGED <<running, resuming, depth, waits, live>>
    BY <2>1 DEF Prompt, Ready, BeginCancel, starterVars, waitVars, turnVars
  <2>2. ASSUME NEW p \in Client, InterjectQueued(p)
        PROVE  /\ pc = "select" /\ pc' \in {"start", "cancelLock"}
               /\ UNCHANGED <<running, resuming, depth, waits, live>>
    BY <2>2 DEF InterjectQueued, Ready, BeginCancel, starterVars, waitVars, turnVars
  <2>3. ASSUME NEW q, QueueEdit(q), Ready
        PROVE  /\ pc = "select" /\ pc' = "select"
               /\ UNCHANGED <<running, resuming, depth, waits, live>>
    BY <2>3 DEF QueueEdit, Ready, loopVars, starterVars, waitVars, turnVars
  <2>4. ASSUME NEW i \in Fallback, Interject(i)
        PROVE  /\ pc = "select" /\ pc' \in {"select", "flush"} /\ queue' = queue
               /\ UNCHANGED <<running, resuming, depth, waits, live>>
    BY <2>4 DEF Interject, Ready, starterVars, waitVars, turnVars
  <2>5. ASSUME NEW g \in Goal, GoalSummaryTurn(g)
        PROVE  /\ pc = "select" /\ pc' = "start"
               /\ UNCHANGED <<running, resuming, depth, waits, live>>
    BY <2>5 DEF GoalSummaryTurn, Ready, starterVars, waitVars, turnVars
  <2>6. ASSUME NEW n \in Notice, NEW urgent \in BOOLEAN, InjectNotification(n, urgent)
        PROVE  /\ pc = "select" /\ pc' \in {"select", "drain"} /\ queue' = queue
               /\ UNCHANGED <<running, resuming, depth, waits, live>>
    BY <2>6 DEF InjectNotification, Ready, starterVars, waitVars, turnVars
  <2>7. ASSUME NEW w \in Wake, DropMonitorNotifications(w)
        PROVE  /\ pc = "select" /\ pc' = "select" /\ queue' = queue
               /\ UNCHANGED <<running, resuming, depth, waits, live>>
    BY <2>7 DEF DropMonitorNotifications, Ready, loopVars, starterVars, waitVars,
       turnVars
  <2>8. ASSUME NEW kind \in Cancels, Cancel(kind)
        PROVE  /\ pc = "select" /\ pc' = "cancelLock"
               /\ UNCHANGED <<running, resuming, depth, waits, live>>
    BY <2>8 DEF Cancel, Ready, BeginCancel, starterVars, waitVars, turnVars
  <2>9. ASSUME NEW closed \in BOOLEAN, Shutdown(closed)
        PROVE  /\ pc = "select" /\ pc' = "stopped"
               /\ UNCHANGED <<running, resuming, depth, waits, live>>
    BY <2>9 DEF Shutdown, Ready, starterVars, waitVars, turnVars
  <2>10. ASSUME \/ \E p \in Client : RemoveQueued(p)
                \/ \E order \in Orders : Reorder(order)
                \/ \E o \in Owners \cup {AnyOwner} : ClearQueue(o)
         PROVE  Ready /\ \E q : QueueEdit(q)
    BY <2>10 DEF RemoveQueued, Reorder, ClearQueue
  <2> QED BY <2>1, <2>2, <2>3, <2>4, <2>5, <2>6, <2>7, <2>8, <2>9, <2>10 DEF Command
<1>2. QueueServed'
  <2>1. CASE pc' \notin {"select", "drain", "complete"}
    BY <2>1 DEF QueueServed
  <2>2. CASE pc' \in {"select", "drain"} /\ queue' = queue
    BY <1>1, <2>2 DEF Upkeep, QueueServed
  <2>3. ASSUME NEW q, QueueEdit(q), pc' \in {"select", "drain"}  PROVE QueueServed'
    <3>1. /\ \A x \in Prompts : fate'[x] \in {fate[x], "removed"}
          /\ UNCHANGED <<pc, cancel>>
      BY <2>3 DEF QueueEdit, Settle, loopVars
    <3>2. /\ \A x \in Prompts : fate[x] = "pending" <=> x \in ToSet(queue)
          /\ \A x \in Prompts : fate'[x] = "pending" =>
               x \in ToSet(queue)
      BY <1>1, <3>1, OutsideFacts DEF Cancelling
    <3>3. \A x \in ToSet(queue') : x \in Prompts /\ fate'[x] = "pending"
      BY <1>1, <3>1, SomeContents DEF IInv, TypeOK, Seen, Ledger, PromptsHeld
    <3>4. ToSet(queue') \subseteq ToSet(queue) /\ queue' \in Seen
      BY <3>2, <3>3 DEF IInv, TypeOK
    <3> QED BY <1>1, <3>4, ShrinkServed
  <2> QED BY <1>1, <2>1, <2>2, <2>3
<1> QED BY <1>1, <1>2, BesideUpkeep

(* The arms of the run loop keep the upkeep.                               *)
LEMMA RunLoopUpkeep ==
  ASSUME IInv, Ledger, Ledger', Upkeep, RunLoopStep
  PROVE  Upkeep'
<1> USE DEF Zeroing
<1>1. CASE Complete
  <2>1. /\ pc = "select" /\ pc' = "complete"
        /\ UNCHANGED <<running, queue, resuming, depth, waits, live>>
    BY <1>1 DEF Complete, starterVars, waitVars, turnVars
  <2> QED BY <2>1 DEF Upkeep, QueueServed, DepthSound
<1>2. CASE CompleteLock \/ TurnEndArm \/ Flush \/ CancelFinish
  <2>1. /\ pc \notin Zeroing /\ pc' \in {"turnEnd", "start", "flush"}
        /\ UNCHANGED <<depth, waits, live>>
    BY <1>2 DEF CompleteLock, TurnEndArm, Flush, CancelFinish, waitVars, turnVars
  <2>2. QueueServed'
    BY <2>1 DEF QueueServed
  <2> QED BY <2>1, <2>2, BesideUpkeep
<1>3. CASE Start \/ DrainStart
  <2>1. /\ MaybeStart /\ pc \in {"start", "drainStart"} /\ pc' \in {"select", "drain"}
        /\ UNCHANGED <<queue, depth, waits>>
    BY <1>3 DEF Start, DrainStart, waitVars
  <2> QED BY <2>1, StartUpkeep
<1>4. CASE CancelLock \/ CancelGate
  BY <1>4 DEF CancelLock, CancelGate, Upkeep, QueueServed, DepthSound
<1>5. CASE CancelAbort
  <2>1. pc' = "cancelFinish" /\ depth' = 0
    BY <1>5 DEF CancelAbort, DepthAfterAbort
  <2>2. Cardinality((waits \cap live)') \in Nat
    <3>1. (waits \cap live)' \subseteq {(running)', (cancel.task)'}
      BY DEF Ledger, SpawnedOnce
    <3>2. IsFiniteSet({(running)'}) /\ IsFiniteSet({(cancel.task)'})
      BY FS_Singleton
    <3>3. IsFiniteSet({(running)'} \cup {(cancel.task)'})
      BY <3>2, FS_Union
    <3>4. (waits \cap live)' \subseteq {(running)'} \cup {(cancel.task)'}
      BY <3>1
    <3>5. IsFiniteSet((waits \cap live)')
      BY <3>3, <3>4, FS_Subset
    <3> QED BY <3>5, FS_CardinalityType
  <2> QED BY <2>1, <2>2 DEF Upkeep, QueueServed, DepthSound
<1>6. CASE Drain
  <2>1. /\ pc = "drain" /\ pc' = (IF queue' # queue THEN "drainStart" ELSE "select")
        /\ UNCHANGED <<running, resuming, depth, waits, live>>
    BY <1>6 DEF Drain, starterVars, waitVars, turnVars
  <2>2. QueueServed'
    BY <2>1 DEF Upkeep, QueueServed
  <2> QED BY <2>1, <2>2, BesideUpkeep
<1> QED BY <1>1, <1>2, <1>3, <1>4, <1>5, <1>6 DEF RunLoopStep

(* The waits of live turns can be counted.                                 *)
LEMMA WaitsFinite ==
  ASSUME Ledger
  PROVE  IsFiniteSet(waits \cap live)
<1>1. IsFiniteSet({running}) /\ IsFiniteSet({cancel.task})
  BY FS_Singleton
<1>2. IsFiniteSet({running} \cup {cancel.task})
  BY <1>1, FS_Union
<1>3. waits \cap live \subseteq {running} \cup {cancel.task}
  BY DEF Ledger, SpawnedOnce
<1> QED BY <1>2, <1>3, FS_Subset

(* Turn tasks keep the upkeep.                                             *)
LEMMA TurnUpkeep ==
  ASSUME IInv, IInv', Ledger, Upkeep, NEW p \in Prompts, TurnStep(p)
  PROVE  Upkeep'
<1> DEFINE counted == waits \cap live
<1>1. IsFiniteSet(counted) /\ Cardinality(counted) \in Nat /\ depth \in Nat
  BY WaitsFinite, FS_CardinalityType DEF IInv, TypeOK
<1>2. CASE TurnBegin(p) \/ TurnEmit(p) \/ TurnMerge(p) \/ Reap(p)
  <2>1. UNCHANGED <<pc, running, queue, resuming, depth, waits, live>>
    BY <1>2 DEF TurnBegin, TurnEmit, TurnMerge, Reap, loopVars, starterVars, waitVars,
       turnVars
  <2>2. QueueServed'
    BY <2>1 DEF Upkeep, QueueServed
  <2> QED BY <2>1, <2>2, BesideUpkeep
<1>3. CASE TurnWait(p)
  <2>1. /\ p \in live \ waits /\ waits' = waits \cup {p} /\ depth' = depth + 1
        /\ UNCHANGED <<pc, running, queue, resuming, live>>
    BY <1>3 DEF TurnWait, loopVars, starterVars, turnVars
  <2>2. (waits \cap live)' = counted \cup {p} /\ p \notin counted
    BY <2>1
  <2> HIDE DEF counted
  <2>3. Cardinality((waits \cap live)') = Cardinality(counted) + 1
    BY <1>1, <2>2, FS_AddElement
  <2>4. DepthSound'
    BY <1>1, <2>1, <2>3 DEF Upkeep, DepthSound, counted
  <2>5. QueueServed'
    BY <2>1 DEF Upkeep, QueueServed
  <2> QED BY <2>4, <2>5 DEF Upkeep
<1>4. CASE DropGuard(p)
  <2>1. /\ waits' = waits \ {p} /\ depth' = (IF depth = 0 THEN 0 ELSE depth - 1)
        /\ UNCHANGED <<pc, running, queue, resuming, live>>
    BY <1>4 DEF DropGuard, Lowered, loopVars, starterVars, turnVars
  <2>2. (waits \cap live)' = counted \ {p}
    BY <2>1
  <2> HIDE DEF counted
  <2>3. Cardinality((waits \cap live)') =
          IF p \in counted THEN Cardinality(counted) - 1 ELSE Cardinality(counted)
    BY <1>1, <2>2, FS_RemoveElement
  <2>4. p \in counted => Cardinality(counted) # 0
    BY <1>1, FS_EmptySet
  <2>5. DepthSound'
    BY <1>1, <2>1, <2>3, <2>4 DEF Upkeep, DepthSound, counted
  <2>6. QueueServed'
    BY <2>1 DEF Upkeep, QueueServed
  <2> QED BY <2>5, <2>6 DEF Upkeep
<1>5. ASSUME NEW w \in Wake, TurnConsume(p, w)  PROVE Upkeep'
  <2>1. /\ queue' = Sweep(queue, running, {w})
        /\ UNCHANGED <<pc, running, resuming, depth, waits, live>>
    BY <1>5 DEF TurnConsume, loopVars, starterVars, waitVars, turnVars
  <2>2. ToSet(queue') \subseteq ToSet(queue) /\ queue' \in Seen
    BY <2>1, SweepContents DEF IInv, TypeOK, Seen
  <2>3. QueueServed'
    BY <2>1, <2>2, ShrinkServed
  <2> QED BY <2>1, <2>3, BesideUpkeep
<1>6. ASSUME NEW status \in {"active", "complete", "none"}, TurnGoal(p, status)
      PROVE  Upkeep'
  <2>1. UNCHANGED <<pc, running, queue, resuming, depth, waits, live>>
    BY <1>6 DEF TurnGoal, loopVars, starterVars, waitVars, turnVars
  <2> QED BY <2>1 DEF Upkeep, QueueServed, DepthSound
<1>7. ASSUME NEW ok \in BOOLEAN, TurnEnd(p, ok)  PROVE Upkeep'
  <2>1. /\ p \notin waits /\ live' = live \ {p}
        /\ UNCHANGED <<pc, running, queue, resuming, depth, waits>>
    BY <1>7 DEF TurnEnd, loopVars, starterVars, waitVars
  <2>2. (waits \cap live)' = waits \cap live
    BY <2>1
  <2> QED BY <2>1, <2>2 DEF Upkeep, QueueServed, DepthSound
<1> QED BY <1>2, <1>3, <1>4, <1>5, <1>6, <1>7 DEF TurnStep

(* Starting tasks keep the upkeep.                                         *)
LEMMA StarterUpkeep ==
  ASSUME IInv, Ledger, Upkeep, Starter
  PROVE  Upkeep'
<1> USE DEF Zeroing
<1>1. CASE McpReady \/ PlanStart
  <2>1. MaybeStart /\ UNCHANGED <<pc, queue, depth, waits>>
    BY <1>1 DEF McpReady, PlanStart, loopVars, waitVars
  <2> QED BY <2>1, StartUpkeep
<1>2. ASSUME NEW r \in Plan, PlanQueue(r)  PROVE Upkeep'
  <2>1. /\ resuming' # NoPrompt
        /\ UNCHANGED <<pc, depth, waits, live>>
    BY <1>2, SortFacts DEF PlanQueue, loopVars, waitVars, turnVars
  <2>2. QueueServed'
    BY <2>1 DEF QueueServed
  <2> QED BY <2>1, <2>2, BesideUpkeep
<1> QED BY <1>1, <1>2 DEF Starter

----------------------------------------------------------------------------
(* The inductive invariant.                                                *)
Balance == IInv /\ Ledger /\ Upkeep

(* The balance is struck at first and kept by every step.                  *)
LEMMA InitBalance == Init => Balance
<1> SUFFICES ASSUME Init PROVE Balance
  OBVIOUS
<1>1. QueueServed
  BY DEF Init, QueueServed
<1>2. DepthSound
  <2>1. depth = 0 /\ waits \cap live = {}
    BY DEF Init
  <2>2. Cardinality(waits \cap live) = 0
    BY <2>1, FS_EmptySet
  <2> QED BY <2>1, <2>2 DEF DepthSound
<1> QED BY <1>1, <1>2, InitInv, InitLedger DEF Balance, Upkeep

(* Every step keeps it.                                                    *)
LEMMA NextBalance ==
  ASSUME Balance, [Next]_vars
  PROVE  Balance'
<1>1. IInv' /\ Ledger'
  BY NextInv, NextLedger DEF Balance
<1>2. ASSUME UNCHANGED vars  PROVE Upkeep'
  BY <1>2 DEF vars, loopVars, starterVars, turnVars, waitVars, noticeVars,
     Balance, Upkeep, QueueServed, DepthSound
<1>3. ASSUME Command  PROVE Upkeep'
  BY <1>1, <1>3, CommandUpkeep DEF Balance
<1>4. ASSUME RunLoopStep  PROVE Upkeep'
  BY <1>1, <1>4, RunLoopUpkeep DEF Balance
<1>5. ASSUME NEW p \in Prompts, TurnStep(p)  PROVE Upkeep'
  BY <1>1, <1>5, TurnUpkeep DEF Balance
<1>6. ASSUME Starter  PROVE Upkeep'
  BY <1>6, StarterUpkeep DEF Balance
<1> QED BY <1>1, <1>2, <1>3, <1>4, <1>5, <1>6 DEF Balance, Next

(* The balance holds in every reachable state of every session.            *)
THEOREM BalanceKept == Spec => []Balance
BY InitBalance, NextBalance, PTL DEF Spec

(* The books balance in every session, start tasks and cancels included.   *)
THEOREM BooksBalance == Spec => []Books
<1>1. Balance => Books
  BY DEF Balance, Books
<1> QED BY <1>1, BalanceKept, PTL

(* A prompt whose request is unanswered is held exactly once, by the queue *)
(* or by the cancel under way: no sweep, promotion, cancel or stale        *)
(* completion loses a responder.                                           *)
THEOREM PromptsKept == Spec => []NoSilentDrop
<1>1. Balance => NoSilentDrop
  <2> SUFFICES ASSUME Balance, pc # "stopped" PROVE NoSilentDrop
    BY DEF NoSilentDrop
  <2>1. queue \in Seq(Prompts) /\ cancel.resolved \in Seq(Prompts)
    BY DEF Balance, IInv, TypeOK, Seen
  <2>2. IsInjective(queue \o cancel.resolved)
    BY <2>1, ConcatContents DEF Balance, Ledger, PromptsHeld
  <2> QED BY <2>2 DEF NoSilentDrop, Balance, Ledger, PromptsHeld
<1> QED BY <1>1, BalanceKept, PTL

(* Clients see one TurnCompleted for a turn that was done or cancelled and *)
(* none for any other prompt, however its completion and its cancel race.  *)
THEOREM PublishedOnce == Spec => []TerminalOnce
<1>1. Balance => TerminalOnce
  BY DEF Balance, Ledger
<1> QED BY <1>1, BalanceKept, PTL

(* The debug_assert of cancel_running_task never fires: the pin captured   *)
(* before the awaits of a cancel and the running task found after them     *)
(* name the same turn.                                                     *)
THEOREM PinsAgree == Spec => []PinAgrees
<1>1. Balance => PinAgrees
  BY DEF Balance, Ledger, CancelSound, PinAgrees
<1> QED BY <1>1, BalanceKept, PTL

(* One turn of the session runs at a time, besides the one being cancelled.*)
THEOREM OneTurnRuns == Spec => []OneTurn
<1>1. Balance => OneTurn
  <2> SUFFICES ASSUME Balance PROVE OneTurn
    OBVIOUS
  <2>1. live \ {cancel.task} \subseteq {running}
    BY DEF Balance, Ledger, SpawnedOnce
  <2>2. IsFiniteSet({running}) /\ Cardinality({running}) = 1
    BY FS_Singleton
  <2>3. Cardinality(live \ {cancel.task}) <= Cardinality({running})
    BY <2>1, <2>2, FS_Subset
  <2> QED BY <2>2, <2>3 DEF OneTurn
<1> QED BY <1>1, BalanceKept, PTL

(* A session at rest strands no prompt and no interjection.                *)
THEOREM NoneStranded == Spec => []NothingStranded
<1>1. Balance => NothingStranded
  <2> SUFFICES ASSUME Balance, AtRest
               PROVE  queue = <<>> /\ interjections = <<>> /\ running = NoPrompt
    BY DEF NothingStranded
  <2>1. ToSet(completions) = {} /\ live = {} /\ pc = "select" /\ resuming = NoPrompt
    BY EmptyContents DEF AtRest
  <2>2. running = NoPrompt
    BY <2>1 DEF Balance, Ledger, TurnReports
  <2>3. queue = <<>>
    BY <2>1, <2>2 DEF Balance, Upkeep, QueueServed
  <2>4. interjections = <<>>
    BY <2>1, <2>2 DEF Balance, Ledger, TextsHeld
  <2> QED BY <2>2, <2>3, <2>4
<1> QED BY <1>1, BalanceKept, PTL

(* The wait depth that lets a plain prompt cancel the running turn counts  *)
(* no wait of a turn that is gone.                                         *)
THEOREM WaitsAreLive == Spec => []NoStaleWait
<1>1. Balance => NoStaleWait
  BY DEF Balance, Upkeep, DepthSound, NoStaleWait
<1> QED BY <1>1, BalanceKept, PTL

(* A step that raises no gate, ends no turn and takes no completion leaves *)
(* a raised gate to whoever was to lower it.                               *)
LEMMA GateBeside ==
  ASSUME ~Unattended, goalGate' => goalGate, live \subseteq live',
         completions' = completions,
         pc \in {"stopped", "cancelGate"} => pc' = pc \/ ~goalGate'
  PROVE  ~Unattended'
BY DEF Unattended

(* The completion arm lowers the gate unless a running turn holds the pin, *)
(* and that turn lives or has yet to report.                               *)
LEMMA GateComplete ==
  ASSUME Ledger', Complete
  PROVE  ~Unattended'
<1>1. pc' = "complete" /\ goalGate' = (goalGate /\ pin' # NoPrompt)
  BY DEF Complete, GateAfter
<1>2. CASE pin' = NoPrompt
  BY <1>1, <1>2 DEF Unattended
<1>3. CASE pin' # NoPrompt
  <2>1. running' = pin' /\ pin' # (cur.id)'
    BY <1>1, <1>3 DEF Ledger, PinSound
  <2>2. running' \in live' \/ \E c \in ToSet(completions') : c.id = running'
    BY <1>1, <1>3, <2>1 DEF Ledger, TurnReports
  <2> QED BY <2>2, EmptyContents DEF Unattended
<1> QED BY <1>2, <1>3

(* Commands leave the gate and the turns alone.                            *)
LEMMA GateCommand ==
  ASSUME Command, ~Unattended
  PROVE  ~Unattended'
<1>1. pc = "select" /\ UNCHANGED <<goalGate, live, completions>>
  BY DEF Command, Ready, BeginCancel, Prompt, InterjectQueued, RemoveQueued, Reorder,
     ClearQueue, QueueEdit, Interject, GoalSummaryTurn, InjectNotification,
     DropMonitorNotifications, Cancel, Shutdown, turnVars, goalVars
<1> QED BY <1>1, GateBeside

(* A start adds a turn and touches neither the gate nor the completions.   *)
LEMMA GateStart ==
  ASSUME MaybeStart, ~Unattended, UNCHANGED <<goalGate, completions>>,
         pc \notin {"stopped", "cancelGate"} \/ pc' = pc
  PROVE  ~Unattended'
<1>1. live \subseteq live'
  BY DEF MaybeStart
<1> QED BY <1>1, GateBeside

(* The arms of the run loop, but the abort of a cancel.                    *)
LEMMA GateRunLoop ==
  ASSUME Ledger', ~Unattended, RunLoopStep, ~CancelAbort
  PROVE  ~Unattended'
<1>1. CASE CompleteLock \/ TurnEndArm \/ Flush \/ CancelFinish \/ Drain
  <2>1. /\ pc \notin {"stopped", "cancelGate"}
        /\ UNCHANGED <<goalGate, live, completions>>
    BY <1>1 DEF CompleteLock, TurnEndArm, Flush, CancelFinish, Drain, turnVars, goalVars
  <2> QED BY <2>1, GateBeside
<1>2. CASE Start \/ DrainStart
  <2>1. /\ MaybeStart /\ pc \notin {"stopped", "cancelGate"}
        /\ UNCHANGED <<goalGate, completions>>
    BY <1>2 DEF Start, DrainStart, goalVars
  <2> QED BY <2>1, GateStart
<1>3. CASE CancelLock \/ CancelGate
  BY <1>3 DEF CancelLock, CancelGate, Unattended
<1> QED BY <1>1, <1>2, <1>3, GateComplete DEF RunLoopStep

(* A turn that raises the gate lives, and one that ends reports.           *)
LEMMA GateTurn ==
  ASSUME IInv, ~Unattended, NEW p \in Prompts, TurnStep(p)
  PROVE  ~Unattended'
<1>1. ASSUME NEW status \in {"active", "complete", "none"}, TurnGoal(p, status)
      PROVE  ~Unattended'
  <2>1. p \in live /\ live' = live
    BY <1>1 DEF TurnGoal, turnVars
  <2> QED BY <2>1 DEF Unattended
<1>2. ASSUME NEW ok \in BOOLEAN, TurnEnd(p, ok)  PROVE ~Unattended'
  <2>1. completions' = Append(completions, [id |-> p, ok |-> ok])
    BY <1>2 DEF TurnEnd
  <2>2. completions' # <<>>
    BY <2>1 DEF IInv, TypeOK
  <2> QED BY <2>2 DEF Unattended
<1>3. CASE TurnBegin(p) \/ TurnEmit(p) \/ TurnMerge(p) \/ TurnWait(p) \/ DropGuard(p) \/ Reap(p)
  <2>1. UNCHANGED <<pc, goalGate, live, completions>>
    BY <1>3 DEF TurnBegin, TurnEmit, TurnMerge, TurnWait, DropGuard, Reap, loopVars,
       turnVars, goalVars
  <2> QED BY <2>1, GateBeside
<1>4. ASSUME NEW w \in Wake, TurnConsume(p, w)  PROVE ~Unattended'
  <2>1. UNCHANGED <<pc, goalGate, live, completions>>
    BY <1>4 DEF TurnConsume, loopVars, turnVars, goalVars
  <2> QED BY <2>1, GateBeside
<1> QED BY <1>1, <1>2, <1>3, <1>4 DEF TurnStep

(* Starting tasks.                                                         *)
LEMMA GateStarter ==
  ASSUME ~Unattended, Starter
  PROVE  ~Unattended'
<1>1. CASE McpReady \/ PlanStart
  <2>1. MaybeStart /\ UNCHANGED <<pc, goalGate, completions>>
    BY <1>1 DEF McpReady, PlanStart, loopVars, goalVars
  <2> QED BY <2>1, GateStart
<1>2. ASSUME NEW r \in Plan, PlanQueue(r)  PROVE ~Unattended'
  <2>1. UNCHANGED <<pc, goalGate, live, completions>>
    BY <1>2 DEF PlanQueue, loopVars, turnVars, goalVars
  <2> QED BY <2>1, GateBeside
<1> QED BY <1>1, <1>2 DEF Starter

(* Nothing but the abort of a cancel leaves the goal gate up without a     *)
(* turn, a completion or a cancel that will lower it: not a completion,    *)
(* stale or not, nor a rewind, a start or a turn of its own.               *)
THEOREM GateLeft == Spec => GateLeftByAbort
<1>1. ASSUME Balance, Balance', [Next]_vars, ~Unattended
      PROVE  ~Unattended' \/ CancelAbort
  <2>1. CASE UNCHANGED vars
    <3>1. UNCHANGED <<goalGate, live, completions, pc>>
      BY <2>1 DEF vars, goalVars, turnVars, loopVars
    <3> QED BY <1>1, <3>1, GateBeside
  <2>2. IInv /\ Ledger'
    BY <1>1 DEF Balance
  <2> QED BY <1>1, <2>1, <2>2, GateCommand, GateRunLoop, GateTurn, GateStarter DEF Next
<1>2. Balance /\ Balance' /\ [Next]_vars => [Unattended' => Unattended \/ CancelAbort]_vars
  BY <1>1
<1> QED BY <1>2, BalanceKept, PTL DEF Spec, GateLeftByAbort

(* A buffered notice is in the pending list or in the turn's buffer.       *)
THEOREM NoticesKept == Spec => []NoticesSurvive
<1>1. Balance => NoticesSurvive
  BY DEF Balance, Ledger, NoticesHeld, NoticesSurvive
<1> QED BY <1>1, BalanceKept, PTL

----------------------------------------------------------------------------
(* A turn starts only at the front of a queue without a running turn.      *)
LEMMA RunningMoves ==
  ASSUME [Next]_vars
  PROVE  \/ running' \in {running, NoPrompt}
         \/ pc # "stopped" /\ CanStart /\ running' = Head(queue)
<1>1. ASSUME MaybeStart, pc # "stopped"
      PROVE  \/ running' = running
             \/ pc # "stopped" /\ CanStart /\ running' = Head(queue)
  BY <1>1 DEF MaybeStart
<1>2. ASSUME Command  PROVE running' = running
  BY <1>2 DEF Command, Prompt, InterjectQueued, RemoveQueued, Reorder, ClearQueue,
     QueueEdit, Interject, GoalSummaryTurn, InjectNotification,
     DropMonitorNotifications, Cancel, Shutdown
<1>3. ASSUME RunLoopStep, ~Start, ~DrainStart  PROVE running' \in {running, NoPrompt}
  BY <1>3 DEF RunLoopStep, Complete, CompleteLock, TurnEndArm, Flush, CancelLock,
     CancelGate, CancelAbort, CancelFinish, Drain, Clear
<1>4. ASSUME NEW p \in Prompts, TurnStep(p)  PROVE running' = running
  BY <1>4 DEF TurnStep, TurnBegin, TurnEmit, TurnMerge, TurnWait, DropGuard,
     TurnConsume, TurnGoal, TurnEnd, Reap
<1>5. Starter => running' = running \/ (pc # "stopped" /\ MaybeStart)
  BY DEF Starter, McpReady, PlanQueue, PlanStart, Open
<1>6. Start \/ DrainStart => pc # "stopped" /\ MaybeStart
  BY DEF Start, DrainStart
<1>7. UNCHANGED vars => running' = running
  BY DEF vars
<1> QED BY <1>1, <1>2, <1>3, <1>4, <1>5, <1>6, <1>7 DEF Next

(* A turn task is spawned once per prompt: no cancel, stale completion or  *)
(* start task ever has the same prompt run twice.                          *)
THEOREM SpawnsOnce == Spec => StartsOnce
<1> DEFINE Once == \A p \in Prompts : running # p /\ running' = p => p \notin spawned
<1>1. Balance /\ [Next]_vars => [Once]_vars
  <2> SUFFICES ASSUME Balance, [Next]_vars, NEW p \in Prompts,
                      running # p, running' = p, p \in spawned
               PROVE  FALSE
    OBVIOUS
  <2>1. pc # "stopped" /\ CanStart /\ p = Head(queue)
    BY RunningMoves, SortFacts
  <2>2. p \in ToSet(queue)
    BY <2>1, SomeContents DEF CanStart, Balance, IInv, TypeOK, Seen
  <2> QED BY <2>1, <2>2, QueuedIsRunning DEF Balance
<1> QED BY <1>1, BalanceKept, PTL DEF Spec, StartsOnce

----------------------------------------------------------------------------
(***************************************************************************)
(* Sessions in which the run loop alone starts turns: nothing is left to   *)
(* initialise and no plan approval to resume.  They keep more than the     *)
(* balance, because no turn is promoted between two steps of an arm.       *)
(***************************************************************************)
LoopOnly == ~McpInit /\ Plan = {}

LoopAlone ==
  /\ mcp = "done" /\ resuming = NoPrompt
  /\ pc \in {"cancelGate", "cancelAbort", "cancelFinish"} => running = NoPrompt
  /\ pc = "cancelLock" /\ running = NoPrompt => queue = <<>>
  /\ cancel.kind = "teardown" => "teardown" \in Cancels
  /\ aborted \subseteq spawned \ (live \cup {running})

(* The completion of p waits, or is being served.                          *)
Reported(p) == \/ \E c \in ToSet(completions) : c.id = p
               \/ pc = "complete" /\ cur.id = p

(* The pin names the running turn until it has reported.                   *)
PinHeld == running # NoPrompt /\ pin = NoPrompt => Reported(running)

(* A turn reports once.                                                    *)
ReportedOnce ==
  /\ \A i, j \in DOMAIN completions : completions[i].id = completions[j].id => i = j
  /\ pc = "complete" => \A c \in ToSet(completions) : c.id # cur.id

(* A stale completion is ahead of every interjection.                      *)
StaleAhead == \/ \E p : p # running /\ Reported(p)
              \/ pc = "turnEnd" /\ running # NoPrompt
StaleFirst == StaleAhead => interjections = <<>>

(* Only turns that ran are taken by a cancel, but for a teardown.          *)
RanTaken == "teardown" \notin Cancels =>
              ToSet(cancel.resolved) \subseteq spawned /\ CancelSparesQueued

LoopBooks == /\ LoopOnly /\ LoopAlone /\ PinHeld /\ ReportedOnce
             /\ StaleFirst /\ RanTaken

(* A step that leaves the turns, the pin and the completions alone.        *)
LEMMA LoopBeside ==
  ASSUME LoopBooks, UNCHANGED <<running, pin, completions, live, aborted, spawned,
                                mcp, resuming, cur>>,
         interjections' \in {interjections, <<>>},
         pc' = pc \/ {pc, pc'} \cap {"complete", "turnEnd", "cancelGate", "cancelAbort",
                                   "cancelFinish"} = {}
           \/ (pc = "turnEnd" /\ pc' \in {"start", "flush"}),
         pc' = "cancelLock" /\ running = NoPrompt => queue' = <<>>,
         cancel' = cancel \/ (ToSet((cancel.resolved)') = {}
                                /\ (cancel.kind)' \in Cancels \cup {"send_now"}),
         \A p \in Prompts : fate'[p] = "cancelled" => fate[p] = "cancelled"
  PROVE  LoopBooks'
<1> USE DEF LoopBooks
<1>1. pc' = "complete" <=> pc = "complete"
  OBVIOUS
<1>2. \A p : Reported(p)' <=> Reported(p)
  BY <1>1 DEF Reported
<1>3. LoopOnly' /\ LoopAlone'
  BY DEF LoopOnly, LoopAlone
<1>4. PinHeld'
  BY <1>2 DEF PinHeld
<1>5. ReportedOnce'
  BY <1>1 DEF ReportedOnce
<1>6. StaleFirst'
  BY <1>2 DEF StaleFirst, StaleAhead
<1>7. RanTaken'
  BY DEF RanTaken, CancelSparesQueued
<1> QED BY <1>3, <1>4, <1>5, <1>6, <1>7

(* At the select, a queue without a running turn is empty.                 *)
LEMMA SelectServed ==
  ASSUME Balance, LoopBooks, pc = "select", running = NoPrompt
  PROVE  queue = <<>>
BY DEF Balance, Upkeep, QueueServed, LoopBooks, LoopAlone

(* The commands.                                                           *)
LEMMA CommandLoop ==
  ASSUME Balance, LoopBooks, Command
  PROVE  LoopBooks'
<1> DEFINE Calm == \A p \in Prompts : fate'[p] = "cancelled" => fate[p] = "cancelled"
           Kept == UNCHANGED <<running, pin, completions, live, aborted, spawned,
                               mcp, resuming, cur>>
<1> USE NoCancelFacts, EmptyContents DEF Ready
<1>1. ASSUME NEW p \in Prompts, NEW asked \in BOOLEAN, Prompt(p, asked)
      PROVE  LoopBooks'
  <2>1. /\ Kept /\ pc = "select" /\ interjections' \in {interjections, <<>>}
        /\ \/ pc' = "start" /\ cancel' = cancel
           \/ pc' = "cancelLock" /\ running # NoPrompt
                /\ cancel' = [NoCancel EXCEPT !.pinned = pin, !.kind = "send_now"]
    BY <1>1 DEF Prompt, BeginCancel, CancelsTurn, turnVars, starterVars
  <2>2. Calm
    BY <1>1 DEF Prompt, QueueInput, Settle
  <2>3. cancel' = cancel \/ (ToSet((cancel.resolved)') = {} /\ (cancel.kind)' = "send_now")
    BY <2>1 DEF NoCancel
  <2> QED BY <2>1, <2>2, <2>3, LoopBeside
<1>2. ASSUME NEW p \in Client, InterjectQueued(p)  PROVE LoopBooks'
  <2>1. /\ Kept /\ pc = "select" /\ interjections' \in {interjections, <<>>}
        /\ \/ pc' = "start" /\ cancel' = cancel
           \/ pc' = "cancelLock" /\ running # NoPrompt
                /\ cancel' = [NoCancel EXCEPT !.pinned = pin, !.kind = "send_now"]
    BY <1>2 DEF InterjectQueued, BeginCancel, turnVars, starterVars
  <2>2. Calm
    BY <1>2 DEF InterjectQueued, Settle
  <2>3. cancel' = cancel \/ (ToSet((cancel.resolved)') = {} /\ (cancel.kind)' = "send_now")
    BY <2>1 DEF NoCancel
  <2> QED BY <2>1, <2>2, <2>3, LoopBeside
<1>3. ASSUME NEW q, QueueEdit(q), Ready  PROVE LoopBooks'
  <2>1. /\ Kept /\ UNCHANGED <<pc, interjections, cancel>> /\ pc = "select"
    BY <1>3 DEF QueueEdit, turnVars, starterVars, loopVars
  <2>2. Calm
    BY <1>3 DEF QueueEdit, Settle
  <2> QED BY <2>1, <2>2, LoopBeside
<1>4. ASSUME NEW i \in Fallback, Interject(i)  PROVE LoopBooks'
  <2>1. /\ Kept /\ UNCHANGED cancel /\ pc = "select" /\ completions = <<>>
        /\ pc' \in {"select", "flush"}
    BY <1>4 DEF Interject, turnVars, starterVars, loopVars
  <2>2. Calm
    BY <1>4, SortFacts DEF Interject, Balance, IInv, TypeOK
  <2>3. \A p : ~Reported(p)' /\ ~Reported(p)
    BY <2>1 DEF Reported
  <2>4. LoopOnly' /\ LoopAlone' /\ PinHeld' /\ ReportedOnce'
    BY <2>1, <2>3 DEF LoopBooks, LoopOnly, LoopAlone, PinHeld, ReportedOnce
  <2>5. StaleFirst'
    BY <2>1, <2>3 DEF StaleFirst, StaleAhead
  <2>6. RanTaken'
    BY <2>1, <2>2 DEF LoopBooks, RanTaken, CancelSparesQueued
  <2> QED BY <2>4, <2>5, <2>6 DEF LoopBooks
<1>5. ASSUME NEW g \in Goal, GoalSummaryTurn(g)  PROVE LoopBooks'
  <2>1. /\ Kept /\ UNCHANGED <<interjections, cancel>> /\ pc = "select" /\ pc' = "start"
    BY <1>5 DEF GoalSummaryTurn, turnVars, starterVars
  <2>2. Calm
    BY <1>5, SortFacts DEF GoalSummaryTurn, Balance, IInv, TypeOK
  <2> QED BY <2>1, <2>2, LoopBeside
<1>6. ASSUME NEW n \in Notice, NEW urgent \in BOOLEAN, InjectNotification(n, urgent)
      PROVE  LoopBooks'
  <2>1. /\ Kept /\ UNCHANGED <<interjections, cancel>> /\ pc = "select"
        /\ pc' \in {"select", "drain"}
    BY <1>6 DEF InjectNotification, turnVars, starterVars, loopVars
  <2>2. Calm
    BY <1>6, SortFacts DEF InjectNotification, Settle, Balance, IInv, TypeOK
  <2> QED BY <2>1, <2>2, LoopBeside
<1>7. ASSUME NEW w \in Wake, DropMonitorNotifications(w)  PROVE LoopBooks'
  <2>1. /\ Kept /\ UNCHANGED <<pc, interjections, cancel>> /\ pc = "select"
    BY <1>7 DEF DropMonitorNotifications, turnVars, starterVars, loopVars
  <2>2. Calm
    BY <1>7 DEF DropMonitorNotifications, Settle
  <2> QED BY <2>1, <2>2, LoopBeside
<1>8. ASSUME NEW kind \in Cancels, Cancel(kind)  PROVE LoopBooks'
  <2>1. /\ Kept /\ UNCHANGED queue /\ pc = "select" /\ pc' = "cancelLock"
        /\ interjections' = <<>>
        /\ cancel' = [NoCancel EXCEPT !.pinned = pin, !.kind = kind]
    BY <1>8 DEF Cancel, BeginCancel, turnVars, starterVars
  <2>2. Calm
    BY <1>8 DEF Cancel, Settle
  <2>3. running = NoPrompt => queue' = <<>>
    BY <2>1, SelectServed
  <2>4. ToSet((cancel.resolved)') = {} /\ (cancel.kind)' = kind
    BY <2>1 DEF NoCancel
  <2> QED BY <2>1, <2>2, <2>3, <2>4, LoopBeside
<1>9. ASSUME NEW closed \in BOOLEAN, Shutdown(closed)  PROVE LoopBooks'
  <2>1. /\ Kept /\ UNCHANGED <<interjections, cancel>> /\ pc = "select" /\ pc' = "stopped"
    BY <1>9 DEF Shutdown, turnVars, starterVars
  <2>2. Calm
    BY <1>9 DEF Shutdown, Settle
  <2> QED BY <2>1, <2>2, LoopBeside
<1>10. \A p \in Client \cup Wake \cup Goal : p \in Prompts
  BY SortFacts
<1> QED BY <1>1, <1>2, <1>3, <1>4, <1>5, <1>6, <1>7, <1>8, <1>9, <1>10
        DEF Command, RemoveQueued, Reorder, ClearQueue

(* The steps of the arms.                                                  *)
LEMMA LoopArms ==
  ASSUME Balance, LoopBooks, TurnEndArm \/ Flush \/ Drain
  PROVE  LoopBooks'
<1> DEFINE Calm == \A p \in Prompts : fate'[p] = "cancelled" => fate[p] = "cancelled"
           Kept == UNCHANGED <<running, pin, completions, live, aborted, spawned,
                               mcp, resuming>>
<1>1. CASE Flush
  <2>1. /\ Kept /\ UNCHANGED <<cur, interjections, cancel>> /\ pc = "flush"
        /\ pc' \in {"start", "flush"}
    BY <1>1 DEF Flush, turnVars, starterVars
  <2>2. stranded # <<>> /\ stranded \in Seq(Prompts)
    BY <2>1 DEF Balance, IInv, FlushHasText, TypeOK, Seen
  <2>3. Last(stranded) \in Prompts
    BY <2>2, LastFront
  <2>4. Calm
    BY <1>1, <2>3 DEF Flush, Balance, IInv, TypeOK
  <2> QED BY <2>1, <2>4, LoopBeside
<1>2. CASE Drain
  <2>1. /\ Kept /\ UNCHANGED <<cur, interjections, cancel>> /\ pc = "drain"
        /\ pc' \in {"drainStart", "select"}
    BY <1>2 DEF Drain, turnVars, starterVars
  <2>2. Calm
    BY <1>2 DEF Drain, Settle
  <2> QED BY <2>1, <2>2, LoopBeside
<1>3. CASE TurnEndArm
  <2>1. /\ Kept /\ UNCHANGED cancel /\ pc = "turnEnd" /\ pc' \in {"start", "flush"}
        /\ interjections' = <<>>
    BY <1>3 DEF TurnEndArm, turnVars, starterVars
  <2>2. Calm
    BY <1>3, SortFacts DEF TurnEndArm, Balance, IInv, TypeOK
  <2>3. \A p : Reported(p)' <=> Reported(p)
    BY <2>1 DEF Reported
  <2> QED BY <2>1, <2>2, <2>3 DEF LoopBooks, LoopOnly, LoopAlone, PinHeld, ReportedOnce,
          StaleFirst, StaleAhead, RanTaken, CancelSparesQueued
<1> QED BY <1>1, <1>2, <1>3

(* A start takes the pin, and no completion names the turn it spawns.      *)
LEMMA LoopStart ==
  ASSUME Balance, LoopBooks, Start \/ DrainStart
  PROVE  LoopBooks'
<1>1. /\ pc \in {"start", "drainStart"} /\ pc' \in {"select", "drain"} /\ MaybeStart
      /\ UNCHANGED <<completions, aborted, mcp, resuming, interjections, cancel, fate>>
  BY DEF Start, DrainStart, starterVars
<1>2. /\ running' # running => /\ running = NoPrompt /\ running' \notin spawned
                               /\ pin' = running' /\ running' # NoPrompt
      /\ spawned \subseteq spawned' /\ live' \subseteq live \cup {running'}
      /\ running' = running => UNCHANGED <<pin, live, spawned>>
      /\ spawned' = spawned \cup (live' \ live)
  <2>1. CASE ~CanStart
    BY <1>1, <2>1 DEF MaybeStart
  <2>2. CASE CanStart
    <3>1. /\ Head(queue) \in ToSet(queue) /\ running = NoPrompt
          /\ ToSet(queue) \subseteq Prompts
      BY <2>2, SomeContents DEF CanStart, Balance, IInv, TypeOK, Seen
    <3>2. Head(queue) \in Prompts /\ Head(queue) \notin spawned /\ NoPrompt \notin Prompts
      BY <1>1, <3>1, QueuedIsRunning, SortFacts DEF Balance
    <3>3. live \subseteq spawned
      BY DEF Balance, Ledger, SpawnedOnce
    <3> QED BY <1>1, <2>2, <3>1, <3>2, <3>3 DEF MaybeStart
  <2> QED BY <2>1, <2>2
<1>3. \A p : Reported(p)' => Reported(p) /\ p \in spawned
  BY <1>1 DEF Reported, Balance, Ledger, SpawnedOnce
<1>4. LoopOnly' /\ LoopAlone'
  BY <1>1, <1>2 DEF LoopBooks, LoopOnly, LoopAlone
<1>5. PinHeld'
  BY <1>1, <1>2 DEF LoopBooks, PinHeld, Reported
<1>6. ReportedOnce'
  BY <1>1 DEF LoopBooks, ReportedOnce
<1>7. StaleFirst'
  <2>1. StaleAhead' => StaleAhead
    <3>1. ASSUME NEW p, p # running', Reported(p)'  PROVE p # running /\ Reported(p)
      BY <1>2, <1>3, <3>1, SortFacts DEF Balance, IInv, TypeOK
    <3> QED BY <1>1, <3>1 DEF StaleAhead
  <2> QED BY <1>1, <2>1 DEF LoopBooks, StaleFirst
<1>8. RanTaken'
  BY <1>1, <1>2 DEF LoopBooks, RanTaken, CancelSparesQueued
<1> QED BY <1>4, <1>5, <1>6, <1>7, <1>8 DEF LoopBooks

(* A cancel under way: there is no running turn to lose its pin, and no    *)
(* interjection to lose its turn.                                          *)
LEMMA LoopCancel ==
  ASSUME Balance, Balance', LoopBooks,
         CancelLock \/ CancelGate \/ CancelAbort \/ CancelFinish
  PROVE  LoopBooks'
<1>1. /\ pc \in Cancelling /\ pc' \in {"cancelGate", "cancelAbort", "cancelFinish", "start"}
      /\ running' = NoPrompt /\ interjections = <<>> /\ live' \subseteq live
      /\ aborted' \subseteq aborted \cup (live \ live')
      /\ UNCHANGED <<completions, spawned, mcp, resuming, interjections>>
  BY DEF CancelLock, CancelGate, CancelAbort, CancelFinish, Aborted, Cancelling, LoopBooks,
     LoopAlone, Balance, Ledger, TextsHeld, turnVars, starterVars
<1>2. pc \notin {"complete", "turnEnd"} /\ pc' \notin {"complete", "turnEnd", "cancelLock"}
  BY <1>1 DEF Cancelling
<1>3. PinHeld' /\ StaleFirst' /\ ReportedOnce'
  BY <1>1, <1>2 DEF LoopBooks, PinHeld, StaleFirst, ReportedOnce
<1>4. (cancel.kind)' \in {cancel.kind, "none"}
  <2>1. CASE CancelLock
    BY <2>1 DEF CancelLock, Balance, IInv, TypeOK
  <2>2. CASE CancelGate \/ CancelAbort
    BY <2>2 DEF CancelGate, CancelAbort
  <2>3. CASE CancelFinish
    BY <2>3 DEF CancelFinish, NoCancel
  <2> QED BY <2>1, <2>2, <2>3
<1>5. LoopOnly' /\ LoopAlone'
  <2>1. live \subseteq spawned /\ NoPrompt \notin spawned
    BY SortFacts DEF Balance, Ledger, SpawnedOnce, IInv, TypeOK
  <2>2. aborted' \subseteq spawned' \ (live' \cup {running'})
    BY <1>1, <2>1 DEF LoopBooks, LoopAlone
  <2> QED BY <1>1, <1>2, <1>4, <2>2 DEF LoopBooks, LoopOnly, LoopAlone
<1>6. RanTaken'
  <2> SUFFICES ASSUME "teardown" \notin Cancels
               PROVE  ToSet((cancel.resolved)') \subseteq spawned' /\ CancelSparesQueued'
    BY DEF RanTaken
  <2>1. /\ ToSet(cancel.resolved) \subseteq spawned /\ ~Teardown
        /\ \A p \in Prompts : fate[p] = "cancelled" => p \in spawned
    BY DEF LoopBooks, LoopAlone, RanTaken, CancelSparesQueued, Teardown
  <2>2. CASE CancelLock
    <3>1. ToSet(Taken) \subseteq spawned
      <4>1. queue \in Seq(Prompts) /\ pc = "cancelLock"
        BY <2>2 DEF CancelLock, Balance, IInv, TypeOK, Seen
      <4>2. CASE queue = <<>>
        BY <2>1, <4>2, EmptyContents DEF Taken, FrontOf
      <4>3. CASE queue # <<>>
        <5>1. Taken = <<Head(queue)>> /\ Head(queue) \in Prompts
          BY <2>1, <4>1, <4>3 DEF Taken, FrontOf
        <5>2. running # NoPrompt /\ Head(queue) = running
          BY <4>1, <4>3 DEF LoopBooks, LoopAlone, Balance, IInv, FrontIsRunning, IsFront
        <5>3. running \in spawned
          BY <5>2 DEF Balance, Ledger, SpawnedOnce
        <5>4. ToSet(<<Head(queue)>>) = {Head(queue)}
          BY <5>1, SingleContents
        <5> QED BY <5>1, <5>2, <5>3, <5>4
      <4> QED BY <4>2, <4>3
    <3>2. (cancel.resolved)' = Taken
      BY <2>2 DEF CancelLock, Balance, IInv, TypeOK
    <3>3. \A p \in Prompts : fate'[p] = "cancelled" => fate[p] = "cancelled"
      BY <2>2 DEF CancelLock, Settle
    <3> QED BY <1>1, <2>1, <3>1, <3>2, <3>3 DEF CancelSparesQueued
  <2>3. CASE CancelGate \/ CancelAbort
    BY <1>1, <2>1, <2>3 DEF CancelGate, CancelAbort, CancelSparesQueued
  <2>4. CASE CancelFinish
    <3>1. (cancel.resolved)' = <<>>
      BY <2>4 DEF CancelFinish, NoCancel
    <3>2. \A p \in Prompts : fate'[p] = "cancelled" =>
            p \in ToSet(cancel.resolved) \/ fate[p] = "cancelled"
      BY <2>4 DEF CancelFinish, Settle
    <3> QED BY <1>1, <2>1, <3>1, <3>2, EmptyContents DEF CancelSparesQueued
  <2> QED BY <2>2, <2>3, <2>4
<1> QED BY <1>3, <1>5, <1>6 DEF LoopBooks

(* Completions of distinct turns, one taken from the front or one added.   *)
LEMMA TailOnce ==
  ASSUME NEW S, NEW s \in Seq(S), s # <<>>,
         \A i, j \in DOMAIN s : s[i].id = s[j].id => i = j
  PROVE  /\ \A i, j \in DOMAIN Tail(s) : Tail(s)[i].id = Tail(s)[j].id => i = j
         /\ \A c \in ToSet(Tail(s)) : c.id # Head(s).id
<1> DEFINE t == Tail(s)
<1>1. /\ 1 \in DOMAIN s /\ Head(s) = s[1]
      /\ \A i \in DOMAIN t : i \in Nat /\ i + 1 \in DOMAIN s /\ t[i] = s[i + 1] /\ i + 1 # 1
  <2>1. /\ Len(s) \in Nat \ {0} /\ DOMAIN s = 1..Len(s) /\ Head(s) = s[1]
        /\ DOMAIN t = 1..(Len(s) - 1)
    OBVIOUS
  <2>2. ASSUME NEW i \in DOMAIN t  PROVE t[i] = s[i + 1]
    OBVIOUS
  <2> HIDE DEF t
  <2> QED BY <2>1, <2>2
<1>2. ASSUME NEW i \in DOMAIN t, NEW j \in DOMAIN t, t[i].id = t[j].id  PROVE i = j
  <2>1. i + 1 = j + 1
    BY <1>1, <1>2
  <2> QED BY <1>1, <2>1
<1>3. ASSUME NEW i \in DOMAIN t  PROVE t[i].id # Head(s).id
  BY <1>1
<1> HIDE DEF t
<1>4. \A c \in ToSet(t) : \E i \in DOMAIN t : c = t[i]
  BY DEF ToSet
<1> QED BY <1>2, <1>3, <1>4 DEF t

LEMMA AppendOnce ==
  ASSUME NEW S, NEW s \in Seq(S), NEW c \in S,
         \A i, j \in DOMAIN s : s[i].id = s[j].id => i = j,
         \A d \in ToSet(s) : d.id # c.id
  PROVE  \A i, j \in DOMAIN Append(s, c) :
           Append(s, c)[i].id = Append(s, c)[j].id => i = j
<1> DEFINE t == Append(s, c)
<1>1. \A i \in DOMAIN t : \/ i \in DOMAIN s /\ t[i] = s[i]
                          \/ i = Len(s) + 1 /\ t[i] = c
  OBVIOUS
<1>2. \A i \in DOMAIN s : s[i].id # c.id
  BY DEF ToSet
<1> HIDE DEF t
<1> QED BY <1>1, <1>2 DEF t

(* The completion arm takes a completion off the channel.                  *)
LEMMA LoopComplete ==
  ASSUME Balance, LoopBooks, Complete
  PROVE  LoopBooks'
<1>1. /\ completions # <<>> /\ cur' = Head(completions) /\ completions' = Tail(completions)
      /\ pc = "select" /\ pc' = "complete"
      /\ completions \in Seq([id : Maybe, ok : BOOLEAN])
      /\ UNCHANGED <<running, live, aborted, spawned, mcp, resuming, interjections,
                     queue, cancel, fate>>
  BY DEF Complete, turnVars, starterVars, Balance, IInv, TypeOK
<1>2. \A p : Reported(p)' <=> Reported(p)
  <2>1. ToSet(completions) = {Head(completions)} \cup ToSet(completions')
    BY <1>1, CompletionsSplit DEF Balance
  <2> QED BY <1>1, <2>1 DEF Reported
<1>3. LoopOnly' /\ LoopAlone'
  BY <1>1 DEF LoopBooks, LoopOnly, LoopAlone
<1>4. PinHeld'
  <2>1. pin' = pin \/ (pin = running /\ running = cur'.id)
    BY <1>1 DEF Complete, Clear, Balance, Ledger, PinSound
  <2> QED BY <1>1, <1>2, <2>1 DEF LoopBooks, PinHeld, Reported
<1>5. ReportedOnce'
  BY <1>1, TailOnce DEF LoopBooks, ReportedOnce
<1>6. StaleFirst'
  BY <1>1, <1>2 DEF LoopBooks, StaleFirst, StaleAhead
<1>7. RanTaken'
  BY <1>1 DEF LoopBooks, RanTaken, CancelSparesQueued
<1> QED BY <1>3, <1>4, <1>5, <1>6, <1>7 DEF LoopBooks

(* A completion that owns the front ends the running turn, and no other    *)
(* completion waits; one that does not own it found no interjection.       *)
LEMMA LoopCompleteLock ==
  ASSUME Balance, LoopBooks, CompleteLock
  PROVE  LoopBooks'
<1>1. /\ pc = "complete" /\ pc' = "turnEnd"
      /\ UNCHANGED <<live, aborted, spawned, mcp, resuming, interjections, cur,
                     cancel, pin, completions>>
  BY DEF CompleteLock, turnVars, starterVars
<1>2. cur.id \in Prompts /\ cur.id # NoPrompt
  BY <1>1, OwnedFacts DEF Balance
<1>3. \/ Owned /\ running = cur.id /\ running' = NoPrompt
      \/ ~Owned /\ running # cur.id /\ running' = running
  <2>1. CASE Owned
    BY <1>1, <2>1, OwnedFacts DEF CompleteLock, Balance
  <2>2. CASE ~Owned
    <3>1. running # cur.id
      BY <1>1, <1>2, <2>2 DEF Owned, Balance, IInv, FrontIsRunning
    <3> QED BY <1>1, <2>2, <3>1 DEF CompleteLock, Clear
  <2> QED BY <2>1, <2>2
<1>4. \A p : Reported(p)' => Reported(p)
  BY <1>1 DEF Reported
<1>5. \A p : p # cur.id /\ Reported(p) => Reported(p)'
  BY <1>1 DEF Reported
<1>6. LoopOnly' /\ LoopAlone'
  <2>1. aborted \subseteq spawned /\ NoPrompt \notin spawned
    BY SortFacts DEF LoopBooks, LoopAlone, Balance, IInv, TypeOK
  <2> QED BY <1>1, <1>3, <2>1 DEF LoopBooks, LoopOnly, LoopAlone
<1>7. PinHeld'
  BY <1>1, <1>3, <1>5 DEF LoopBooks, PinHeld
<1>8. ReportedOnce'
  BY <1>1 DEF LoopBooks, ReportedOnce
<1>9. StaleFirst'
  <2>1. CASE running # cur.id
    <3>1. Reported(cur.id)
      BY <1>1 DEF Reported
    <3> QED BY <1>1, <2>1, <3>1 DEF LoopBooks, StaleFirst, StaleAhead
  <2>2. CASE running = cur.id
    <3> SUFFICES ASSUME StaleAhead'  PROVE interjections = <<>>
      BY <1>1 DEF StaleFirst
    <3>1. PICK c \in ToSet(completions) : TRUE
      BY <1>1, <1>3, <2>2 DEF StaleAhead, Reported
    <3>2. c.id # running
      BY <1>1, <2>2 DEF LoopBooks, ReportedOnce
    <3> QED BY <3>2 DEF LoopBooks, StaleFirst, StaleAhead, Reported
  <2> QED BY <2>1, <2>2
<1>10. RanTaken'
  BY <1>1, <1>2 DEF CompleteLock, LoopBooks, RanTaken, CancelSparesQueued, Balance, IInv,
     TypeOK
<1> QED BY <1>6, <1>7, <1>8, <1>9, <1>10 DEF LoopBooks

(* The end of a turn reports it, once; a turn that a cancel has taken out  *)
(* of its slot leaves no interjection behind.                              *)
LEMMA LoopTurnEnd ==
  ASSUME Balance, LoopBooks, NEW p \in Prompts, NEW ok \in BOOLEAN, TurnEnd(p, ok)
  PROVE  LoopBooks'
<1>1. /\ p \in live /\ live' = live \ {p} /\ pin' \in {pin, Clear(pin, p)}
      /\ completions' = Append(completions, [id |-> p, ok |-> ok])
      /\ UNCHANGED <<pc, running, aborted, spawned, mcp, resuming, interjections, cur,
                     queue, cancel, fate>>
  BY DEF TurnEnd, loopVars, starterVars
<1>2. p # NoPrompt
  BY SortFacts
<1>3. /\ completions \in Seq([id : Maybe, ok : BOOLEAN])
      /\ [id |-> p, ok |-> ok] \in [id : Maybe, ok : BOOLEAN]
  BY SortFacts DEF Balance, IInv, TypeOK
<1>4. ToSet(completions') = ToSet(completions) \cup {[id |-> p, ok |-> ok]}
  <2>1. PICK c : c = [id |-> p, ok |-> ok]
    OBVIOUS
  <2>2. c \in [id : Maybe, ok : BOOLEAN] /\ completions' = Append(completions, c)
    BY <1>1, <1>3, <2>1
  <2>3. PICK S : S = [id : Maybe, ok : BOOLEAN]
    OBVIOUS
  <2>4. completions \in Seq(S) /\ c \in S
    BY <1>3, <2>2, <2>3
  <2>5. ToSet(Append(completions, c)) = ToSet(completions) \cup {c}
    BY <2>4, AppendContents
  <2> QED BY <2>1, <2>2, <2>5
<1>5. \A q : Reported(q)' <=> Reported(q) \/ q = p
  BY <1>1, <1>4 DEF Reported
<1>6. ~Reported(p)
  BY <1>1 DEF Reported, Balance, Ledger, SpawnedOnce
<1>7. LoopOnly' /\ LoopAlone'
  BY <1>1 DEF LoopBooks, LoopOnly, LoopAlone
<1>8. PinHeld'
  <2>1. CASE running = NoPrompt
    BY <1>1, <2>1 DEF PinHeld
  <2>2. CASE running # NoPrompt
    <3>1. pin \in {NoPrompt, running}
      BY <2>2 DEF Balance, Ledger, PinSound, LoopBooks, LoopAlone
    <3>2. pin' = pin \/ running = p
      BY <1>1, <1>2, <3>1 DEF Clear
    <3> QED BY <1>1, <1>5, <2>2, <3>2 DEF LoopBooks, PinHeld
  <2> QED BY <2>1, <2>2
<1>9. ReportedOnce'
  <2>1. \A c \in ToSet(completions) : c.id # p
    BY <1>6 DEF Reported
  <2>2. pc = "complete" => cur.id # p
    BY <1>6 DEF Reported
  <2>3. \A i, j \in DOMAIN completions' : completions'[i].id = completions'[j].id => i = j
    BY <1>1, <1>3, <2>1, AppendOnce DEF LoopBooks, ReportedOnce
  <2>4. pc' = "complete" => \A c \in ToSet(completions') : c.id # cur'.id
    BY <1>1, <1>4, <2>2 DEF LoopBooks, ReportedOnce
  <2> QED BY <2>3, <2>4 DEF ReportedOnce
<1>10. StaleFirst'
  <2>1. CASE p = running
    BY <1>1, <1>5, <2>1 DEF LoopBooks, StaleFirst, StaleAhead
  <2>2. CASE p # running
    <3>1. cancel.task = p
      BY <1>1, <2>2 DEF Balance, Ledger, SpawnedOnce
    <3>2. pc \in Cancelling
      BY <1>2, <3>1, NoCancelFacts DEF Balance, Ledger, CancelSound
    <3> QED BY <1>1, <3>2 DEF Balance, Ledger, TextsHeld, StaleFirst
  <2> QED BY <2>1, <2>2
<1>11. RanTaken'
  BY <1>1 DEF LoopBooks, RanTaken, CancelSparesQueued
<1> QED BY <1>7, <1>8, <1>9, <1>10, <1>11 DEF LoopBooks

(* The future of an aborted turn is dropped: it is not the running one.    *)
LEMMA LoopReap ==
  ASSUME Balance, LoopBooks, NEW p \in Prompts, Reap(p)
  PROVE  LoopBooks'
<1>1. /\ p \in aborted /\ aborted' = aborted \ {p} /\ pin' \in {pin, Clear(pin, p)}
      /\ UNCHANGED <<pc, running, live, spawned, completions, mcp, resuming,
                     interjections, cur, queue, cancel, fate>>
  BY DEF Reap, loopVars, starterVars
<1>2. \A q : Reported(q)' <=> Reported(q)
  BY <1>1 DEF Reported
<1>3. PinHeld'
  <2>1. p # running /\ p # NoPrompt
    BY <1>1, SortFacts DEF LoopBooks, LoopAlone
  <2>2. running = NoPrompt \/ pin \in {NoPrompt, running}
    BY DEF LoopBooks, LoopAlone, Balance, Ledger, PinSound
  <2>3. running = NoPrompt \/ pin' = pin
    BY <1>1, <2>1, <2>2 DEF Clear
  <2> QED BY <1>1, <1>2, <2>3 DEF LoopBooks, PinHeld
<1>4. LoopOnly' /\ LoopAlone' /\ ReportedOnce' /\ StaleFirst' /\ RanTaken'
  BY <1>1, <1>2 DEF LoopBooks, LoopOnly, LoopAlone, ReportedOnce, StaleFirst, StaleAhead,
     RanTaken, CancelSparesQueued
<1> QED BY <1>3, <1>4 DEF LoopBooks

(* The other steps of a turn task.                                         *)
LEMMA LoopTurn ==
  ASSUME Balance, LoopBooks, NEW p \in Prompts, TurnStep(p)
  PROVE  LoopBooks'
<1> DEFINE Calm == \A q \in Prompts : fate'[q] = "cancelled" => fate[q] = "cancelled"
           Kept == UNCHANGED <<running, pin, completions, live, aborted, spawned,
                               mcp, resuming, cur, pc, cancel>>
<1>1. ASSUME \/ TurnBegin(p) \/ TurnEmit(p) \/ TurnWait(p) \/ DropGuard(p)
             \/ \E status : TurnGoal(p, status)
      PROVE  LoopBooks'
  <2>1. Kept /\ UNCHANGED <<queue, interjections, fate>>
    BY <1>1 DEF TurnBegin, TurnEmit, TurnWait, DropGuard, TurnGoal, turnVars, starterVars,
       loopVars
  <2>2. pc' = "cancelLock" /\ running = NoPrompt => queue' = <<>>
    BY <2>1 DEF LoopBooks, LoopAlone
  <2> QED BY <2>1, <2>2, LoopBeside
<1>2. CASE TurnMerge(p)
  <2>1. Kept /\ UNCHANGED queue /\ interjections' = <<>>
    BY <1>2 DEF TurnMerge, turnVars, starterVars, loopVars
  <2>2. Calm
    BY <1>2 DEF TurnMerge, Settle
  <2>3. pc' = "cancelLock" /\ running = NoPrompt => queue' = <<>>
    BY <2>1 DEF LoopBooks, LoopAlone
  <2> QED BY <2>1, <2>2, <2>3, LoopBeside
<1>3. ASSUME NEW w \in Wake, TurnConsume(p, w)  PROVE LoopBooks'
  <2>1. Kept /\ UNCHANGED interjections /\ queue' = Sweep(queue, running, {w})
    BY <1>3 DEF TurnConsume, turnVars, starterVars, loopVars
  <2>2. Calm
    BY <1>3 DEF TurnConsume, Settle
  <2>3. pc' = "cancelLock" /\ running = NoPrompt => queue' = <<>>
    <3>1. queue \in Seq(Prompts) /\ queue' \in Seq(Prompts)
      BY <2>1, SweepSafe DEF Balance, IInv, TypeOK, Seen
    <3>2. ToSet(queue') \subseteq ToSet(queue)
      BY <2>1, <3>1, SweepContents
    <3>3. ASSUME pc' = "cancelLock", running = NoPrompt  PROVE queue' = <<>>
      <4>1. queue = <<>>
        BY <2>1, <3>3 DEF LoopBooks, LoopAlone
      <4>2. ToSet(queue') = {}
        BY <3>2, <4>1, EmptyContents
      <4> QED BY <3>1, <4>2, SomeContents
    <3> QED BY <3>3
  <2> QED BY <2>1, <2>2, <2>3, LoopBeside
<1> QED BY <1>1, <1>2, <1>3, LoopTurnEnd, LoopReap DEF TurnStep

LEMMA InitLoop ==
  ASSUME Init, LoopOnly
  PROVE  LoopBooks
<1> USE EmptyContents DEF Init
<1>1. LoopAlone
  BY NoCancelFacts DEF LoopAlone, LoopOnly, NoCancel
<1>2. PinHeld /\ ReportedOnce /\ StaleFirst
  BY DEF PinHeld, ReportedOnce, StaleFirst
<1>3. RanTaken
  BY NoCancelFacts DEF RanTaken, CancelSparesQueued
<1> QED BY <1>1, <1>2, <1>3 DEF LoopBooks

LEMMA NextLoop ==
  ASSUME Balance, Balance', LoopBooks, [Next]_vars
  PROVE  LoopBooks'
<1>1. CASE UNCHANGED vars
  BY <1>1 DEF vars, loopVars, starterVars, turnVars, LoopBooks, LoopOnly, LoopAlone,
     PinHeld, Reported, ReportedOnce, StaleFirst, StaleAhead, RanTaken, CancelSparesQueued
<1>2. ~Starter
  BY SortFacts DEF Starter, McpReady, PlanQueue, PlanStart, LoopBooks, LoopOnly, LoopAlone
<1>3. CASE RunLoopStep
  BY <1>3, LoopComplete, LoopCompleteLock, LoopArms, LoopStart, LoopCancel DEF RunLoopStep
<1>4. CASE \E p \in Prompts : TurnStep(p)
  BY <1>4, LoopTurn
<1> QED BY <1>1, <1>2, <1>3, <1>4, CommandLoop DEF Next

(* The books of such sessions balance too.                                 *)
THEOREM LoopBooksKept == Spec /\ LoopOnly => []LoopBooks
<1>1. Init /\ LoopOnly => LoopBooks
  BY InitLoop
<1>2. Balance /\ Balance' /\ LoopBooks /\ [Next]_vars => LoopBooks'
  BY NextLoop
<1> QED BY <1>1, <1>2, BalanceKept, PTL DEF Spec

(* An interjection is routed by a pin that names the running turn, unless  *)
(* the turn has ended and its completion waits (handle_interject).         *)
THEOREM PinsFollow == Spec /\ LoopOnly => []PinFollowsRunning
<1>1. Balance /\ LoopBooks => PinFollowsRunning
  <2> SUFFICES ASSUME Balance, LoopBooks, pc = "select", pin # running
               PROVE  pin = NoPrompt /\ \E i \in DOMAIN completions : completions[i].id = running
    BY DEF PinFollowsRunning
  <2>1. pin = NoPrompt /\ running # NoPrompt
    BY DEF Balance, Ledger, PinSound
  <2>2. PICK c \in ToSet(completions) : c.id = running
    BY <2>1 DEF LoopBooks, PinHeld, Reported
  <2> QED BY <2>1, <2>2 DEF ToSet
<1> QED BY <1>1, BalanceKept, LoopBooksKept, PTL

(* A stale completion runs the end of the arm under a promoted turn that   *)
(* has no interjection yet (handle_completion).                            *)
THEOREM StaleIsHarmless == Spec /\ LoopOnly => []StaleTakesNothing
<1>1. LoopBooks => StaleTakesNothing
  BY DEF LoopBooks, StaleFirst, StaleAhead, StaleTakesNothing
<1> QED BY <1>1, LoopBooksKept, PTL

(* Without a teardown a cancel resolves the running turn's row alone, and  *)
(* what is queued behind it survives (cancel_running_task).                *)
THEOREM CancelsSpare ==
  Spec /\ LoopOnly /\ "teardown" \notin Cancels => []CancelSparesQueued
<1> SUFFICES ASSUME "teardown" \notin Cancels
             PROVE  Spec /\ LoopOnly => []CancelSparesQueued
  OBVIOUS
<1>1. LoopBooks => CancelSparesQueued
  BY DEF LoopBooks, RanTaken
<1> QED BY <1>1, LoopBooksKept, PTL

----------------------------------------------------------------------------
(* III. The service.                                                       *)

(* The state of the service, as ServiceKept maps it.                       *)
Turn     == IF pc = "stopped" THEN NoPrompt ELSE running
Served == {p \in Prompts : fate[p] \in Answers} \cup ToSet(cancel.resolved)
Waiting  == {p \in Prompts : fate[p] = "pending"}
              \ ({running} \cup ToSet(cancel.resolved))
ServiceStep == [Service!Next]_<<Waiting, Turn, Served>>

----------------------------------------------------------------------------
(* The waiting requests are the queue, but for the running turn; what      *)
(* waits or runs is not answered.                                          *)
ServiceBooks ==
  pc # "stopped" =>
    /\ Waiting = ToSet(queue) \ {running} /\ Turn = running
    /\ ToSet(queue) \subseteq Prompts /\ ToSet(queue) \cap Served = {}
    /\ running # NoPrompt => running \in ToSet(queue)

LEMMA WaitingIsQueue == Balance => ServiceBooks
<1> SUFFICES ASSUME Balance, pc # "stopped" PROVE ServiceBooks
  BY DEF ServiceBooks
<1>1. /\ ToSet(queue) \subseteq Prompts /\ ToSet(queue) \cap ToSet(cancel.resolved) = {}
      /\ \A p \in Prompts :
           fate[p] = "pending" <=> p \in ToSet(queue) \cup ToSet(cancel.resolved)
      /\ running # NoPrompt => running \in ToSet(queue)
  BY QueuedIsRunning DEF Balance, Ledger, PromptsHeld
<1> QED BY <1>1, AnswerFacts DEF ServiceBooks, Waiting, Turn, Served

(* So before and after a step.                                             *)
LEMMA ServiceBooksKept == Balance /\ Balance' => ServiceBooks /\ ServiceBooks'
BY WaitingIsQueue, PTL

(* The kinds of service steps.                                             *)
LEMMA KindsAreSteps ==
  /\ \A p \in Prompts : Service!Start(p) => ServiceStep
  /\ \A p \in Prompts : \A gone \in SUBSET Waiting : Service!Accept(p, gone) => ServiceStep
  /\ \A gone \in SUBSET Waiting : Service!Finish(gone) \/ Service!Discard(gone) => ServiceStep
<1>1. Service!Next => ServiceStep
  BY DEF ServiceStep
<1>2. \A p \in Prompts : Service!Start(p) => Service!Next
  BY Zenon DEF Service!Next
<1>3. \A p \in Prompts : \A gone \in SUBSET Waiting : Service!Accept(p, gone) => Service!Next
  BY Zenon DEF Service!Next, Waiting
<1>4. \A gone \in SUBSET Waiting : Service!Finish(gone) \/ Service!Discard(gone) => Service!Next
  BY Zenon DEF Service!Next, Waiting
<1> QED BY <1>1, <1>2, <1>3, <1>4

(* A step that answers waiting requests, or none, and changes nothing else *)
(* the service can see.                                                    *)
LEMMA DiscardMaps ==
  ASSUME Balance, Balance', pc # "stopped", pc' # "stopped", UNCHANGED running,
         NEW gone, gone \subseteq ToSet(queue) \ {running},
         ToSet(queue') = ToSet(queue) \ gone, Served' = Served \cup gone
  PROVE  ServiceStep
<1>1. /\ Waiting = ToSet(queue) \ {running} /\ Turn = running
      /\ Waiting' = ToSet(queue') \ {running} /\ Turn' = running
  BY ServiceBooksKept DEF ServiceBooks
<1>2. gone \in SUBSET Waiting /\ Waiting' = Waiting \ gone /\ Turn' = Turn
  BY <1>1
<1>3. Service!Discard(gone)
  BY <1>2 DEF Service!Discard, Waiting, Turn, Served
<1> QED BY <1>2, <1>3, KindsAreSteps

(* A step the service cannot see.                                          *)
LEMMA QuietMaps ==
  ASSUME Balance, Balance', pc # "stopped", pc' # "stopped", UNCHANGED running,
         ToSet(queue') = ToSet(queue), Served' = Served
  PROVE  ServiceStep
<1>1. {} \subseteq ToSet(queue) \ {running}
  OBVIOUS
<1>2. ToSet(queue') = ToSet(queue) \ {} /\ Served' = Served \cup {}
  OBVIOUS
<1> QED BY <1>1, <1>2, DiscardMaps

(* A step that accepts a new request, and answers waiting ones for it.     *)
LEMMA AcceptMaps ==
  ASSUME Balance, Balance', pc # "stopped", pc' # "stopped", UNCHANGED running,
         NEW p \in Prompts, fate[p] \notin Answers \cup {"pending"},
         NEW gone, gone \subseteq ToSet(queue) \ {running},
         ToSet(queue') = (ToSet(queue) \ gone) \cup {p}, Served' = Served \cup gone
  PROVE  ServiceStep
<1>1. /\ Waiting = ToSet(queue) \ {running} /\ Turn = running
      /\ Waiting' = ToSet(queue') \ {running} /\ Turn' = running
      /\ running # NoPrompt => running \in ToSet(queue)
  BY ServiceBooksKept DEF ServiceBooks
<1>2. p \notin ToSet(queue) \cup ToSet(cancel.resolved)
  BY DEF Balance, Ledger, PromptsHeld
<1>3. p # running /\ p \notin Served
  BY <1>1, <1>2, SortFacts DEF Served
<1>4. /\ gone \in SUBSET Waiting /\ Waiting' = (Waiting \ gone) \cup {p} /\ Turn' = Turn
      /\ p \notin Waiting \cup Served \cup {Turn}
  BY <1>1, <1>2, <1>3
<1>5. Service!Accept(p, gone)
  BY <1>4 DEF Service!Accept, Waiting, Turn, Served
<1> QED BY <1>4, <1>5, KindsAreSteps

(* maybe_start_running_task starts a waiting request, or does nothing.     *)
LEMMA StartMaps ==
  ASSUME Balance, Balance', pc # "stopped", pc' # "stopped", MaybeStart,
         UNCHANGED <<queue, cancel, fate>>
  PROVE  ServiceStep
<1>1. CASE ~CanStart
  <2>1. UNCHANGED running
    BY <1>1 DEF MaybeStart
  <2> QED BY <2>1, QuietMaps DEF Served
<1>2. CASE CanStart
  <2>1. PICK p \in Prompts :
          running = NoPrompt /\ running' = p /\ p \in ToSet(queue)
    BY <1>2, SomeContents DEF MaybeStart, CanStart, Balance, IInv, TypeOK, Seen
  <2>2. /\ Waiting = ToSet(queue) \ {NoPrompt} /\ Turn = NoPrompt
        /\ Waiting' = ToSet(queue) \ {p} /\ Turn' = p /\ ToSet(queue) \subseteq Prompts
    BY <2>1, ServiceBooksKept DEF ServiceBooks
  <2>3. /\ p \in Waiting /\ Waiting' = Waiting \ {p} /\ Served' = Served
    BY <2>1, <2>2, SortFacts DEF Served
  <2>4. Service!Start(p)
    BY <2>2, <2>3 DEF Service!Start, Waiting, Turn, Served
  <2> QED BY <2>1, <2>4, KindsAreSteps
<1> QED BY <1>1, <1>2

(* A step that answers the running turn and perhaps waiting requests.      *)
LEMMA FinishMaps ==
  ASSUME Balance, Balance', pc # "stopped", running # NoPrompt, Turn' = NoPrompt,
         NEW rows, rows \subseteq ToSet(queue), running \in rows,
         Waiting' = ToSet(queue) \ rows, Served' = Served \cup rows
  PROVE  ServiceStep
<1>1. Waiting = ToSet(queue) \ {running} /\ Turn = running
  BY ServiceBooksKept DEF ServiceBooks
<1>2. PICK others : others = rows \ {running}
  OBVIOUS
<1>3. /\ others \in SUBSET Waiting /\ Waiting' = Waiting \ others /\ Turn # NoPrompt
      /\ Served' = Served \cup {Turn} \cup others
  BY <1>1, <1>2
<1>4. Service!Finish(others)
  BY <1>3 DEF Service!Finish, Waiting, Turn, Served
<1> QED BY <1>3, <1>4, KindsAreSteps

----------------------------------------------------------------------------
(* Answers, before and after: fates other than answers can be exchanged.   *)
LEMMA SameAnswered ==
  ASSUME UNCHANGED cancel,
         \A p \in Prompts : fate'[p] \in Answers <=> fate[p] \in Answers
  PROVE  Served' = Served
BY DEF Served

(* Settling buffered texts and notices answers no request.                 *)
LEMMA SettledUnanswered ==
  ASSUME UNCHANGED cancel.resolved, NEW S, \A p \in S : fate[p] = "buffered",
         NEW v \in {"merged", "discarded"}, fate' = Settle(fate, S, v)
  PROVE  Served' = Served
<1>1. \A p \in Prompts : fate'[p] = IF p \in S THEN v ELSE fate[p]
  BY DEF Settle
<1>2. \A p \in Prompts : fate'[p] \in Answers <=> fate[p] \in Answers
  BY <1>1, AnswerFacts
<1> QED BY <1>2 DEF Served

(* A cancel that begins holds no rows yet.                                 *)
LEMMA BeginCancelRows ==
  ASSUME Balance, pc = "select", NEW kind, BeginCancel(kind)
  PROVE  UNCHANGED cancel.resolved
BY OutsideFacts, NoCancelFacts DEF Balance, Cancelling, BeginCancel, NoCancel

----------------------------------------------------------------------------
(* Commands.                                                               *)

(* queue_input accepts its prompt and answers the wakes it preempts.       *)
LEMMA QueueInputMaps ==
  ASSUME Balance, Balance', pc # "stopped", pc' # "stopped",
         UNCHANGED <<running, cancel.resolved>>,
         NEW p \in Prompts, fate[p] = "new", NEW asked \in BOOLEAN, QueueInput(p, asked)
  PROVE  ServiceStep
<1> DEFINE kept == ToSet(Remaining(p))
           lost == IF CancelsTurn(p, asked) THEN ToSet(interjections) ELSE {}
<1>1. /\ kept \subseteq ToSet(queue) /\ (running \in ToSet(queue) => running \in kept)
      /\ ToSet(queue') = kept \cup {p}
      /\ fate' = [x \in Prompts |->
                    IF x = p THEN "pending"
                    ELSE IF x \in lost THEN "discarded"
                    ELSE IF x \in ToSet(queue) \ kept THEN "dropped"
                    ELSE fate[x]]
  BY QueueInputLedger DEF Balance
<1>2. \A x \in lost : fate[x] = "buffered"
  BY DEF Balance, Ledger, TextsHeld
<1> HIDE DEF kept, lost
<1>3. PICK gone : gone = ToSet(queue) \ kept
  OBVIOUS
<1>4. /\ gone \subseteq ToSet(queue) \ {running} /\ gone \subseteq Prompts
      /\ ToSet(queue') = (ToSet(queue) \ gone) \cup {p}
      /\ \A x \in gone : fate[x] = "pending"
  BY <1>1, <1>3, QueuedIsRunning DEF Balance, Ledger, PromptsHeld
<1>5. Served' = Served \cup gone
  <2>1. \A x \in Prompts : fate'[x] \in Answers <=> fate[x] \in Answers \/ x \in gone
    BY <1>1, <1>2, <1>3, <1>4, AnswerFacts
  <2> QED BY <1>4, <2>1 DEF Served
<1>6. fate[p] \notin Answers \cup {"pending"}
  BY AnswerFacts
<1> QED BY <1>4, <1>5, <1>6, AcceptMaps

(* A prompt of the session itself is accepted.                             *)
LEMMA AppendMaps ==
  ASSUME Balance, Balance', pc # "stopped", pc' # "stopped",
         UNCHANGED <<running, cancel>>,
         NEW p \in Prompts, fate[p] \notin Answers \cup {"pending"},
         ToSet(queue') = ToSet(queue) \cup {p}, fate' = [fate EXCEPT ![p] = "pending"]
  PROVE  ServiceStep
<1>1. \A x \in Prompts : fate'[x] \in Answers <=> fate[x] \in Answers
  BY AnswerFacts DEF Balance, IInv, TypeOK
<1>2. Served' = Served
  BY <1>1, SameAnswered
<1>3. PICK gone : gone = {}
  OBVIOUS
<1>4. /\ gone \subseteq ToSet(queue) \ {running} /\ Served' = Served \cup gone
      /\ ToSet(queue') = (ToSet(queue) \ gone) \cup {p}
  BY <1>2, <1>3
<1> QED BY <1>4, AcceptMaps

(* A queue edit answers what it takes out.                                 *)
LEMMA QueueEditMaps ==
  ASSUME Balance, Balance', pc = "select", NEW q, QueueEdit(q),
         ToSet(q) \subseteq ToSet(queue), running \in ToSet(queue) => running \in ToSet(q)
  PROVE  ServiceStep
<1>1. /\ queue' = q /\ UNCHANGED <<pc, running, cancel>>
      /\ \A x \in Prompts :
           fate'[x] = IF x \in ToSet(queue) \ ToSet(q) THEN "removed" ELSE fate[x]
  BY DEF QueueEdit, Settle, loopVars
<1>2. PICK gone : gone = ToSet(queue) \ ToSet(q)
  OBVIOUS
<1>3. /\ gone \subseteq ToSet(queue) \ {running} /\ gone \subseteq Prompts
      /\ ToSet(queue') = ToSet(queue) \ gone
  BY <1>1, <1>2, QueuedIsRunning DEF Balance
<1>4. Served' = Served \cup gone
  <2>1. \A x \in Prompts : fate'[x] \in Answers <=> fate[x] \in Answers \/ x \in gone
    BY <1>1, <1>2, AnswerFacts
  <2> QED BY <1>1, <1>3, <2>1 DEF Served
<1> QED BY <1>1, <1>3, <1>4, DiscardMaps

(* Every queue edit a client may ask for takes rows out of the queue and   *)
(* leaves the running turn.                                                *)
LEMMA EditsMap ==
  ASSUME Balance, Balance',
         \/ \E p \in Client : RemoveQueued(p)
         \/ \E order \in Orders : Reorder(order)
         \/ \E o \in Owners \cup {AnyOwner} : ClearQueue(o)
  PROVE  ServiceStep
<1>1. queue \in Seq(Prompts)
  BY DEF Balance, IInv, TypeOK, Seen
<1>2. ASSUME NEW p \in Client, RemoveQueued(p)  PROVE ServiceStep
  <2> DEFINE q == Keep(queue, ToSet(queue) \ {p})
  <2>1. pc = "select" /\ p # running /\ QueueEdit(q)
    BY <1>2 DEF RemoveQueued, Ready
  <2>2. ToSet(q) = ToSet(queue) \ {p}
    BY <1>1, KeepContents
  <2> HIDE DEF q
  <2> QED BY <2>1, <2>2, QueueEditMaps
<1>3. ASSUME NEW order \in Orders, Reorder(order)  PROVE ServiceStep
  <2> DEFINE q == Reordered(queue, running, order)
  <2>1. pc = "select" /\ QueueEdit(q) /\ order \in Seq(Client)
    BY <1>3, OrdersAssumption DEF Reorder, Ready
  <2>2. ToSet(q) = ToSet(queue)
    BY <1>1, <2>1, ReorderedContents
  <2> HIDE DEF q
  <2> QED BY <2>1, <2>2, QueueEditMaps
<1>4. ASSUME NEW o \in Owners \cup {AnyOwner}, ClearQueue(o)  PROVE ServiceStep
  <2> DEFINE mine == {p \in Client \ {running} : o \in {OwnerOf[p], AnyOwner}}
             q == Keep(queue, ToSet(queue) \ mine)
  <2>1. pc = "select" /\ running \notin mine /\ QueueEdit(q)
    BY <1>4 DEF ClearQueue, Ready
  <2> HIDE DEF mine
  <2>2. ToSet(q) = ToSet(queue) \ mine
    BY <1>1, KeepContents
  <2> HIDE DEF q
  <2> QED BY <2>1, <2>2, QueueEditMaps
<1> QED BY <1>2, <1>3, <1>4

(* A shutdown answers every request it finds.                              *)
LEMMA ShutdownMaps ==
  ASSUME Balance, Balance', NEW closed \in BOOLEAN, Shutdown(closed)
  PROVE  ServiceStep
<1> DEFINE lost == ToSet(notices) \ ToSet(notices')
<1>1. /\ pc = "select" /\ Turn' = NoPrompt /\ UNCHANGED cancel
      /\ fate' = Settle(Settle(fate, ToSet(queue), "dropped"), lost, "discarded")
  BY DEF Shutdown, Ready, Turn
<1>2. /\ \A n \in lost : fate[n] = "buffered"
      /\ \A x \in Prompts : fate[x] = "pending" <=> x \in ToSet(queue)
      /\ ToSet(queue) \subseteq Prompts /\ ToSet(cancel.resolved) = {}
      /\ Waiting = ToSet(queue) \ {running} /\ Turn = running
      /\ running # NoPrompt => running \in ToSet(queue)
  BY <1>1, OutsideFacts, WaitingIsQueue
     DEF Balance, Ledger, NoticesHeld, Cancelling, ServiceBooks
<1> HIDE DEF lost
<1>3. \A x \in Prompts : fate'[x] = IF x \in lost THEN "discarded"
                                    ELSE IF x \in ToSet(queue) THEN "dropped"
                                    ELSE fate[x]
  BY <1>1 DEF Settle
<1>4. Served' = Served \cup ToSet(queue)
  <2>1. \A x \in Prompts :
          fate'[x] \in Answers <=> fate[x] \in Answers \/ x \in ToSet(queue)
    BY <1>2, <1>3, AnswerFacts
  <2> QED BY <1>1, <1>2, <2>1 DEF Served
<1>5. Waiting' = {}
  BY <1>2, <1>3 DEF Waiting
<1>6. PICK rows : rows = ToSet(queue)
  OBVIOUS
<1>7. CASE running # NoPrompt
  <2>1. /\ rows \subseteq ToSet(queue) /\ running \in rows
        /\ Waiting' = ToSet(queue) \ rows /\ Served' = Served \cup rows
    BY <1>2, <1>4, <1>5, <1>6, <1>7
  <2> QED BY <1>1, <1>7, <2>1, FinishMaps
<1>8. CASE running = NoPrompt
  <2>1. /\ rows \in SUBSET Waiting /\ Waiting' = Waiting \ rows
        /\ Turn' = Turn /\ Served' = Served \cup rows
    BY <1>1, <1>2, <1>4, <1>5, <1>6, <1>8, SortFacts
  <2>2. Service!Discard(rows)
    BY <2>1 DEF Service!Discard, Waiting, Turn, Served
  <2> QED BY <2>1, <2>2, KindsAreSteps
<1> QED BY <1>7, <1>8

(* Every command is a step of the service or one it does not see.          *)
LEMMA CommandMaps ==
  ASSUME Balance, Balance', Command
  PROVE  ServiceStep
<1>1. ASSUME NEW p \in Client \cup Wake \cup Goal, NEW asked \in BOOLEAN,
             Prompt(p, asked)
      PROVE  ServiceStep
  <2>1. /\ pc = "select" /\ p \in Prompts /\ fate[p] = "new" /\ QueueInput(p, asked)
        /\ pc' \in {"start", "cancelLock"} /\ UNCHANGED running
        /\ UNCHANGED cancel \/ \E kind : BeginCancel(kind)
    BY <1>1, SortFacts DEF Prompt, Ready, BeginCancel
  <2>2. UNCHANGED cancel.resolved
    BY <2>1, BeginCancelRows
  <2> QED BY <2>1, <2>2, QueueInputMaps
<1>2. ASSUME NEW p \in Client, InterjectQueued(p)  PROVE ServiceStep
  <2>1. /\ pc = "select" /\ pc' \in {"start", "cancelLock"} /\ UNCHANGED running
        /\ \/ UNCHANGED <<cancel, fate>>
           \/ /\ fate' = Settle(fate, ToSet(interjections), "discarded")
              /\ \E kind : BeginCancel(kind)
        /\ p \in Prompts /\ p \in ToSet(queue)
    BY <1>2, SortFacts DEF InterjectQueued, Ready, BeginCancel
  <2>2. UNCHANGED cancel.resolved
    BY <2>1, BeginCancelRows
  <2>3. \A i \in ToSet(interjections) : fate[i] = "buffered"
    BY DEF Balance, Ledger, TextsHeld
  <2>4. Served' = Served
    <3>1. CASE UNCHANGED fate
      BY <2>2, <3>1 DEF Served
    <3>2. CASE fate' = Settle(fate, ToSet(interjections), "discarded")
      BY <2>2, <2>3, <3>2, SettledUnanswered
    <3> QED BY <2>1, <3>1, <3>2
  <2>5. ToSet(queue') = ToSet(queue)
    <3> DEFINE others == Keep(queue, ToSet(queue) \ {p})
    <3>1. others \in Seq(Prompts) /\ ToSet(others) = ToSet(queue) \ {p}
      <4>1. queue \in Seq(Prompts)
        BY DEF Balance, IInv, TypeOK, Seen
      <4> QED BY <4>1, KeepType, KeepContents
    <3>2. queue' = InsertSendNow(others, running, marked, p)
      BY <1>2 DEF InterjectQueued
    <3> HIDE DEF others
    <3>3. ToSet(queue') = ToSet(others) \cup {p}
      BY <2>1, <3>1, <3>2, InsertSendNowContents
    <3> QED BY <2>1, <3>1, <3>3
  <2> QED BY <2>1, <2>4, <2>5, QuietMaps
<1>3. ASSUME NEW i \in Fallback, Interject(i)  PROVE ServiceStep
  <2>1. /\ pc = "select" /\ pc' \in {"select", "flush"} /\ fate[i] = "new"
        /\ UNCHANGED <<running, queue, cancel>> /\ fate' = [fate EXCEPT ![i] = "buffered"]
    BY <1>3 DEF Interject, Ready
  <2>2. \A x \in Prompts : fate'[x] \in Answers <=> fate[x] \in Answers
    BY <2>1, AnswerFacts DEF Balance, IInv, TypeOK
  <2> QED BY <2>1, <2>2, SameAnswered, QuietMaps
<1>4. ASSUME NEW g \in Goal, GoalSummaryTurn(g)  PROVE ServiceStep
  <2>1. /\ pc = "select" /\ pc' = "start" /\ g \in Prompts
        /\ fate[g] = "new" /\ queue' = Append(queue, g)
        /\ fate' = [fate EXCEPT ![g] = "pending"] /\ UNCHANGED <<running, cancel>>
    BY <1>4, SortFacts DEF GoalSummaryTurn, Ready
  <2>2. ToSet(queue') = ToSet(queue) \cup {g} /\ fate[g] \notin Answers \cup {"pending"}
    <3>1. queue \in Seq(Prompts)
      BY DEF Balance, IInv, TypeOK, Seen
    <3> QED BY <2>1, <3>1, AppendContents, AnswerFacts
  <2> QED BY <2>1, <2>2, AppendMaps
<1>5. ASSUME NEW n \in Notice, NEW urgent \in BOOLEAN, InjectNotification(n, urgent)
      PROVE  ServiceStep
  <2> DEFINE evicted == ToSet(notices \o buffer) \ ToSet(notices' \o buffer')
  <2>1. /\ pc = "select" /\ pc' \in {"select", "drain"} /\ fate[n] = "new"
        /\ UNCHANGED <<running, queue, cancel>>
        /\ fate' = Settle([fate EXCEPT ![n] = "buffered"], evicted, "discarded")
    BY <1>5 DEF InjectNotification, Ready
  <2>2. \A x \in evicted : fate[x] = "buffered"
    BY SweptContents DEF Balance
  <2> HIDE DEF evicted
  <2>3. \A x \in Prompts : fate'[x] = IF x \in evicted THEN "discarded"
                                      ELSE IF x = n THEN "buffered" ELSE fate[x]
    BY <2>1 DEF Settle, Balance, IInv, TypeOK
  <2>4. \A x \in Prompts : fate'[x] \in Answers <=> fate[x] \in Answers
    BY <2>1, <2>2, <2>3, AnswerFacts
  <2> QED BY <2>1, <2>4, SameAnswered, QuietMaps
<1>6. ASSUME NEW w \in Wake, DropMonitorNotifications(w)  PROVE ServiceStep
  <2> DEFINE moot == {n \in ToSet(notices \o buffer) : SourceOf[n] = w}
  <2>1. /\ pc = "select" /\ UNCHANGED <<pc, running, queue, cancel>>
        /\ fate' = Settle(fate, moot, "discarded")
    BY <1>6 DEF DropMonitorNotifications, Ready, loopVars
  <2>2. \A x \in moot : fate[x] = "buffered"
    BY SweptContents DEF Balance
  <2> HIDE DEF moot
  <2>3. Served' = Served
    BY <2>1, <2>2, SettledUnanswered
  <2> QED BY <2>1, <2>3, QuietMaps
<1>7. ASSUME NEW kind \in Cancels, Cancel(kind)  PROVE ServiceStep
  <2>1. /\ pc = "select" /\ pc' = "cancelLock" /\ UNCHANGED <<running, queue>>
        /\ BeginCancel(kind) /\ fate' = Settle(fate, ToSet(interjections), "discarded")
    BY <1>7 DEF Cancel, Ready, BeginCancel
  <2>2. UNCHANGED cancel.resolved
    BY <2>1, BeginCancelRows
  <2>3. \A i \in ToSet(interjections) : fate[i] = "buffered"
    BY DEF Balance, Ledger, TextsHeld
  <2>4. Served' = Served
    BY <2>1, <2>2, <2>3, SettledUnanswered
  <2> QED BY <2>1, <2>4, QuietMaps
<1> QED BY <1>1, <1>2, <1>3, <1>4, <1>5, <1>6, <1>7, EditsMap, ShutdownMaps DEF Command

----------------------------------------------------------------------------
(* The arms of the run loop.                                               *)

(* A stranded interjection is a new request.                               *)
LEMMA FlushMaps ==
  ASSUME Balance, Balance', Flush
  PROVE  ServiceStep
<1> DEFINE i == Last(stranded)
<1>1. /\ pc = "flush" /\ stranded \in Seen /\ stranded # <<>> /\ queue \in Seq(Prompts)
      /\ queue' = InsertFallback(queue, running, i)
      /\ fate' = [fate EXCEPT ![i] = "pending"]
      /\ pc' \in {"start", "flush"} /\ UNCHANGED <<running, cancel>>
  BY DEF Flush, Balance, IInv, TypeOK, FlushHasText, Seen
<1>2. i \in ToSet(stranded) /\ i \in Prompts
  BY <1>1, LastContents, LastFront DEF Seen
<1> HIDE DEF i
<1>3. fate[i] = "buffered"
  BY <1>2 DEF Balance, Ledger, TextsHeld
<1>4. ToSet(queue') = ToSet(queue) \cup {i}
  BY <1>1, <1>2, InsertFallbackContents
<1> QED BY <1>1, <1>2, <1>3, <1>4, AppendMaps, AnswerFacts

(* A cancel answers the running turn under the lock, at a teardown the     *)
(* rest of the queue too.                                                  *)
LEMMA CancelLockMaps ==
  ASSUME Balance, Balance', CancelLock
  PROVE  ServiceStep
<1> DEFINE gone == IF Teardown THEN ToSet(notices \o buffer) ELSE {}
<1>1. /\ pc = "cancelLock" /\ pc' = "cancelGate" /\ running' = NoPrompt
      /\ (cancel.resolved)' = Taken /\ fate' = Settle(fate, gone, "discarded")
      /\ ToSet(cancel.resolved) = {}
  BY EmptyContents DEF CancelLock, Balance, Ledger, CancelSound, IInv, TypeOK
<1>0. pc # "stopped" /\ IInv /\ Ledger
  BY <1>1 DEF Balance
<1>2. /\ ToSet(queue') \cap ToSet(Taken) = {}
      /\ ToSet(queue') \cup ToSet(Taken) = ToSet(queue)
      /\ running # NoPrompt => running \in ToSet(Taken)
      /\ NoPrompt \notin ToSet(queue)
  <2>1. ToSet(queue) \subseteq Prompts
    BY <1>0, QueuedIsRunning
  <2>2. NoPrompt \notin ToSet(queue)
    BY <2>1, SortFacts
  <2> QED BY <1>0, <1>1, <2>2, TakenContents
<1>3. \A n \in gone : fate[n] = "buffered"
  BY SweptContents DEF Balance
<1> HIDE DEF gone
<1>4. PICK rows : rows = ToSet(Taken)
  OBVIOUS
<1>5. Served' = Served \cup rows
  <2>1. \A x \in Prompts : fate'[x] = IF x \in gone THEN "discarded" ELSE fate[x]
    BY <1>1 DEF Settle
  <2>2. \A x \in Prompts : fate'[x] \in Answers <=> fate[x] \in Answers
    BY <1>3, <2>1, AnswerFacts
  <2> QED BY <1>1, <1>4, <2>2 DEF Served
<1>6. Waiting' = ToSet(queue) \ rows /\ Turn' = NoPrompt
  BY <1>1, <1>2, <1>4, ServiceBooksKept DEF ServiceBooks
<1>7. CASE running # NoPrompt
  BY <1>1, <1>2, <1>4, <1>5, <1>6, <1>7, FinishMaps
<1>8. CASE running = NoPrompt
  <2>1. /\ rows \subseteq ToSet(queue) \ {running} /\ ToSet(queue') = ToSet(queue) \ rows
    BY <1>2, <1>4, <1>8
  <2> QED BY <1>1, <1>5, <1>8, <2>1, DiscardMaps
<1> QED BY <1>7, <1>8

(* The rest of a cancel only moves the answer from its locals to the       *)
(* fates.                                                                  *)
LEMMA CancelFinishMaps ==
  ASSUME Balance, Balance', CancelFinish
  PROVE  ServiceStep
<1> DEFINE answer == IF cancel.rewound THEN "rewound" ELSE "cancelled"
<1>1. /\ pc = "cancelFinish" /\ pc' = "start" /\ UNCHANGED <<running, queue>>
      /\ fate' = Settle(fate, ToSet(cancel.resolved), answer)
      /\ ToSet((cancel.resolved)') = {}
  BY NoCancelFacts, EmptyContents DEF CancelFinish
<1>2. answer \in Answers
  BY AnswerFacts
<1> HIDE DEF answer
<1>3. ToSet(cancel.resolved) \subseteq Prompts
  BY SomeContents DEF Balance, IInv, TypeOK, Seen
<1>4. \A x \in Prompts : fate'[x] = IF x \in ToSet(cancel.resolved) THEN answer ELSE fate[x]
  BY <1>1 DEF Settle
<1>5. Served' = Served
  BY <1>1, <1>2, <1>3, <1>4 DEF Served
<1> QED BY <1>1, <1>5, QuietMaps

(* A completion that owns the front answers the running turn; a stale one  *)
(* answers nothing.                                                        *)
LEMMA CompleteLockMaps ==
  ASSUME Balance, Balance', CompleteLock
  PROVE  ServiceStep
<1>1. /\ pc = "complete" /\ pc' = "turnEnd" /\ UNCHANGED cancel
      /\ queue' = (IF Owned THEN Tail(queue) ELSE queue)
      /\ running' = (IF Owned THEN NoPrompt ELSE Clear(running, cur.id))
      /\ fate' = (IF Owned THEN [fate EXCEPT ![cur.id] = "done"] ELSE fate)
  BY DEF CompleteLock
<1>2. /\ cur.id \in Prompts /\ cur.id # NoPrompt
      /\ Owned => running = cur.id /\ queue # <<>> /\ Head(queue) = cur.id
      /\ ~Owned => Clear(running, cur.id) = running
  BY <1>1, OwnedFacts DEF Balance
<1>3. CASE ~Owned
  BY <1>1, <1>2, <1>3, QuietMaps DEF Served
<1>4. CASE Owned
  <2>1. /\ ToSet(queue) = {running} \cup ToSet(queue') /\ running \notin ToSet(queue')
        /\ running # NoPrompt /\ running' = NoPrompt
    <3>1. queue \in Seq(Prompts) /\ IsInjective(queue)
      BY <1>1 DEF Balance, IInv, TypeOK, Seen, Ledger, PromptsHeld
    <3>2. queue # <<>> /\ Head(queue) = running /\ queue' = Tail(queue)
      BY <1>1, <1>2, <1>4
    <3>3. /\ ToSet(queue) = {Head(queue)} \cup ToSet(Tail(queue))
          /\ Head(queue) \notin ToSet(Tail(queue))
      BY <3>1, <3>2, TailContents
    <3> QED BY <1>1, <1>2, <1>4, <3>2, <3>3
  <2>2. PICK rows : rows = {running}
    OBVIOUS
  <2>3. Served' = Served \cup rows
    <3>1. \A x \in Prompts : fate'[x] = IF x = running THEN "done" ELSE fate[x]
      BY <1>1, <1>2, <1>4 DEF Balance, IInv, TypeOK
    <3> QED BY <1>1, <1>2, <1>4, <2>2, <3>1, AnswerFacts DEF Served
  <2>4. /\ Turn' = NoPrompt /\ Waiting' = ToSet(queue') \ {NoPrompt}
        /\ ToSet(queue) \subseteq Prompts
    BY <1>1, <2>1, ServiceBooksKept DEF ServiceBooks
  <2>5. Waiting' = ToSet(queue) \ rows /\ rows \subseteq ToSet(queue) /\ running \in rows
    BY <2>1, <2>2, <2>4, SortFacts
  <2> QED BY <1>1, <2>1, <2>3, <2>4, <2>5, FinishMaps
<1> QED BY <1>3, <1>4

(* Every step of the run loop is a step of the service, or hidden from it. *)
LEMMA RunLoopMaps ==
  ASSUME Balance, Balance', RunLoopStep
  PROVE  ServiceStep
<1>1. CASE Complete
  <2>1. pc = "select" /\ pc' = "complete" /\ UNCHANGED <<running, queue, cancel, fate>>
    BY <1>1 DEF Complete
  <2> QED BY <2>1, QuietMaps DEF Served
<1>2. CASE TurnEndArm
  <2>1. pc = "turnEnd" /\ pc' \in {"start", "flush"} /\ UNCHANGED <<running, cancel>>
    BY <1>2 DEF TurnEndArm
  <2>2. CASE UNCHANGED <<queue, fate>>
    BY <2>1, <2>2, QuietMaps DEF Served
  <2>3. ASSUME NEW g \in Goal, fate[g] = "new", queue' = Append(queue, g),
               fate' = [fate EXCEPT ![g] = "pending"]
        PROVE  ServiceStep
    <3>1. /\ g \in Prompts /\ ToSet(queue') = ToSet(queue) \cup {g}
          /\ fate[g] \notin Answers \cup {"pending"}
      <4>1. queue \in Seq(Prompts) /\ g \in Prompts
        BY SortFacts DEF Balance, IInv, TypeOK, Seen
      <4> QED BY <2>3, <4>1, AppendContents, AnswerFacts
    <3> QED BY <2>1, <2>3, <3>1, AppendMaps
  <2> QED BY <1>2, <2>2, <2>3 DEF TurnEndArm
<1>3. CASE Start \/ DrainStart
  <2>1. /\ MaybeStart /\ pc # "stopped" /\ pc' # "stopped"
        /\ UNCHANGED <<queue, cancel, fate>>
    BY <1>3 DEF Start, DrainStart
  <2> QED BY <2>1, StartMaps
<1>4. CASE CancelGate \/ CancelAbort
  <2>1. /\ pc # "stopped" /\ pc' # "stopped"
        /\ UNCHANGED <<running, queue, cancel, fate>>
    BY <1>4 DEF CancelGate, CancelAbort
  <2> QED BY <2>1, QuietMaps DEF Served
<1>5. CASE Drain
  <2> DEFINE all == ToSet(Swept)
             batch == Surfaced(Swept)
  <2>1. /\ pc = "drain" /\ pc' \in {"drainStart", "select"} /\ UNCHANGED <<running, cancel>>
    BY <1>5 DEF Drain
  <2>2. \A n \in all : n \in Prompts /\ fate[n] = "buffered"
    BY SweptContents, SortFacts DEF Balance, Swept
  <2>3. CASE ~Idle
    BY <1>5, <2>1, <2>3, QuietMaps DEF Drain, Served
  <2>4. CASE Idle /\ batch = <<>>
    <3>1. queue' = queue /\ fate' = Settle(fate, all, "discarded")
      BY <1>5, <2>4 DEF Drain
    <3>2. Served' = Served
      BY <2>1, <2>2, <3>1, SettledUnanswered
    <3> QED BY <2>1, <3>1, <3>2, QuietMaps
  <2>5. CASE Idle /\ batch # <<>>
    <3>1. /\ queue = <<>> /\ queue' = <<Head(batch)>>
          /\ fate' = Settle(Settle(Settle(fate, all \ ToSet(batch), "discarded"),
                                   ToSet(batch), "merged"),
                            {Head(batch)}, "pending")
      BY <1>5, <2>5 DEF Drain, Idle
    <3>2. batch \in Seq(Prompts) /\ ToSet(batch) \subseteq all
      <4>1. Swept \in Seq(Prompts)
        BY DEF Balance, IInv, TypeOK, Swept, Seen
      <4>2. ~(goal \in {"active", "complete"})
        BY <2>5 DEF Surfaced
      <4> QED BY <4>1, <4>2, KeepType, KeepContents DEF Surfaced
    <3> HIDE DEF all, batch
    <3>3. PICK h \in Prompts : h = Head(batch) /\ h \in ToSet(batch) /\ h \in all
      BY <2>2, <2>5, <3>2, SomeContents
    <3>4. ToSet(queue') = (ToSet(queue) \ {}) \cup {h}
      BY <3>1, <3>3, SingleContents, EmptyContents
    <3>5. \A x \in Prompts : fate'[x] = IF x = h THEN "pending"
                                        ELSE IF x \in ToSet(batch) THEN "merged"
                                        ELSE IF x \in all THEN "discarded"
                                        ELSE fate[x]
      BY <3>1, <3>3 DEF Settle
    <3>6. \A x \in Prompts : fate'[x] \in Answers <=> fate[x] \in Answers
      BY <2>2, <3>2, <3>3, <3>5, AnswerFacts
    <3>7. Served' = Served \cup {} /\ {} \subseteq ToSet(queue) \ {running}
      BY <2>1, <3>6, SameAnswered
    <3>8. fate[h] \notin Answers \cup {"pending"}
      BY <2>2, <3>3, AnswerFacts
    <3> QED BY <2>1, <3>4, <3>7, <3>8, AcceptMaps
  <2> QED BY <2>3, <2>4, <2>5
<1> QED BY <1>1, <1>2, <1>3, <1>4, <1>5, FlushMaps, CancelLockMaps, CancelFinishMaps,
           CompleteLockMaps DEF RunLoopStep

----------------------------------------------------------------------------
(* Turn tasks and starting tasks.                                          *)

(* A turn changes what waits only by consuming a task's queued wake.       *)
LEMMA TurnMaps ==
  ASSUME Balance, Balance', NEW p \in Prompts, TurnStep(p)
  PROVE  ServiceStep
<1>1. CASE \/ TurnBegin(p) \/ TurnEmit(p) \/ TurnWait(p) \/ DropGuard(p) \/ Reap(p)
           \/ \E status \in {"active", "complete", "none"} : TurnGoal(p, status)
           \/ \E ok \in BOOLEAN : TurnEnd(p, ok)
  <2>1. pc # "stopped" /\ UNCHANGED <<pc, running, queue, cancel, fate>>
    BY <1>1 DEF TurnBegin, TurnEmit, TurnWait, DropGuard, Reap, TurnGoal, TurnEnd, Open,
       loopVars
  <2> QED BY <2>1, QuietMaps DEF Served
<1>2. CASE TurnMerge(p)
  <2> DEFINE merged == ToSet(interjections \o buffer)
  <2>1. /\ pc # "stopped" /\ UNCHANGED <<pc, running, queue, cancel>>
        /\ fate' = Settle(fate, merged, "merged")
    BY <1>2 DEF TurnMerge, Open, loopVars
  <2>2. merged = ToSet(interjections) \cup ToSet(buffer)
    <3>1. interjections \in Seq(Prompts) /\ buffer \in Seq(Prompts)
      BY DEF Balance, IInv, TypeOK, Seen
    <3> QED BY <3>1, ConcatContents
  <2> HIDE DEF merged
  <2>3. \A x \in merged : fate[x] = "buffered"
    BY <2>2 DEF Balance, Ledger, TextsHeld, NoticesHeld
  <2>4. Served' = Served
    BY <2>1, <2>3, SettledUnanswered
  <2> QED BY <2>1, <2>4, QuietMaps
<1>3. ASSUME NEW w \in Wake, TurnConsume(p, w)  PROVE ServiceStep
  <2> DEFINE moot == {n \in ToSet(notices) : SourceOf[n] = w}
  <2>1. PICK swept : swept = ToSet(queue) \ ToSet(queue')
    OBVIOUS
  <2>2. /\ pc # "stopped" /\ queue' = Sweep(queue, running, {w})
        /\ fate' = Settle(Settle(fate, swept, "dropped"), moot, "discarded")
        /\ UNCHANGED <<pc, running, cancel>>
    BY <1>3, <2>1 DEF TurnConsume, Open, loopVars
  <2>3. ToSet(queue') = {x \in ToSet(queue) : x = running \/ x # w}
    <3>1. queue \in Seq(Prompts)
      BY DEF Balance, IInv, TypeOK, Seen
    <3> QED BY <2>2, <3>1, SweepContents
  <2>4. /\ swept \subseteq ToSet(queue) \ {running} /\ swept \subseteq Prompts
        /\ ToSet(queue') = ToSet(queue) \ swept /\ \A x \in swept : fate[x] = "pending"
    BY <2>1, <2>2, <2>3, QueuedIsRunning DEF Balance, Ledger, PromptsHeld
  <2>5. \A n \in moot : fate[n] = "buffered"
    BY DEF Balance, Ledger, NoticesHeld
  <2> HIDE DEF moot
  <2>6. \A x \in Prompts : fate'[x] = IF x \in moot THEN "discarded"
                                      ELSE IF x \in swept THEN "dropped" ELSE fate[x]
    BY <2>2 DEF Settle
  <2>7. Served' = Served \cup swept
    <3>1. \A x \in Prompts : fate'[x] \in Answers <=> fate[x] \in Answers \/ x \in swept
      BY <2>4, <2>5, <2>6, AnswerFacts
    <3> QED BY <2>2, <2>4, <3>1 DEF Served
  <2> QED BY <2>2, <2>4, <2>7, DiscardMaps
<1> QED BY <1>1, <1>2, <1>3 DEF TurnStep

(* A starting task starts a waiting request, or queues its own.            *)
LEMMA StarterMaps ==
  ASSUME Balance, Balance', Starter
  PROVE  ServiceStep
<1>1. CASE McpReady \/ PlanStart
  <2>1. /\ MaybeStart /\ pc # "stopped" /\ UNCHANGED <<pc, queue, cancel, fate>>
    BY <1>1 DEF McpReady, PlanStart, Open, loopVars
  <2> QED BY <2>1, StartMaps
<1>2. ASSUME NEW r \in Plan, PlanQueue(r)  PROVE ServiceStep
  <2>1. /\ pc # "stopped" /\ UNCHANGED <<pc, running, cancel>> /\ r \in Prompts
        /\ fate[r] = "new" /\ QueueInput(r, FALSE)
    BY <1>2, SortFacts DEF PlanQueue, Open, loopVars
  <2> QED BY <2>1, QueueInputMaps
<1> QED BY <1>1, <1>2 DEF Starter

----------------------------------------------------------------------------
(* A session without prompts is a service without requests.                *)
LEMMA InitMaps == Init => Service!Init
<1> SUFFICES ASSUME Init PROVE Service!Init
  OBVIOUS
<1>1. /\ \A p \in Prompts : fate[p] = "new"
      /\ running = NoPrompt /\ ToSet(cancel.resolved) = {} /\ pc = "select"
  BY NoCancelFacts, EmptyContents DEF Init
<1> QED BY <1>1, AnswerFacts DEF Service!Init

(* Every step maps to a step of the service or to a stutter.               *)
LEMMA NextMaps == Balance /\ Balance' /\ [Next]_vars => [Service!Next]_(Service!state)
<1> SUFFICES ASSUME Balance, Balance', [Next]_vars PROVE ServiceStep
  BY DEF ServiceStep, Service!state, Waiting, Turn, Served
<1>1. CASE UNCHANGED vars
  <2>1. UNCHANGED <<pc, running, queue, cancel, fate>>
    BY <1>1 DEF vars, loopVars
  <2> QED BY <2>1 DEF ServiceStep, Waiting, Turn, Served
<1> QED BY <1>1, CommandMaps, RunLoopMaps, TurnMaps, StarterMaps DEF Next

(* The scheduler implements the service: whatever is queued, preempted,    *)
(* reordered, interjected, cancelled or started behind the loop's back, a  *)
(* session starts only prompts it accepted and has not answered, one at a  *)
(* time, and answers each once.                                            *)
THEOREM ServiceImplemented == Spec => ServiceKept
BY InitMaps, NextMaps, BalanceKept, PTL DEF Spec, ServiceKept, Service!Spec

----------------------------------------------------------------------------
(***************************************************************************)
(* The order of the queue.  What each edit does to who is ahead of whom    *)
(* comes first, then the two promises about it.                            *)
(***************************************************************************)

(* A subsequence keeps the order.                                          *)
LEMMA BeforeKeep ==
  ASSUME NEW S, NEW s \in Seq(S), NEW K, NEW a, NEW b, Before(Keep(s, K), a, b)
  PROVE  Before(s, a, b)
<1> DEFINE t == Keep(s, K)
<1>1. PICK i \in DOMAIN t, j \in DOMAIN t : i < j /\ t[i] = a /\ t[j] = b
  BY DEF Before
<1>2. \E k, m \in DOMAIN s : k < m /\ t[i] = s[k] /\ t[j] = s[m]
  BY <1>1, KeepOrder
<1> QED BY <1>1, <1>2 DEF Before

LEMMA BeforeTail ==
  ASSUME NEW S, NEW s \in Seq(S), s # <<>>, NEW a, NEW b, Before(Tail(s), a, b)
  PROVE  Before(s, a, b)
<1> DEFINE t == Tail(s)
<1>1. PICK i \in DOMAIN t, j \in DOMAIN t : i < j /\ t[i] = a /\ t[j] = b
  BY DEF Before
<1>2. /\ i + 1 \in DOMAIN s /\ j + 1 \in DOMAIN s /\ i + 1 < j + 1
      /\ t[i] = s[i + 1] /\ t[j] = s[j + 1]
  BY <1>1
<1> HIDE DEF t
<1> QED BY <1>1, <1>2 DEF Before

(* What is appended is ahead of nothing.                                   *)
LEMMA BeforeAppend ==
  ASSUME NEW S, NEW s \in Seq(S), NEW p \in S, NEW a, NEW b,
         Before(Append(s, p), a, b)
  PROVE  Before(s, a, b) \/ b = p
<1> DEFINE t == Append(s, p)
<1>1. PICK i \in DOMAIN t, j \in DOMAIN t : i < j /\ t[i] = a /\ t[j] = b
  BY DEF Before
<1>2. CASE j = Len(s) + 1
  BY <1>1, <1>2
<1>3. CASE j # Len(s) + 1
  <2>1. i \in DOMAIN s /\ j \in DOMAIN s /\ t[i] = s[i] /\ t[j] = s[j]
    BY <1>1, <1>3
  <2> HIDE DEF t
  <2> QED BY <1>1, <2>1 DEF Before
<1> QED BY <1>2, <1>3

(* What is inserted at i is behind what was before i, and nothing else     *)
(* changes sides.                                                          *)
LEMMA BeforeInsertAt ==
  ASSUME NEW s \in Seq(Prompts), NEW p \in Prompts, NEW i \in 1..(Len(s) + 1),
         NEW a, NEW b, a # p, Before(InsertAt(s, i, p), a, b)
  PROVE  Before(s, a, b) \/ (b = p /\ \E k \in 1..(i - 1) : s[k] = a)
<1> DEFINE t == InsertAt(s, i, p)
           Old(k) == IF k < i THEN k ELSE k - 1
<1>1. PICK k \in DOMAIN t, m \in DOMAIN t : k < m /\ t[k] = a /\ t[m] = b
  BY DEF Before
<1>2. /\ Len(t) = Len(s) + 1 /\ DOMAIN t = 1..(Len(s) + 1)
      /\ \A n \in DOMAIN t : t[n] = IF n = i THEN p ELSE s[Old(n)]
  BY InsertAtPositions
<1> HIDE DEF t
<1>3. k # i /\ Old(k) \in DOMAIN s /\ s[Old(k)] = a
  BY <1>1, <1>2
<1>4. CASE m = i
  <2>1. k \in 1..(i - 1) /\ s[k] = a /\ b = p
    BY <1>1, <1>2, <1>4
  <2> QED BY <2>1
<1>5. CASE m # i
  <2>1. Old(m) \in DOMAIN s /\ s[Old(m)] = b /\ Old(k) < Old(m)
    BY <1>1, <1>2, <1>3, <1>5
  <2> HIDE DEF Old
  <2> QED BY <1>3, <2>1 DEF Before
<1> QED BY <1>4, <1>5

(* What is inserted to run next is behind the running front alone.         *)
LEMMA BeforeFallback ==
  ASSUME NEW s \in Seq(Prompts), NEW r, NEW p \in Prompts, NEW a, NEW b, a # p,
         Before(InsertFallback(s, r, p), a, b)
  PROVE  Before(s, a, b) \/ (b = p /\ a = r)
<1>1. FrontSlot(s, r) \in 1..(Len(s) + 1)
  BY DEF FrontSlot, IsFront
<1>2. \A k \in 1..(FrontSlot(s, r) - 1) : s[k] = r
  BY DEF FrontSlot, IsFront
<1>3. Before(s, a, b) \/ (b = p /\ \E k \in 1..(FrontSlot(s, r) - 1) : s[k] = a)
  BY <1>1, BeforeInsertAt DEF InsertFallback
<1> QED BY <1>2, <1>3

(* What is sent now is behind the running front and what was sent before.  *)
LEMMA BeforeSendNow ==
  ASSUME NEW s \in Seq(Prompts), NEW r, NEW m, NEW p \in Prompts, NEW a, NEW b,
         a # p, Before(InsertSendNow(s, r, m, p), a, b)
  PROVE  Before(s, a, b) \/ (b = p /\ (a = r \/ a \in m))
<1> DEFINE slot == SendNowSlot(s, r, m)
<1>1. slot \in FrontSlot(s, r)..(Len(s) + 1) /\ FrontSlot(s, r) \in 1..(Len(s) + 1)
  BY SendNowSlotFacts DEF FrontSlot, IsFront
<1>2. \A k \in FrontSlot(s, r)..(slot - 1) : s[k] \in m
  BY SendNowSlotFacts
<1>3. \A k \in 1..(FrontSlot(s, r) - 1) : s[k] = r
  BY DEF FrontSlot, IsFront
<1> HIDE DEF slot
<1>4. \A k \in 1..(slot - 1) : s[k] \in m \/ s[k] = r
  BY <1>1, <1>2, <1>3
<1>5. Before(s, a, b) \/ (b = p /\ \E k \in 1..(slot - 1) : s[k] = a)
  BY <1>1, BeforeInsertAt DEF InsertSendNow, slot
<1> QED BY <1>4, <1>5

(* Only what was accepted is marked, and it is the user's.                 *)
MarkedKnown == marked \subseteq User /\ \A p \in marked : fate[p] # "new"

(* A row comes to be ahead of another by the edits of the code, not by     *)
(* moving: it was sent now or flushed, or it runs, or the row behind it    *)
(* was appended.                                                           *)
Orderly ==
  /\ \A a, b \in Prompts :
       Before(queue', a, b) =>
         \/ Before(queue, a, b) /\ (b \in marked' => b \in marked)
         \/ a \in marked'
         \/ a = running /\ running' = running
         \/ b \notin marked' /\ (b \in User => a \notin Wake)
  /\ marked \cap ToSet(queue') \subseteq marked'
  /\ running' # running => running = NoPrompt \/ running \notin ToSet(queue')

(* User prompts and synthetic ones are not the same.                       *)
LEMMA UserIsNotMade == User \cap Wake = {} /\ User \cap Goal = {}
<1> DEFINE sorts == <<Client, Fallback, Wake, Notice, Goal, Plan>>
<1>1. \A i, j \in 1..6 : i # j => sorts[i] \cap sorts[j] = {}
  BY SortsDisjoint, Zenon
<1>2. /\ 1 \in 1..6 /\ 2 \in 1..6 /\ 3 \in 1..6 /\ 5 \in 1..6
      /\ 1 # 3 /\ 2 # 3 /\ 1 # 5 /\ 2 # 5
  OBVIOUS
<1>3. /\ sorts[1] \cap sorts[3] = {} /\ sorts[2] \cap sorts[3] = {}
      /\ sorts[1] \cap sorts[5] = {} /\ sorts[2] \cap sorts[5] = {}
  BY <1>1, <1>2, Zenon
<1> QED BY <1>3 DEF User

(* Nobody is ahead or behind who is not in the queue.                      *)
LEMMA BeforeContents ==
  ASSUME NEW s, NEW a, NEW b, Before(s, a, b)
  PROVE  a \in ToSet(s) /\ b \in ToSet(s)
BY DEF Before, ToSet

(* A step that leaves the queue alone, or only takes rows from it.         *)
LEMMA OrderShrinks ==
  ASSUME \A a, b \in Prompts : Before(queue', a, b) => Before(queue, a, b),
         marked' \in {marked, marked \cap ToSet(queue')},
         running' # running => running = NoPrompt \/ running \notin ToSet(queue')
  PROVE  Orderly
BY DEF Orderly

(* A prompt that is sent now.                                              *)
LEMMA OrderSendNow ==
  ASSUME NEW s \in Seq(Prompts), NEW p \in Prompts, p \notin ToSet(s),
         \A a, b \in Prompts : Before(s, a, b) => Before(queue, a, b),
         queue' = InsertSendNow(s, running, marked, p),
         marked' = marked \cup {p}, running' = running
  PROVE  Orderly
<1>1. ASSUME NEW a \in Prompts, NEW b \in Prompts, Before(queue', a, b)
      PROVE  \/ Before(queue, a, b) /\ (b \in marked' => b \in marked)
             \/ a \in marked'
             \/ a = running /\ running' = running
  <2>1. CASE a = p
    BY <2>1
  <2>2. CASE a # p
    <3>1. Before(s, a, b) \/ (b = p /\ (a = running \/ a \in marked))
      BY <1>1, <2>2, BeforeSendNow
    <3>2. Before(s, a, b) => b # p
      BY BeforeContents
    <3> QED BY <3>1, <3>2
  <2> QED BY <2>1, <2>2
<1> QED BY <1>1 DEF Orderly

(* A prompt that is appended, after the wakes that it preempts are swept.  *)
LEMMA OrderAppend ==
  ASSUME NEW s \in Seq(Prompts), NEW p \in Prompts, p \notin marked,
         \A a, b \in Prompts : Before(s, a, b) => Before(queue, a, b),
         queue' = Append(s, p), UNCHANGED <<marked, running>>,
         p \in User => \A w \in Wake \cap ToSet(s) : w = running
  PROVE  Orderly
<1>1. ASSUME NEW a \in Prompts, NEW b \in Prompts, Before(queue', a, b)
      PROVE  \/ Before(queue, a, b)
             \/ a \in User
             \/ a = running
             \/ b \notin marked' /\ (b \in User => a \notin Wake)
  <2>1. Before(s, a, b) \/ b = p
    BY <1>1, BeforeAppend
  <2>2. a \in ToSet(s) \/ a = p
    BY <1>1, BeforeContents, AppendContents
  <2>3. p \in User => p \notin Wake
    BY UserIsNotMade
  <2> QED BY <2>1, <2>2, <2>3
<1>2. ASSUME NEW a \in User, NEW b  PROVE b \in User => a \notin Wake
  BY UserIsNotMade
<1>3. ASSUME NEW a \in Prompts, NEW b \in Prompts, Before(queue', a, b)
      PROVE  Before(queue, a, b) \/ b = p
  BY <1>3, BeforeAppend
<1> QED BY <1>1, <1>2, <1>3 DEF Orderly

LEMMA OrderQueueInput ==
  ASSUME Balance, MarkedKnown, pc # "stopped", NEW p \in Prompts, fate[p] = "new",
         NEW asked \in BOOLEAN, QueueInput(p, asked), running' = running
  PROVE  Orderly
<1> DEFINE s == Remaining(p)
<1>1. queue \in Seq(Prompts) /\ p \notin ToSet(queue) /\ p \notin marked
  BY DEF Balance, IInv, TypeOK, Seen, Ledger, PromptsHeld, MarkedKnown
<1>2. s \in Seq(Prompts) /\ ToSet(s) \subseteq ToSet(queue)
  BY <1>1, SweepSafe, SweepContents DEF Remaining
<1>3. \A a, b \in Prompts : Before(s, a, b) => Before(queue, a, b)
  BY <1>1, BeforeKeep DEF Remaining, Sweep
<1>4. p \in User => \A w \in Wake \cap ToSet(s) : w = running
  <2> SUFFICES ASSUME p \in User, NEW w \in Wake, w \in ToSet(s)  PROVE w = running
    OBVIOUS
  <2>1. CASE QueuedWake
    BY <1>1, <2>1, SweepContents DEF Remaining, Preempts, Synthetic
  <2>2. CASE ~QueuedWake
    BY <1>2, <2>2 DEF QueuedWake
  <2> QED BY <2>1, <2>2
<1> HIDE DEF s
<1>5. CASE SendsNow(p, asked)
  BY <1>1, <1>2, <1>3, <1>5, OrderSendNow DEF QueueInput, s
<1>6. CASE ~SendsNow(p, asked)
  BY <1>1, <1>2, <1>3, <1>4, <1>6, OrderAppend DEF QueueInput, s
<1> QED BY <1>5, <1>6

LEMMA CommandOrder ==
  ASSUME Balance, MarkedKnown, Command
  PROVE  Orderly \/ \E order \in Orders : Reorder(order)
<1>1. queue \in Seq(Prompts)
  BY DEF Balance, IInv, TypeOK, Seen
<1>2. ASSUME NEW p \in Client \cup Wake \cup Goal, NEW asked \in BOOLEAN, Prompt(p, asked)
      PROVE  Orderly
  <2>1. p \in Prompts /\ fate[p] = "new" /\ pc # "stopped" /\ running' = running
    BY <1>2, SortFacts DEF Prompt, Ready
  <2> QED BY <1>2, <2>1, OrderQueueInput DEF Prompt
<1>3. ASSUME NEW p \in Client, InterjectQueued(p)  PROVE Orderly
  <2> DEFINE others == Keep(queue, ToSet(queue) \ {p})
  <2>1. others \in Seq(Prompts) /\ p \notin ToSet(others) /\ p \in Prompts
    BY <1>1, KeepType, KeepContents, SortFacts
  <2>2. \A a, b \in Prompts : Before(others, a, b) => Before(queue, a, b)
    BY <1>1, BeforeKeep
  <2>3. /\ queue' = InsertSendNow(others, running, marked, p)
        /\ marked' = marked \cup {p} /\ running' = running
    BY <1>3 DEF InterjectQueued
  <2> HIDE DEF others
  <2> QED BY <2>1, <2>2, <2>3, OrderSendNow
<1>4. ASSUME NEW K, QueueEdit(Keep(queue, K))  PROVE Orderly
  <2>1. \A a, b \in Prompts : Before(queue', a, b) => Before(queue, a, b)
    BY <1>1, <1>4, BeforeKeep DEF QueueEdit
  <2>2. marked' = marked \cap ToSet(queue') /\ running' = running
    BY <1>4 DEF QueueEdit
  <2> QED BY <2>1, <2>2, OrderShrinks
<1>5. ASSUME NEW g \in Goal, GoalSummaryTurn(g)  PROVE Orderly
  <2>1. queue' = Append(queue, g) /\ UNCHANGED <<marked, running>>
    BY <1>5 DEF GoalSummaryTurn
  <2>2. g \in Prompts /\ g \notin marked /\ g \notin User
    BY <1>5, SortFacts, UserIsNotMade DEF GoalSummaryTurn, MarkedKnown
  <2> QED BY <1>1, <2>1, <2>2, OrderAppend
<1>6. ASSUME NEW closed \in BOOLEAN, Shutdown(closed)  PROVE Orderly
  <2>1. UNCHANGED <<marked, running>> /\ (queue' = queue \/ queue' = Keep(queue, User))
    BY <1>6 DEF Shutdown
  <2>2. \A a, b \in Prompts : Before(queue', a, b) => Before(queue, a, b)
    BY <1>1, <2>1, BeforeKeep
  <2> QED BY <2>1, <2>2, OrderShrinks
<1>7. ASSUME UNCHANGED <<queue, marked, running>>  PROVE Orderly
  BY <1>7, OrderShrinks
<1> QED BY <1>2, <1>3, <1>4, <1>5, <1>6, <1>7 DEF Command, RemoveQueued, ClearQueue,
        Interject, InjectNotification, DropMonitorNotifications, Cancel

(* A start moves nothing.                                                  *)
LEMMA StartOrder ==
  ASSUME MaybeStart, UNCHANGED <<queue, marked>>
  PROVE  Orderly
<1>1. running' # running => running = NoPrompt
  BY DEF MaybeStart, CanStart
<1> QED BY <1>1, OrderShrinks

(* The steps of the arms; the row a cancel or a completion takes is the    *)
(* running one.                                                            *)
LEMMA RunLoopOrder ==
  ASSUME Balance, MarkedKnown, RunLoopStep
  PROVE  Orderly
<1>1. queue \in Seq(Prompts)
  BY DEF Balance, IInv, TypeOK, Seen
<1>2. CASE Flush
  <2>1. stranded # <<>> /\ stranded \in Seq(Prompts)
    BY <1>2 DEF Flush, Balance, IInv, FlushHasText, TypeOK, Seen
  <2>2. PICK i \in Prompts : i = Last(stranded)
    BY <2>1, LastFront
  <2>3. i \in Fallback /\ i \notin ToSet(queue)
    <3>1. i \in ToSet(stranded)
      BY <2>1, <2>2, LastContents DEF Seen
    <3>2. fate[i] = "buffered" /\ pc # "stopped" /\ i \in Fallback
      BY <1>2, <3>1 DEF Flush, Balance, Ledger, TextsHeld
    <3> QED BY <3>2 DEF Balance, Ledger, PromptsHeld
  <2>4. /\ queue' = InsertFallback(queue, running, i) /\ marked' = marked \cup {i}
        /\ running' = running
    BY <1>2, <2>2 DEF Flush
  <2>5. ASSUME NEW a \in Prompts, NEW b \in Prompts, Before(queue', a, b)
        PROVE  \/ Before(queue, a, b) /\ (b \in marked' => b \in marked)
               \/ a \in marked'
               \/ a = running /\ running' = running
    <3>1. CASE a = i
      BY <2>4, <3>1
    <3>2. CASE a # i
      <4>1. Before(queue, a, b) \/ (b = i /\ a = running)
        BY <1>1, <2>4, <2>5, <3>2, BeforeFallback
      <4>2. Before(queue, a, b) => b # i
        BY <2>3, BeforeContents
      <4> QED BY <2>4, <4>1, <4>2
    <3> QED BY <3>1, <3>2
  <2> QED BY <2>4, <2>5 DEF Orderly
<1>3. CASE CancelLock \/ CompleteLock
  <2>1. /\ marked' = marked \cap ToSet(queue')
        /\ queue' = queue \/ queue' = <<>> \/ (queue # <<>> /\ queue' = Tail(queue))
    BY <1>3 DEF CancelLock, CompleteLock, Owned, IsFront
  <2>2. \A a, b \in Prompts : Before(queue', a, b) => Before(queue, a, b)
    <3>1. \A a, b : ~Before(<<>>, a, b)
      BY BeforeContents, EmptyContents
    <3>2. CASE queue' = queue \/ queue' = <<>>
      BY <3>1, <3>2
    <3>3. CASE queue # <<>> /\ queue' = Tail(queue)
      BY <1>1, <3>3, BeforeTail
    <3> QED BY <2>1, <3>2, <3>3
  <2>3. running' # running => running = NoPrompt \/ running \notin ToSet(queue')
    <3> SUFFICES ASSUME running' # running, running # NoPrompt
                 PROVE  running \notin ToSet(queue')
      OBVIOUS
    <3>1. pc # "stopped" /\ IsInjective(queue) /\ IsFront(queue, running)
      BY <1>3 DEF CancelLock, CompleteLock, Balance, Ledger, PromptsHeld, IInv,
         FrontIsRunning
    <3>2. queue # <<>> /\ Head(queue) = running
      BY <3>1 DEF IsFront
    <3>3. running \notin ToSet(Tail(queue)) /\ running \notin ToSet(<<>>)
      BY <1>1, <3>1, <3>2, TailContents, EmptyContents
    <3>4. CASE CancelLock
      BY <3>2, <3>3, <3>4 DEF CancelLock
    <3>5. CASE CompleteLock
      <4>1. Owned
        BY <3>5, OwnedFacts DEF CompleteLock, Balance
      <4> QED BY <3>3, <3>5, <4>1 DEF CompleteLock
    <3> QED BY <1>3, <3>4, <3>5
  <2> QED BY <2>1, <2>2, <2>3, OrderShrinks
<1>4. CASE Drain
  <2>1. UNCHANGED <<marked, running>> /\ (queue' = queue \/ \E x : queue' = <<x>>)
    BY <1>4 DEF Drain
  <2>2. \A x, a, b : ~Before(<<x>>, a, b)
    BY DEF Before
  <2>3. \A a, b \in Prompts : Before(queue', a, b) => Before(queue, a, b)
    BY <2>1, <2>2
  <2> QED BY <2>1, <2>3, OrderShrinks
<1>5. CASE TurnEndArm
  <2>1. CASE queue' = queue
    BY <1>5, <2>1, OrderShrinks DEF TurnEndArm
  <2>2. CASE queue' # queue
    <3>1. PICK g \in Goal : fate[g] = "new" /\ queue' = Append(queue, g)
      BY <1>5, <2>2 DEF TurnEndArm
    <3>2. g \in Prompts /\ g \notin marked /\ g \notin User
      BY <3>1, SortFacts, UserIsNotMade DEF MarkedKnown
    <3>3. UNCHANGED <<marked, running>>
      BY <1>5 DEF TurnEndArm
    <3> QED BY <1>1, <3>1, <3>2, <3>3, OrderAppend
  <2> QED BY <2>1, <2>2
<1>6. CASE Start \/ DrainStart
  BY <1>6, StartOrder DEF Start, DrainStart
<1>7. CASE Complete \/ CancelGate \/ CancelAbort \/ CancelFinish
  BY <1>7, OrderShrinks DEF Complete, CancelGate, CancelAbort, CancelFinish
<1> QED BY <1>2, <1>3, <1>4, <1>5, <1>6, <1>7 DEF RunLoopStep

(* The turn tasks and the tasks that start a turn.                         *)
LEMMA TaskOrder ==
  ASSUME Balance, MarkedKnown, Starter \/ \E p \in Prompts : TurnStep(p)
  PROVE  Orderly
<1>1. ASSUME NEW p, NEW w \in Wake, TurnConsume(p, w)  PROVE Orderly
  <2>1. queue \in Seq(Prompts)
    BY DEF Balance, IInv, TypeOK, Seen
  <2>2. UNCHANGED <<marked, running>> /\ queue' = Sweep(queue, running, {w})
    BY <1>1 DEF TurnConsume
  <2>3. \A a, b \in Prompts : Before(queue', a, b) => Before(queue, a, b)
    BY <2>1, <2>2, BeforeKeep DEF Sweep
  <2> QED BY <2>2, <2>3, OrderShrinks
<1>2. ASSUME NEW r \in Plan, PlanQueue(r)  PROVE Orderly
  <2>1. pc # "stopped" /\ r \in Prompts /\ fate[r] = "new" /\ running' = running
    BY <1>2, SortFacts DEF PlanQueue, Open
  <2> QED BY <1>2, <2>1, OrderQueueInput DEF PlanQueue
<1>3. CASE McpReady \/ PlanStart
  BY <1>3, StartOrder DEF McpReady, PlanStart
<1>4. ASSUME UNCHANGED <<queue, marked, running>>  PROVE Orderly
  BY <1>4, OrderShrinks
<1> QED BY <1>1, <1>2, <1>3, <1>4 DEF Starter, TurnStep, TurnBegin, TurnEmit, TurnMerge,
        TurnWait, DropGuard, TurnGoal, TurnEnd, Reap

LEMMA NextOrder ==
  ASSUME Balance, MarkedKnown, [Next]_vars
  PROVE  Orderly \/ \E order \in Orders : Reorder(order)
<1>1. CASE UNCHANGED vars
  BY <1>1, OrderShrinks DEF vars
<1> QED BY <1>1, CommandOrder, RunLoopOrder, TaskOrder DEF Next

(* No prompt is new again, and what is marked is a user's prompt that was  *)
(* accepted.                                                               *)
LEMMA KnownStays ==
  ASSUME MarkedKnown, marked' \subseteq marked,
         \A p \in Prompts : fate'[p] = "new" => fate[p] = "new"
  PROVE  MarkedKnown'
<1>1. User \subseteq Prompts
  BY DEF Prompts
<1> QED BY <1>1 DEF MarkedKnown

LEMMA KnownQueueInput ==
  ASSUME MarkedKnown, NEW p \in Prompts, NEW asked \in BOOLEAN, QueueInput(p, asked)
  PROVE  MarkedKnown'
<1>1. User \subseteq Prompts
  BY DEF Prompts
<1>2. fate'[p] = "pending" /\ \A x \in Prompts : fate'[x] = "new" => fate[x] = "new"
  BY DEF QueueInput, Settle
<1>3. marked' = marked \/ (p \in User /\ marked' = marked \cup {p})
  BY DEF QueueInput, SendsNow
<1> QED BY <1>1, <1>2, <1>3 DEF MarkedKnown

LEMMA KnownKept ==
  ASSUME Balance, MarkedKnown, [Next]_vars
  PROVE  MarkedKnown'
<1> DEFINE Old == \A x \in Prompts : fate'[x] = "new" => fate[x] = "new"
<1>1. fate \in [Prompts -> Fates] /\ User \subseteq Prompts
  BY DEF Balance, IInv, TypeOK, Prompts
<1>2. ASSUME NEW p \in Client \cup Wake \cup Goal, NEW asked \in BOOLEAN, Prompt(p, asked)
      PROVE  MarkedKnown'
  BY <1>2, SortFacts, KnownQueueInput DEF Prompt
<1>3. ASSUME NEW p \in Client, InterjectQueued(p)  PROVE MarkedKnown'
  <2>1. Old /\ marked' = marked \cup {p}
    BY <1>3 DEF InterjectQueued, Settle
  <2>2. fate[p] = "pending" /\ p \in User
    BY <1>3, SortFacts DEF InterjectQueued, Ready, Balance, Ledger, PromptsHeld, User
  <2>3. fate'[p] # "new"
    BY <1>1, <2>1, <2>2
  <2> QED BY <1>1, <2>1, <2>2, <2>3 DEF MarkedKnown
<1>4. CASE Flush
  <2>1. stranded # <<>> /\ stranded \in Seq(Prompts)
    BY <1>4 DEF Flush, Balance, IInv, FlushHasText, TypeOK, Seen
  <2>2. PICK i \in Prompts : i = Last(stranded)
    BY <2>1, LastFront
  <2>3. i \in User
    BY <2>1, <2>2, LastContents DEF Seen, Balance, Ledger, TextsHeld, User
  <2>4. fate' = [fate EXCEPT ![i] = "pending"] /\ marked' = marked \cup {i}
    BY <1>4, <2>2 DEF Flush
  <2> QED BY <1>1, <2>3, <2>4 DEF MarkedKnown
<1>5. ASSUME Old, marked' \subseteq marked  PROVE MarkedKnown'
  BY <1>5, KnownStays
<1>6. ASSUME NEW q, QueueEdit(q)  PROVE Old /\ marked' \subseteq marked
  BY <1>6 DEF QueueEdit, Settle
<1>7. ASSUME Command, ~\E p \in Client \cup Wake \cup Goal, asked \in BOOLEAN : Prompt(p, asked),
             ~\E p \in Client : InterjectQueued(p), ~\E q : QueueEdit(q)
      PROVE  Old /\ marked' \subseteq marked
  <2>1. CASE \E i \in Fallback : Interject(i)
    BY <1>1, <2>1 DEF Interject
  <2>2. CASE \E g \in Goal : GoalSummaryTurn(g)
    BY <1>1, <2>2 DEF GoalSummaryTurn
  <2>3. CASE \E n \in Notice, urgent \in BOOLEAN : InjectNotification(n, urgent)
    BY <1>1, <2>3 DEF InjectNotification, Settle
  <2>4. CASE \E w \in Wake : DropMonitorNotifications(w)
    BY <1>1, <2>4 DEF DropMonitorNotifications, Settle
  <2>5. CASE \E kind \in Cancels : Cancel(kind)
    BY <1>1, <2>5 DEF Cancel, Settle
  <2>6. CASE \E closed \in BOOLEAN : Shutdown(closed)
    BY <1>1, <2>6 DEF Shutdown, Settle
  <2> QED BY <1>7, <2>1, <2>2, <2>3, <2>4, <2>5, <2>6 DEF Command, RemoveQueued, Reorder,
          ClearQueue
<1>8. ASSUME RunLoopStep, ~Flush  PROVE Old /\ marked' \subseteq marked
  <2>1. CASE Complete \/ Start \/ DrainStart \/ CancelGate \/ CancelAbort
    BY <2>1 DEF Complete, Start, DrainStart, CancelGate, CancelAbort
  <2>2. CASE CompleteLock
    BY <1>1, <2>2 DEF CompleteLock
  <2>3. CASE TurnEndArm
    BY <1>1, <2>3 DEF TurnEndArm
  <2>4. CASE CancelLock
    BY <2>4 DEF CancelLock, Settle
  <2>5. CASE CancelFinish
    BY <2>5 DEF CancelFinish, Settle
  <2>6. CASE Drain
    BY <2>6 DEF Drain, Settle
  <2> QED BY <1>8, <2>1, <2>2, <2>3, <2>4, <2>5, <2>6 DEF RunLoopStep
<1>9. ASSUME NEW p, TurnStep(p)  PROVE Old /\ marked' \subseteq marked
  <2>1. CASE TurnMerge(p)
    BY <2>1 DEF TurnMerge, Settle
  <2>2. CASE \E w \in Wake : TurnConsume(p, w)
    BY <2>2 DEF TurnConsume, Settle
  <2>3. UNCHANGED <<fate, marked>> => Old /\ marked' \subseteq marked
    OBVIOUS
  <2> QED BY <1>9, <2>1, <2>2, <2>3 DEF TurnStep, TurnBegin, TurnEmit, TurnWait,
          DropGuard, TurnGoal, TurnEnd, Reap
<1>10. ASSUME NEW r \in Plan, PlanQueue(r)  PROVE MarkedKnown'
  BY <1>10, SortFacts, KnownQueueInput DEF PlanQueue
<1>11. ASSUME McpReady \/ PlanStart \/ UNCHANGED vars  PROVE Old /\ marked' \subseteq marked
  BY <1>11 DEF McpReady, PlanStart, vars
<1> HIDE DEF Old
<1> QED BY <1>2, <1>3, <1>4, <1>5, <1>6, <1>7, <1>8, <1>9, <1>10, <1>11 DEF Next, Starter

(* queue_input and its siblings mark nothing but the user's accepted rows. *)
THEOREM MarksKnown == Spec => []MarkedKnown
<1>1. Init => MarkedKnown
  BY DEF Init, MarkedKnown
<1>2. Balance /\ MarkedKnown /\ [Next]_vars => MarkedKnown'
  BY KnownKept
<1> QED BY <1>1, <1>2, BalanceKept, PTL DEF Spec

(* Nothing gets ahead of a send-now row or a flushed interjection, unless  *)
(* a client reorders: queue_input, handle_interject_queued_prompt and      *)
(* queue_interjection_fallback_prompt stack, all other edits keep order.   *)
THEOREM SentNowRunsFirst == Spec => SendNowFirst
<1> DEFINE Kept == \A p \in Prompts :
             Overtaking(p)' \subseteq Overtaking(p) \/ \E order \in Orders : Reorder(order)
<1>1. Balance /\ MarkedKnown /\ [Next]_vars => [Kept]_vars
  <2> SUFFICES ASSUME Orderly, NEW p \in Prompts, NEW q \in Overtaking(p)'
               PROVE  q \in Overtaking(p)
    BY NextOrder
  <2>1. /\ q \in Prompts /\ q \notin marked' /\ q # running' /\ p \in marked'
        /\ Before(queue', q, p)
    BY DEF Overtaking
  <2>2. q \in ToSet(queue')
    BY <2>1, BeforeContents
  <2>3. q # running
    BY <2>1, <2>2, SortFacts DEF Orderly
  <2>4. q \notin marked
    BY <2>1, <2>2 DEF Orderly
  <2>5. Before(queue, q, p) /\ p \in marked
    BY <2>1, <2>3 DEF Orderly
  <2> QED BY <2>1, <2>3, <2>4, <2>5 DEF Overtaking
<1> QED BY <1>1, BalanceKept, MarksKnown, PTL DEF Spec, SendNowFirst

(* Without reorders no queued auto-wake prompt is ahead of a user prompt:  *)
(* queue_input sweeps it when the user's prompt comes.                     *)
THEOREM UsersFirst == Spec /\ Orders = {} => []UserFirst
<1> SUFFICES ASSUME Orders = {}  PROVE Spec => []UserFirst
  OBVIOUS
<1>1. Init => UserFirst
  BY EmptyContents, BeforeContents DEF Init, UserFirst
<1>2. Balance /\ MarkedKnown /\ MarkedKnown' /\ UserFirst /\ [Next]_vars => UserFirst'
  <2> SUFFICES ASSUME Orderly, MarkedKnown', UserFirst,
                      NEW w \in Wake \ {running'}, NEW u \in User, Before(queue', w, u)
               PROVE  FALSE
    BY NextOrder DEF UserFirst
  <2>1. w \in Prompts /\ u \in Prompts /\ w \notin User /\ w # NoPrompt
    BY SortFacts, UserIsNotMade DEF User
  <2>2. w \in ToSet(queue')
    BY BeforeContents
  <2>3. w # running
    BY <2>1, <2>2 DEF Orderly
  <2>4. ~Before(queue, w, u)
    BY <2>3 DEF UserFirst
  <2> QED BY <2>1, <2>3, <2>4 DEF Orderly, MarkedKnown
<1> QED BY <1>1, <1>2, BalanceKept, MarksKnown, PTL DEF Spec
=============================================================================
