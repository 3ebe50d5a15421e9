--------------------------- MODULE SessionAttach ---------------------------
(***************************************************************************)
(* How a client attaches to a session that is already running behind a     *)
(* leader: the session thread emits events, the agent replays the log to   *)
(* the client that loads, and the leader routes both.                      *)
(*                                                                         *)
(* Every event is persisted and, if the session's gate is open, forwarded  *)
(* to all its subscribers.  load_session closes the gate, flushes the log, *)
(* replays it to the loading client alone, flushes and replays what was    *)
(* added meanwhile, opens the gate and answers.  Until the answer the      *)
(* leader buffers what is live for that client.  Sessions run on threads   *)
(* of their own, loads as tasks of the agent's thread, the leader as one   *)
(* loop; a step below is what one of them does between two points where    *)
(* another can act.                                                        *)
(*                                                                         *)
(* Covered is one resident session; a connection loads it once, without a  *)
(* cursor.  Events are numbered as they are emitted.  The message channel  *)
(* of the agent and the leader's inbox are one queue, because only the     *)
(* order of messages can be observed; the answer to a load travels beside  *)
(* it, behind the replay it waits for.  Drivers, child sessions, the relay *)
(* and tool calls (a replay folds the pending ones into their completion)  *)
(* are left out, and so is the time between the end of a connection and    *)
(* the leader's notice of it.                                              *)
(*                                                                         *)
(* NewerStrictly, ResolveUncached, AnswerForgetful, CloseOnce and          *)
(* FlushOrLeave are faulty variants of the definitions that follow them;   *)
(* nothing uses them.                                                      *)
(***************************************************************************)
EXTENDS Subsequences, Integers, SequencesExt

CONSTANTS
  Client,       \* connections to the leader
  Attached,     \* those that are attached at first: the creator of the session
  Leaver,       \* bound: the clients that may disconnect
  Unlucky,      \* bound: the clients whose flushes may time out and loads fail
  Interaction,  \* permission requests, questions, plan approvals
  MaxEvents,    \* bound on the events emitted
  Cap           \* MAX_BUFFERED_LIVE_PER_LOAD (4096)

ASSUME AttachedAssumption == Attached \subseteq Client
ASSUME CapAssumption      == Cap \in Nat \ {0} /\ MaxEvents \in Nat

VARIABLES
  emitted,      \* events handed to the persistence actor
  emitting,     \* whether the last of them has not been through the gate yet
  written,      \* events known to be in updates.jsonl
  gate,         \* gateway_enabled of the session
  asked,        \* the interactions the agent waits for, or has waited for
  load,         \* where the load of each client is
  offset,       \* events its replay has read from the log
  gateway,      \* messages on their way from the agent to the leader
  conn,         \* connections as the leader knows them
  subscribers,  \* session_subscribers
  pending,      \* pending_load_by_req, and the keys of load_live_buffer
  buffer,       \* load_live_buffer
  cutoff,       \* load_replay_max_seq
  modals,       \* interaction_requests
  view,         \* what each client has been sent since it attached
  shut,         \* history: events the gate kept back
  late,         \* history: events let through after a load had read them
  promised,     \* history: events on disk when a load last flushed or read it
  degraded,     \* history: loads whose second flush timed out
  failed,       \* history: loads that failed with the gate closed
  spilled       \* history: clients whose buffer overflowed

sessionVars == <<emitted, emitting, asked>>
loadVars    == <<load, offset, promised, degraded, failed>>
leaderVars  == <<conn, subscribers, pending, buffer, cutoff, modals, view, spilled>>
gateHistory == <<shut, late>>
vars == <<sessionVars, written, gate, loadVars, gateway, leaderVars, gateHistory>>

NoCutoff == -1
Event    == 0..(MaxEvents - 1)

Live(e)      == [kind |-> "live", seq |-> e]
Replay(c, e) == [kind |-> "replay", to |-> c, seq |-> e]
Ask(i)       == [kind |-> "ask", id |-> i]
Resolved(i)  == [kind |-> "resolved", id |-> i]
Broadcast    == {Live(e) : e \in Event} \cup {Ask(i) : i \in Interaction}
                  \cup {Resolved(i) : i \in Interaction}
Message      == Broadcast \cup {Replay(c, e) : c \in Client, e \in Event}

(* Stages of load_session.  From "flush" to "open" the load keeps the gate  *)
(* closed, or believes so.                                                  *)
Shutting == {"flush", "read", "drain", "delta", "open"}
Stages   == {"none", "asked"} \cup Shutting \cup {"answer", "done"}

TypeOK ==
  /\ emitted \in 0..MaxEvents /\ written \in 0..emitted
  /\ emitting \in BOOLEAN /\ gate \in BOOLEAN
  /\ asked \in [Interaction -> {"none", "open", "closed"}]
  /\ load \in [Client -> Stages]
  /\ offset \in [Client -> 0..MaxEvents] /\ promised \in [Client -> 0..MaxEvents]
  /\ gateway \in Seq(Message)
  /\ conn \in [Client -> {"away", "here", "gone"}]
  /\ subscribers \subseteq Client /\ pending \subseteq Client
  /\ buffer \in [Client -> Seq(Broadcast)]
  /\ cutoff \in [Client -> Event \cup {NoCutoff}]
  /\ modals \subseteq Interaction
  /\ view \in [Client -> [got : Seq(Event), open : SUBSET Interaction]]
  /\ shut \subseteq Event /\ late \subseteq Event
  /\ degraded \subseteq Client /\ failed \subseteq Client /\ spilled \subseteq Client

Blank == [got |-> <<>>, open |-> {}]

Init ==
  /\ emitted = 0 /\ emitting = FALSE /\ written = 0 /\ gate = TRUE
  /\ asked = [i \in Interaction |-> "none"]
  /\ load = [c \in Client |-> IF c \in Attached THEN "done" ELSE "none"]
  /\ offset = [c \in Client |-> 0] /\ promised = [c \in Client |-> 0]
  /\ gateway = <<>>
  /\ conn = [c \in Client |-> IF c \in Attached THEN "here" ELSE "away"]
  /\ subscribers = Attached /\ pending = {}
  /\ buffer = [c \in Client |-> <<>>] /\ cutoff = [c \in Client |-> NoCutoff]
  /\ modals = {} /\ view = [c \in Client |-> Blank]
  /\ shut = {} /\ late = {} /\ degraded = {} /\ failed = {} /\ spilled = {}

-----------------------------------------------------------------------------
(* The session thread.                                                      *)

(* emit_notification_direct: an event is persisted first ...                *)
Persist ==
  /\ emitted < MaxEvents /\ ~emitting
  /\ emitted' = emitted + 1 /\ emitting' = TRUE
  /\ UNCHANGED <<asked, written, gate, loadVars, gateway, leaderVars, gateHistory>>

(* ... and forwarded if the gate is open.                                    *)
Forward ==
  LET e == emitted - 1 IN
  /\ emitting /\ emitting' = FALSE
  /\ IF gate
       THEN /\ gateway' = Append(gateway, Live(e))
            /\ late' = IF \E c \in Client : e < offset[c] THEN late \cup {e} ELSE late
            /\ UNCHANGED shut
       ELSE shut' = shut \cup {e} /\ UNCHANGED <<gateway, late>>
  /\ UNCHANGED <<emitted, asked, written, gate, loadVars, leaderVars>>

(* Interactions are requests and do not pass the gate; the drop of their     *)
(* guard announces that they are resolved.                                   *)
Interact(i) ==
  /\ \/ /\ asked[i] = "none" /\ asked' = [asked EXCEPT ![i] = "open"]
        /\ gateway' = Append(gateway, Ask(i))
     \/ /\ asked[i] = "open" /\ asked' = [asked EXCEPT ![i] = "closed"]
        /\ gateway' = Append(gateway, Resolved(i))
  /\ UNCHANGED <<emitted, emitting, written, gate, loadVars, leaderVars, gateHistory>>

-----------------------------------------------------------------------------
(* load_session for client c, a task of the agent's thread.                 *)

Go(c, stage) == load' = [load EXCEPT ![c] = stage]
Drained(c)   == \A k \in DOMAIN gateway :
                  ~(gateway[k].kind = "replay" /\ gateway[k].to = c)

(* The load reads the log and replays it.  The persistence actor writes in   *)
(* its own time, so the log has come anywhere between what was last known    *)
(* to be in it and what was handed to the actor.                             *)
ReplayTo(c) ==
  /\ written' \in written..emitted
  /\ gateway' = gateway \o [k \in 1..(written' - offset[c]) |-> Replay(c, offset[c] + k - 1)]
  /\ offset'  = [offset EXCEPT ![c] = written']

(* The gate is closed whoever else loads already.                           *)
CloseOnce(c) ==
  /\ gate /\ load[c] = "asked" /\ Go(c, "flush") /\ gate' = FALSE
  /\ UNCHANGED <<sessionVars, written, offset, promised, degraded, failed,
                 gateway, leaderVars, gateHistory>>
CloseGate(c) ==
  /\ load[c] = "asked" /\ Go(c, "flush") /\ gate' = FALSE
  /\ UNCHANGED <<sessionVars, written, offset, promised, degraded, failed,
                 gateway, leaderVars, gateHistory>>

(* flush_session: the session thread gets to it between two events and has   *)
(* what it emitted put on disk, or 5 s pass; the load goes on either way.    *)
Flushed(c) == /\ ~emitting /\ written' = emitted
              /\ promised' = [promised EXCEPT ![c] = emitted]

FlushLog(c) ==
  /\ load[c] = "flush" /\ Go(c, "read")
  /\ \/ Flushed(c)
     \/ c \in Unlucky /\ UNCHANGED <<written, promised>>
  /\ UNCHANGED <<sessionVars, gate, offset, degraded, failed, gateway, leaderVars, gateHistory>>

(* build_summary_client or load_light returns an error: so does the load,    *)
(* and leaves the gate as it is.                                             *)
FailLoad(c) ==
  /\ c \in Unlucky /\ load[c] = "read" /\ Go(c, "answer") /\ failed' = failed \cup {c}
  /\ UNCHANGED <<sessionVars, written, gate, offset, promised, degraded,
                 gateway, leaderVars, gateHistory>>

(* replay_session_updates: the whole log, as it is now.                      *)
Snapshot(c) ==
  /\ load[c] = "read" /\ Go(c, "drain") /\ ReplayTo(c)
  /\ UNCHANGED <<sessionVars, gate, promised, degraded, failed, leaderVars, gateHistory>>

(* The second flush starts when the replay has been taken; without its       *)
(* answer the delta is skipped.                                              *)
FlushOrLeave(c) ==
  /\ load[c] = "drain" /\ Drained(c)
  /\ \/ Go(c, "delta") /\ Flushed(c) /\ UNCHANGED degraded
     \/ /\ c \in Unlucky /\ Go(c, "answer") /\ degraded' = degraded \cup {c}
        /\ UNCHANGED <<written, promised>>
  /\ UNCHANGED <<sessionVars, gate, offset, failed, gateway, leaderVars, gateHistory>>
FlushAgain(c) ==
  /\ load[c] = "drain" /\ Drained(c)
  /\ \/ Go(c, "delta") /\ Flushed(c) /\ UNCHANGED degraded
     \/ /\ c \in Unlucky /\ Go(c, "open") /\ degraded' = degraded \cup {c}
        /\ UNCHANGED <<written, promised>>
  /\ UNCHANGED <<sessionVars, gate, offset, failed, gateway, leaderVars, gateHistory>>

(* replay_session_updates_from_offset_enqueue.                               *)
Delta(c) ==
  /\ load[c] = "delta" /\ Go(c, "open") /\ ReplayTo(c)
  /\ UNCHANGED <<sessionVars, gate, promised, degraded, failed, leaderVars, gateHistory>>

(* The gate is opened whoever else still loads.                              *)
OpenGate(c) ==
  /\ load[c] = "open" /\ Go(c, "answer") /\ gate' = TRUE
  /\ UNCHANGED <<sessionVars, written, offset, promised, degraded, failed,
                 gateway, leaderVars, gateHistory>>

LoadStep(c) ==
  \/ CloseGate(c) \/ FlushLog(c) \/ FailLoad(c) \/ Snapshot(c)
  \/ FlushAgain(c) \/ Delta(c) \/ OpenGate(c)

-----------------------------------------------------------------------------
(* The leader.                                                              *)

agentVars == <<sessionVars, written, gate, offset, promised, degraded, failed, gateHistory>>

(* The interactions known to be open, once m is known as well.              *)
Marked(open, m) ==
  CASE m.kind = "ask"      -> open \cup {m.id}
    [] m.kind = "resolved" -> open \ {m.id}
    [] OTHER               -> open

(* What a client has been sent once m is sent to it as well.                *)
Shown(v, m) ==
  IF m.kind \in {"live", "replay"} THEN [v EXCEPT !.got = Append(@, m.seq)]
                                   ELSE [v EXCEPT !.open = Marked(@, m)]

(* A session/load passes the leader: its client is subscribed and its live   *)
(* messages are held from here on.                                           *)
Request(c) ==
  /\ conn[c] = "away" /\ conn' = [conn EXCEPT ![c] = "here"]
  /\ subscribers' = subscribers \cup {c} /\ pending' = pending \cup {c}
  /\ Go(c, "asked")
  /\ UNCHANGED <<agentVars, gateway, buffer, cutoff, modals, view, spilled>>

(* A replayed event goes to the client it names, or nowhere.                 *)
Unicast(m) ==
  /\ IF conn[m.to] = "here"
       THEN /\ view'   = [view EXCEPT ![m.to] = Shown(@, m)]
            /\ cutoff' = [cutoff EXCEPT ![m.to] = Max({@, m.seq})]
       ELSE UNCHANGED <<view, cutoff>>
  /\ UNCHANGED <<buffer, modals, spilled>>

(* interaction_requests: what a later client has to be shown.                *)
ResolveUncached(m) == IF m.kind = "ask" THEN modals \cup {m.id} ELSE modals
Cached(m) == Marked(modals, m)

(* Anything else goes to every subscriber, one that loads gets it into its   *)
(* buffer while there is room and ahead of the buffer when there is not.     *)
Fanout(m) ==
  LET held == {c \in pending : Len(buffer[c]) < Cap}
  IN  /\ buffer'  = [c \in Client |-> IF c \in held THEN Append(buffer[c], m) ELSE buffer[c]]
      /\ view'    = [c \in Client |-> IF c \in subscribers \ held THEN Shown(view[c], m)
                                      ELSE view[c]]
      /\ spilled' = spilled \cup (pending \ held)
      /\ modals'  = Cached(m)
      /\ UNCHANGED cutoff

Route ==
  /\ gateway # <<>> /\ gateway' = Tail(gateway)
  /\ IF Head(gateway).kind = "replay" THEN Unicast(Head(gateway)) ELSE Fanout(Head(gateway))
  /\ UNCHANGED <<agentVars, load, conn, subscribers, pending>>

(* Of the events in the buffer, those the replay has already delivered are   *)
(* dropped.                                                                 *)
NewerStrictly(c) ==
  Keep(buffer[c], {Live(e) : e \in {d \in Event : cutoff[c] = NoCutoff \/ d >= cutoff[c]}})
Newer(c) ==
  Keep(buffer[c], {Live(e) : e \in {d \in Event : d > cutoff[c]}})

(* What the messages ms, sent in their order, leave open: an interaction     *)
(* they last asked, or do not speak of.                                      *)
About(ms, i) == {k \in DOMAIN ms : ms[k] \in {Ask(i), Resolved(i)}}
LeftOpen(open, ms) ==
  {i \in Interaction :
     \/ i \in open /\ About(ms, i) = {}
     \/ \E k \in About(ms, i) : ms[k] = Ask(i) /\ \A j \in About(ms, i) : j <= k}

(* The answer to the load passes the leader: the buffer is flushed, and the  *)
(* interactions still open are shown.                                        *)
AnswerForgetful(c) ==
  /\ load[c] = "answer" /\ Drained(c) /\ Go(c, "done")
  /\ view' = IF conn[c] = "here" THEN [view EXCEPT ![c].open = @ \cup modals] ELSE view
  /\ pending' = pending \ {c}
  /\ buffer' = [buffer EXCEPT ![c] = <<>>] /\ cutoff' = [cutoff EXCEPT ![c] = NoCutoff]
  /\ UNCHANGED <<agentVars, gateway, conn, subscribers, modals, spilled>>
Answer(c) ==
  LET events == [k \in DOMAIN Newer(c) |-> Newer(c)[k].seq]
  IN  /\ load[c] = "answer" /\ Drained(c) /\ Go(c, "done")
      /\ view' = IF conn[c] = "here"
                   THEN [view EXCEPT ![c] =
                           [got  |-> @.got \o events,
                            open |-> LeftOpen(@.open, buffer[c]) \cup modals]]
                   ELSE view
      /\ pending' = pending \ {c}
      /\ buffer' = [buffer EXCEPT ![c] = <<>>] /\ cutoff' = [cutoff EXCEPT ![c] = NoCutoff]
      /\ UNCHANGED <<agentVars, gateway, conn, subscribers, modals, spilled>>

(* A connection ends: all the leader kept for it goes; the load does not     *)
(* hear of it.                                                               *)
Disconnect(c) ==
  /\ c \in Leaver /\ conn[c] = "here" /\ conn' = [conn EXCEPT ![c] = "gone"]
  /\ subscribers' = subscribers \ {c} /\ pending' = pending \ {c}
  /\ buffer' = [buffer EXCEPT ![c] = <<>>] /\ cutoff' = [cutoff EXCEPT ![c] = NoCutoff]
  /\ view' = [view EXCEPT ![c] = Blank] /\ spilled' = spilled \ {c}
  /\ UNCHANGED <<agentVars, load, gateway, modals>>

Progress == Forward \/ Route \/ \E c \in Client : LoadStep(c) \/ Answer(c)

Next ==
  \/ Progress \/ Persist
  \/ \E i \in Interaction : Interact(i)
  \/ \E c \in Client : Request(c) \/ Disconnect(c)

Spec == Init /\ [][Next]_vars

(* The threads and tasks run on, and the timeout of a flush bounds its wait; *)
(* nothing makes a client come or go, or the session say something.          *)
FairSpec == Spec /\ WF_vars(Progress)

-----------------------------------------------------------------------------
Listening(c) == conn[c] = "here" /\ load[c] = "done"
Settled      == gateway = <<>> /\ ~emitting
Got(c)       == {view[c].got[k] : k \in DOMAIN view[c].got}

(* Once nothing is on its way, a client whose load was answered has been    *)
(* sent every event, except those the gate kept back after its last flush   *)
(* (all of them, for one that was attached at first): whatever the moment   *)
(* at which it came, in the middle of other loads or of a turn.  Exempt are *)
(* loads that failed or had no second flush.                                *)
EventsReach ==
  \A c \in Client \ (failed \cup degraded) : Listening(c) /\ Settled =>
    \A e \in 0..(emitted - 1) : e \in Got(c) \/ (e \in shut /\ e >= promised[c])

(* A client is sent events in the order they were emitted and each once,    *)
(* although log, buffer and stream overlap.  Exempt are a client whose      *)
(* buffer overflowed, and a second copy of an event whose thread went       *)
(* through the gate after a load had already read the event from the log.   *)
InOrder ==
  \A c \in Client \ spilled : \A k \in 2..Len(view[c].got) : \A j \in 1..(k - 1) :
    view[c].got[j] < view[c].got[k] \/ view[c].got[k] \in late

(* Once nothing is on its way, the interactions a client shows are the ones *)
(* the agent waits for, whether it was asked, resolved or both before,      *)
(* while or after the client loaded.                                        *)
ModalsAgree ==
  \A c \in Client \ spilled : Listening(c) /\ Settled =>
    view[c].open = {i \in Interaction : asked[i] = "open"}

(* A closed gate has a load that will open it, unless a load has failed.    *)
GateOwned == gate \/ failed # {} \/ \E c \in Client : load[c] \in Shutting

(* However loads overlap, fail or lose their client, the time comes when    *)
(* every session/load that was begun has been answered.                     *)
AttachLands == []<>(\A c \in Client : load[c] \in {"none", "done"})

(* "The second client's session/load must not black out the first": a       *)
(* client that has long been attached is sent every event.                  *)
JoinNotSteal ==
  \A c \in Attached : Listening(c) /\ Settled => \A e \in 0..(emitted - 1) : e \in Got(c)
=============================================================================
