------------------------ MODULE SessionAttachProofs ------------------------
(***************************************************************************)
(* Proofs about SessionAttach, for any clients, interactions, number of    *)
(* events and size of the buffers, in four layers, each of which rests on  *)
(* the one before it:                                                      *)
(*                                                                         *)
(*   GInv   the gate: one flag serves all the loads, and any of them may   *)
(*          open it or leave it closed.  One that has not asked has no     *)
(*          load, so that asking never takes another out of its stage.     *)
(*   MInv   the interactions: what the messages on their way say agrees    *)
(*          with the agent, what the leader knows with both, and what a    *)
(*          client shows, or will once its buffer is sent, with that.      *)
(*   OInv   the order: live events ascend in a buffer and from the buffer  *)
(*          to the queue, replays from the client to the queue, and a live *)
(*          event a load has read has a replay behind it.                  *)
(*   RInv   the reach: what a load has read is with its client or on its   *)
(*          way, what the gate let through since its last flush is one of  *)
(*          these or held in the buffer.                                   *)
(***************************************************************************)
EXTENDS SessionAttach, SubsequenceFacts

Connection == {"away", "here", "gone"}

(* A client that has not come has no load.                                  *)
NoneEarly == \A c \in Client : conn[c] = "away" => load[c] = "none"

GInv == /\ load \in [Client -> Stages] /\ conn \in [Client -> Connection]
        /\ NoneEarly /\ GateOwned

-----------------------------------------------------------------------------
LEMMA GateAtFirst == Init => GInv
BY AttachedAssumption DEF Init, GInv, Connection, Stages, Shutting, NoneEarly, GateOwned

(* A load that goes on from a stage in which it owns the gate to another.   *)
LEMMA GateHeldOn ==
  ASSUME GInv, NEW c \in Client, NEW s \in Shutting, load[c] # "none", Go(c, s),
         gate' \in {gate, FALSE}, failed' = failed, conn' = conn
  PROVE  GInv'
BY DEF GInv, Go, Stages, Shutting, NoneEarly, GateOwned, Connection

LEMMA GateStep == ASSUME GInv, NEW c \in Client, LoadStep(c) PROVE GInv'
<1>1. CASE CloseGate(c)
  BY <1>1, GateHeldOn DEF CloseGate, Shutting, leaderVars
<1>2. CASE FlushLog(c)
  BY <1>2, GateHeldOn DEF FlushLog, Shutting, leaderVars
<1>3. CASE FailLoad(c)
  BY <1>3 DEF FailLoad, Go, GInv, Stages, Shutting, NoneEarly, GateOwned, leaderVars
<1>4. CASE Snapshot(c)
  BY <1>4, GateHeldOn DEF Snapshot, Shutting, leaderVars
<1>5. CASE FlushAgain(c)
  <2>1. conn' = conn /\ gate' = gate /\ failed' = failed /\ load[c] = "drain"
    BY <1>5 DEF FlushAgain, leaderVars
  <2>2. Go(c, "delta") \/ Go(c, "open")
    BY <1>5 DEF FlushAgain
  <2> QED  BY <2>1, <2>2, GateHeldOn DEF Shutting
<1>6. CASE Delta(c)
  BY <1>6, GateHeldOn DEF Delta, Shutting, leaderVars
<1>7. CASE OpenGate(c)
  BY <1>7 DEF OpenGate, Go, GInv, Stages, Shutting, NoneEarly, GateOwned, leaderVars
<1> QED  BY <1>1, <1>2, <1>3, <1>4, <1>5, <1>6, <1>7 DEF LoadStep

(* A load begins that had not, or ends that no longer owned the gate.       *)
LEMMA GateRequest == ASSUME GInv, NEW c \in Client, Request(c) PROVE GInv'
<1>1. load[c] = "none" /\ load' = [load EXCEPT ![c] = "asked"]
  BY DEF Request, GInv, NoneEarly, Go
<1>2. gate' = gate /\ failed' = failed /\ conn' = [conn EXCEPT ![c] = "here"]
  BY DEF Request, agentVars
<1> QED  BY <1>1, <1>2 DEF GInv, Connection, Stages, Shutting, NoneEarly, GateOwned

LEMMA GateAnswer == ASSUME GInv, NEW c \in Client, Answer(c) PROVE GInv'
<1>1. load[c] = "answer" /\ load' = [load EXCEPT ![c] = "done"]
  BY DEF Answer, Go
<1>2. gate' = gate /\ failed' = failed /\ conn' = conn
  BY DEF Answer, agentVars
<1> QED  BY <1>1, <1>2 DEF GInv, Connection, Stages, Shutting, NoneEarly, GateOwned

(* The rest leaves stages and gate alone.                                   *)
LEMMA GateKept ==
  ASSUME GInv, UNCHANGED <<load, gate, failed, conn>>
  PROVE  GInv'
BY DEF GInv, NoneEarly, GateOwned

LEMMA GateDisconnect == ASSUME GInv, NEW c \in Client, Disconnect(c) PROVE GInv'
<1>1. load' = load /\ gate' = gate /\ failed' = failed /\ conn' = [conn EXCEPT ![c] = "gone"]
  BY DEF Disconnect, agentVars
<1> QED  BY <1>1 DEF GInv, Connection, NoneEarly, GateOwned

LEMMA GateNext == GInv /\ [Next]_vars => GInv'
<1>1. SUFFICES ASSUME GInv, [Next]_vars PROVE GInv'
  OBVIOUS
<1>2. CASE UNCHANGED vars
  BY <1>1, <1>2, GateKept DEF vars, loadVars, leaderVars
<1>3. CASE Persist \/ Forward
  BY <1>1, <1>3, GateKept DEF Persist, Forward, loadVars, leaderVars
<1>4. CASE \E i \in Interaction : Interact(i)
  BY <1>1, <1>4, GateKept DEF Interact, loadVars, leaderVars
<1>5. CASE Route
  BY <1>1, <1>5, GateKept DEF Route, agentVars
<1>6. CASE \E c \in Client : LoadStep(c) \/ Answer(c)
  BY <1>1, <1>6, GateStep, GateAnswer
<1>7. CASE \E c \in Client : Request(c) \/ Disconnect(c)
  BY <1>1, <1>7, GateRequest, GateDisconnect
<1> QED  BY <1>1, <1>2, <1>3, <1>4, <1>5, <1>6, <1>7 DEF Next, Progress

(* However many loads overlap, and whoever of their clients leaves: while   *)
(* the session's events are kept from its clients, some load will let them  *)
(* through again, unless one failed with the gate closed.                   *)
THEOREM GateComesBack == Spec => []GateOwned
<1>1. GInv => GateOwned
  BY DEF GInv
<1> QED  BY <1>1, GateAtFirst, GateNext, PTL DEF Spec

-----------------------------------------------------------------------------
(* What the leader knows to be open, and what it holds for whom.            *)

IsView(v) == v = [got |-> v.got, open |-> v.open]

AttachTypes ==
  /\ emitted \in 0..MaxEvents /\ written \in 0..emitted
  /\ emitting \in BOOLEAN /\ (emitting => emitted > 0)
  /\ offset \in [Client -> 0..MaxEvents] /\ \A c \in Client : offset[c] <= written
  /\ asked \in [Interaction -> {"none", "open", "closed"}]
  /\ gateway \in Seq(Message) /\ buffer \in [Client -> Seq(Broadcast)]
  /\ modals \subseteq Interaction
  /\ view = [c \in Client |-> view[c]] /\ \A c \in Client : IsView(view[c])
  /\ pending \subseteq subscribers /\ subscribers = {c \in Client : conn[c] = "here"}

Coming(i, m) == \E k \in About(gateway, i) : gateway[k] = m

(* Messages still on their way tell what the agent did, in that order and   *)
(* each once ...                                                            *)
WordsTrue ==
  \A i \in Interaction :
    /\ Coming(i, Ask(i)) => asked[i] # "none"
    /\ Coming(i, Resolved(i)) => asked[i] = "closed"
    /\ Coming(i, Ask(i)) /\ asked[i] = "closed" => Coming(i, Resolved(i))
    /\ \A j, k \in About(gateway, i) :
         j < k => gateway[j] = Ask(i) /\ gateway[k] = Resolved(i)

(* ... and the leader knows what they no longer have to tell.               *)
CacheTrue ==
  \A i \in Interaction :
    i \in modals <=> /\ asked[i] # "none" /\ ~Coming(i, Ask(i))
                     /\ asked[i] = "open" \/ Coming(i, Resolved(i))

(* A client shows what the leader knows; one that loads would show no more. *)
ViewsTrue ==
  \A c \in Client :
    /\ conn[c] = "away" => view[c] = Blank /\ buffer[c] = <<>>
    /\ conn[c] = "here" => (c \in pending <=> load[c] # "done")
    /\ c \in subscribers \ spilled =>
         IF c \in pending THEN LeftOpen(view[c].open, buffer[c]) \subseteq modals
                          ELSE view[c].open = modals

MInv == GInv /\ AttachTypes /\ WordsTrue /\ CacheTrue /\ ViewsTrue

-----------------------------------------------------------------------------
(* Messages about an interaction, and what a list of them leaves open.      *)

Word(i) == {Ask(i), Resolved(i)}

LEMMA Words ==
  ASSUME NEW i \in Interaction, NEW j \in Interaction
  PROVE  /\ Ask(i) # Resolved(j)
         /\ Ask(i) = Ask(j) => i = j
         /\ Resolved(i) = Resolved(j) => i = j
         /\ Ask(i).kind = "ask" /\ Resolved(i).kind = "resolved"
         /\ Ask(i).id = i /\ Resolved(i).id = i
BY DEF Ask, Resolved

LEMMA Kinds ==
  ASSUME NEW m \in Message
  PROVE  /\ m.kind = "ask"      <=> \E i \in Interaction : m = Ask(i)
         /\ m.kind = "resolved" <=> \E i \in Interaction : m = Resolved(i)
         /\ m \in Broadcast <=> m.kind # "replay"
         /\ m.kind \in {"ask", "resolved", "live", "replay"}
BY DEF Message, Broadcast, Ask, Resolved, Live, Replay

LEMMA OtherWords ==
  ASSUME NEW m \in Message, m.kind \in {"live", "replay"}, NEW i \in Interaction
  PROVE  m \notin Word(i)
BY DEF Word, Ask, Resolved

(* One more message.                                                        *)
LEMMA AboutMore ==
  ASSUME NEW S, NEW ms \in Seq(S), NEW m \in S, NEW i \in Interaction
  PROVE  /\ About(ms, i) \subseteq 1..Len(ms)
         /\ \A k \in About(ms, i) : Append(ms, m)[k] = ms[k]
         /\ Append(ms, m)[Len(ms) + 1] = m
         /\ About(Append(ms, m), i)
              = About(ms, i) \cup (IF m \in Word(i) THEN {Len(ms) + 1} ELSE {})
<1>1. DOMAIN ms = 1..Len(ms) /\ DOMAIN Append(ms, m) = 1..(Len(ms) + 1) /\ Len(ms) \in Nat
  OBVIOUS
<1>2. \A k \in 1..Len(ms) : Append(ms, m)[k] = ms[k]
  OBVIOUS
<1>3. Append(ms, m)[Len(ms) + 1] = m
  OBVIOUS
<1> QED  BY <1>1, <1>2, <1>3 DEF About, Word

LEMMA NothingLeft == \A open : LeftOpen(open, <<>>) = open \cap Interaction
BY DEF LeftOpen, About

LEMMA LeftMore ==
  ASSUME NEW open \in SUBSET Interaction, NEW ms \in Seq(Broadcast), NEW m \in Broadcast
  PROVE  LeftOpen(open, Append(ms, m)) = Marked(LeftOpen(open, ms), m)
<1> DEFINE more == Append(ms, m)
<1>0. m \in Message
  BY DEF Message
<1>1. LeftOpen(open, ms) \subseteq Interaction /\ LeftOpen(open, more) \subseteq Interaction
  BY DEF LeftOpen
<1>2. Marked(LeftOpen(open, ms), m) \subseteq Interaction
  BY <1>0, <1>1, Kinds, Words DEF Marked
<1>3. ASSUME NEW i \in Interaction
      PROVE  i \in LeftOpen(open, more) <=> i \in Marked(LeftOpen(open, ms), m)
  <2> DEFINE A == About(ms, i)
             n == Len(ms) + 1
  <2>1. /\ A \subseteq 1..Len(ms) /\ Len(ms) \in Nat
        /\ \A k \in A : more[k] = ms[k]
        /\ more[n] = m
        /\ About(more, i) = A \cup (IF m \in Word(i) THEN {n} ELSE {})
    BY AboutMore
  <2>2. /\ i \in LeftOpen(open, more) <=>
              \/ i \in open /\ About(more, i) = {}
              \/ \E k \in About(more, i) : more[k] = Ask(i) /\ \A j \in About(more, i) : j <= k
        /\ i \in LeftOpen(open, ms) <=>
              \/ i \in open /\ A = {}
              \/ \E k \in A : ms[k] = Ask(i) /\ \A j \in A : j <= k
    BY DEF LeftOpen
  <2>3. CASE m = Ask(i)
    <3>1. n \in About(more, i) /\ \A j \in About(more, i) : j <= n
      BY <2>1, <2>3 DEF Word
    <3>2. i \in LeftOpen(open, more)
      BY <3>1, <2>1, <2>2, <2>3
    <3> QED  BY <3>2, <2>3, Words DEF Marked
  <2>4. CASE m = Resolved(i)
    <3>1. n \in About(more, i) /\ \A j \in A : j < n
      BY <2>1, <2>4 DEF Word
    <3>2. \A k \in About(more, i) : (\A j \in About(more, i) : j <= k) => k = n
      BY <3>1, <2>1
    <3>3. i \notin LeftOpen(open, more)
      BY <3>1, <3>2, <2>1, <2>2, <2>4, Words
    <3> QED  BY <3>3, <2>4, Words DEF Marked
  <2>5. CASE m \notin Word(i)
    <3>1. About(more, i) = A
      BY <2>1, <2>5
    <3>2. i \in LeftOpen(open, more) <=> i \in LeftOpen(open, ms)
      BY <3>1, <2>1, <2>2
    <3>3. i \in Marked(LeftOpen(open, ms), m) <=> i \in LeftOpen(open, ms)
      BY <1>0, <2>5, Kinds, Words DEF Marked, Word
    <3> QED  BY <3>2, <3>3
  <2> QED  BY <2>3, <2>4, <2>5 DEF Word
<1> QED  BY <1>1, <1>2, <1>3

-----------------------------------------------------------------------------
(* What the session and its loads say of no interaction changes nothing.    *)

SameWords ==
  \A i \in Interaction :
    /\ About(gateway', i) = About(gateway, i)
    /\ \A k \in About(gateway, i) : gateway'[k] = gateway[k]

LEMMA WordsQuiet ==
  ASSUME WordsTrue, CacheTrue, SameWords, asked' = asked, modals' = modals
  PROVE  WordsTrue' /\ CacheTrue'
<1>1. ASSUME NEW i \in Interaction, NEW m PROVE Coming(i, m)' <=> Coming(i, m)
  BY DEF Coming, SameWords
<1>2. WordsTrue'
  BY <1>1 DEF WordsTrue, SameWords
<1>3. CacheTrue'
  BY <1>1 DEF CacheTrue
<1> QED  BY <1>2, <1>3

LEMMA ViewsQuiet ==
  ASSUME ViewsTrue, UNCHANGED leaderVars,
         \A c \in Client : conn[c] = "here" => (load'[c] = "done" <=> load[c] = "done")
  PROVE  ViewsTrue'
BY DEF ViewsTrue, leaderVars

LEMMA QuietMessage ==
  ASSUME AttachTypes, NEW m \in Message, m.kind \in {"live", "replay"},
         gateway' = Append(gateway, m)
  PROVE  SameWords /\ gateway' \in Seq(Message)
<1>1. gateway \in Seq(Message)
  BY DEF AttachTypes
<1>2. gateway' \in Seq(Message)
  BY <1>1
<1>3. ASSUME NEW i \in Interaction
      PROVE  /\ About(gateway', i) = About(gateway, i)
             /\ \A k \in About(gateway, i) : gateway'[k] = gateway[k]
  <2>1. m \notin Word(i)
    BY OtherWords
  <2>2. /\ \A k \in About(gateway, i) : Append(gateway, m)[k] = gateway[k]
        /\ About(Append(gateway, m), i)
             = About(gateway, i) \cup (IF m \in Word(i) THEN {Len(gateway) + 1} ELSE {})
    BY <1>1, AboutMore
  <2> QED  BY <2>1, <2>2
<1> QED  BY <1>2, <1>3 DEF SameWords

LEMMA ReplayFields ==
  \A c, e : /\ Replay(c, e).kind = "replay" /\ Replay(c, e).to = c
            /\ Replay(c, e).seq = e
BY DEF Replay

(* Where the messages of a replay are, and which.                           *)
LEMMA ReplayPositions ==
  ASSUME AttachTypes, NEW c \in Client, ReplayTo(c), emitted' = emitted
  PROVE  /\ gateway \in Seq(Message) /\ gateway' \in Seq(Message)
         /\ written' - offset[c] \in Nat /\ offset[c] \in Nat
         /\ Len(gateway') = Len(gateway) + (written' - offset[c])
         /\ \A k \in 1..Len(gateway) : gateway'[k] = gateway[k]
         /\ \A k \in (Len(gateway) + 1)..Len(gateway') :
              gateway'[k] = Replay(c, offset[c] + (k - Len(gateway)) - 1)
<1> DEFINE n == written' - offset[c]
           xs == [k \in 1..n |-> Replay(c, offset[c] + k - 1)]
<1>1. n \in Nat /\ offset[c] \in Nat /\ offset[c] + n <= MaxEvents /\ MaxEvents \in Nat
  BY CapAssumption DEF AttachTypes, ReplayTo
<1>2. \A k \in 1..n : Replay(c, offset[c] + k - 1) \in Message
  BY <1>1 DEF Message, Event
<1>3. xs \in Seq(Message) /\ Len(xs) = n
  BY <1>1, <1>2
<1>4. gateway' = gateway \o xs /\ gateway \in Seq(Message)
  BY DEF ReplayTo, AttachTypes
<1>5. /\ gateway' \in Seq(Message) /\ Len(gateway') = Len(gateway) + n
      /\ \A k \in 1..Len(gateway) : gateway'[k] = gateway[k]
      /\ \A k \in (Len(gateway) + 1)..Len(gateway') : gateway'[k] = xs[k - Len(gateway)]
  BY <1>1, <1>3, <1>4
<1>6. ASSUME NEW k \in (Len(gateway) + 1)..Len(gateway')
      PROVE  gateway'[k] = Replay(c, offset[c] + (k - Len(gateway)) - 1)
  <2>1. k - Len(gateway) \in 1..n
    BY <1>1, <1>4, <1>5
  <2> QED  BY <2>1, <1>5
<1> HIDE DEF xs
<1> QED  BY <1>1, <1>4, <1>5, <1>6

LEMMA QuietReplay ==
  ASSUME AttachTypes, NEW c \in Client, ReplayTo(c), emitted' = emitted
  PROVE  SameWords /\ gateway' \in Seq(Message)
<1>1. /\ gateway \in Seq(Message) /\ gateway' \in Seq(Message)
      /\ Len(gateway) <= Len(gateway')
      /\ \A k \in 1..Len(gateway) : gateway'[k] = gateway[k]
  BY ReplayPositions
<1>2. \A k \in (Len(gateway) + 1)..Len(gateway') : gateway'[k].kind = "replay"
  <2>1. \A k \in (Len(gateway) + 1)..Len(gateway') :
          gateway'[k] = Replay(c, offset[c] + (k - Len(gateway)) - 1)
    BY ReplayPositions
  <2> QED  BY <2>1, ReplayFields
<1>3. ASSUME NEW i \in Interaction
      PROVE  \A k \in (Len(gateway) + 1)..Len(gateway') : gateway'[k] \notin Word(i)
  BY <1>2 DEF Word, Ask, Resolved
<1> QED  BY <1>1, <1>3 DEF SameWords, About, Word

LEMMA NumbersTrue ==
  ASSUME AttachTypes
  PROVE  /\ emitted \in 0..MaxEvents /\ written \in 0..emitted
         /\ emitting \in BOOLEAN /\ (emitting => emitted > 0)
         /\ offset \in [Client -> 0..MaxEvents] /\ \A c \in Client : offset[c] <= written
BY DEF AttachTypes

LEMMA MForward == ASSUME MInv, Persist \/ Forward PROVE MInv'
<1>1. GInv' /\ UNCHANGED leaderVars /\ UNCHANGED <<load, offset, written, asked>>
  BY GateNext DEF MInv, Next, Progress, Persist, Forward, loadVars
<1>2. SameWords /\ gateway' \in Seq(Message)
  <2>1. CASE gateway' = gateway
    BY <2>1 DEF SameWords, MInv, AttachTypes
  <2>2. CASE gateway' = Append(gateway, Live(emitted - 1)) /\ emitting
    <3>1. emitted - 1 \in Event
      BY <2>2, NumbersTrue, CapAssumption DEF MInv, Event
    <3>2. Live(emitted - 1) \in Message
      BY <3>1 DEF Message, Broadcast
    <3>3. Live(emitted - 1).kind = "live"
      BY DEF Live
    <3> QED  BY <3>2, <3>3, <2>2, QuietMessage DEF MInv
  <2> QED  BY <2>1, <2>2 DEF Persist, Forward
<1>3. /\ emitted' \in 0..MaxEvents /\ written' \in 0..emitted'
      /\ emitting' \in BOOLEAN /\ (emitting' => emitted' > 0)
  <2>1. \/ emitted' = emitted /\ emitting' = FALSE
        \/ emitted < MaxEvents /\ emitted' = emitted + 1 /\ emitting' = TRUE
    BY DEF Persist, Forward
  <2>2. emitted \in 0..MaxEvents /\ written \in 0..emitted /\ MaxEvents \in Nat
    BY NumbersTrue, CapAssumption DEF MInv
  <2>3. written' = written
    BY <1>1
  <2>4. emitted' \in 0..MaxEvents /\ written' \in 0..emitted'
    BY <2>1, <2>2, <2>3
  <2>5. emitting' \in BOOLEAN /\ (emitting' => emitted' > 0)
    <3>1. CASE emitting' = FALSE
      BY <3>1
    <3>2. CASE emitting' = TRUE /\ emitted' = emitted + 1
      BY <3>2, <2>2
    <3> QED  BY <3>1, <3>2, <2>1
  <2> QED  BY <2>4, <2>5
<1>4. AttachTypes'
  BY <1>1, <1>2, <1>3 DEF MInv, AttachTypes, leaderVars
<1>5. WordsTrue' /\ CacheTrue'
  BY <1>1, <1>2, WordsQuiet DEF MInv, leaderVars
<1>6. ViewsTrue'
  BY <1>1, ViewsQuiet DEF MInv
<1> QED  BY <1>1, <1>4, <1>5, <1>6 DEF MInv

LEMMA MLoadStep == ASSUME MInv, NEW c \in Client, LoadStep(c) PROVE MInv'
<1>1. GInv'
  BY GateNext DEF MInv, Next, Progress
<1>2. UNCHANGED leaderVars /\ UNCHANGED sessionVars
  BY DEF LoadStep, CloseGate, FlushLog, FailLoad, Snapshot, FlushAgain, Delta, OpenGate
<1>3. /\ load[c] # "done"
      /\ \E s \in Stages \ {"done"} : load' = [load EXCEPT ![c] = s]
  BY DEF LoadStep, CloseGate, FlushLog, FailLoad, Snapshot, FlushAgain, Delta, OpenGate,
         Go, Stages, Shutting
<1>4. \/ gateway' = gateway /\ offset' = offset /\ written' \in {written, emitted}
      \/ ReplayTo(c)
  BY DEF LoadStep, CloseGate, FlushLog, FailLoad, Snapshot, FlushAgain, Delta, OpenGate, Flushed
<1>5. SameWords /\ gateway' \in Seq(Message)
  <2>1. CASE gateway' = gateway
    BY <2>1 DEF SameWords, MInv, AttachTypes
  <2> QED  BY <2>1, <1>2, <1>4, QuietReplay DEF MInv, sessionVars
<1>6. /\ written' \in 0..emitted' /\ offset' \in [Client -> 0..MaxEvents]
      /\ \A d \in Client : offset'[d] <= written'
  <2>1. CASE offset' = offset /\ written' \in {written, emitted}
    BY <2>1, <1>2, NumbersTrue, CapAssumption DEF MInv, sessionVars
  <2>2. CASE ReplayTo(c)
    <3>1. written' \in written..emitted /\ offset' = [offset EXCEPT ![c] = written']
      BY <2>2 DEF ReplayTo
    <3> QED  BY <3>1, <1>2, NumbersTrue, CapAssumption DEF MInv, sessionVars
  <2> QED  BY <2>1, <2>2, <1>4
<1>7. AttachTypes'
  BY <1>2, <1>5, <1>6 DEF MInv, AttachTypes, leaderVars, sessionVars
<1>8. WordsTrue' /\ CacheTrue'
  BY <1>2, <1>5, WordsQuiet DEF MInv, leaderVars, sessionVars
<1>9. ViewsTrue'
  BY <1>2, <1>3, ViewsQuiet DEF MInv, GInv
<1> QED  BY <1>1, <1>7, <1>8, <1>9 DEF MInv

-----------------------------------------------------------------------------
(* The agent asks or resolves, the leader takes note.                       *)

LEMMA MInteract == ASSUME MInv, NEW i \in Interaction, Interact(i) PROVE MInv'
<1>1. GInv' /\ UNCHANGED leaderVars
      /\ UNCHANGED <<load, offset, written, emitted, emitting>>
  BY GateNext DEF MInv, Next, Interact, loadVars
<1>2. PICK m \in Word(i) :
        /\ gateway' = Append(gateway, m)
        /\ \/ m = Ask(i)      /\ asked[i] = "none" /\ asked' = [asked EXCEPT ![i] = "open"]
           \/ m = Resolved(i) /\ asked[i] = "open" /\ asked' = [asked EXCEPT ![i] = "closed"]
  BY DEF Interact, Word
<1>3. m \in Message /\ gateway \in Seq(Message)
      /\ asked \in [Interaction -> {"none", "open", "closed"}]
  BY <1>2 DEF MInv, AttachTypes, Word, Message, Broadcast
<1>4. AttachTypes'
  <2>1. gateway' \in Seq(Message)
    BY <1>2, <1>3
  <2>2. asked' \in [Interaction -> {"none", "open", "closed"}]
    BY <1>2, <1>3
  <2> QED  BY <1>1, <2>1, <2>2 DEF MInv, AttachTypes, leaderVars
<1>5. ASSUME NEW j \in Interaction
      PROVE  /\ About(gateway, j) \subseteq 1..Len(gateway)
             /\ \A k \in About(gateway, j) : gateway'[k] = gateway[k]
             /\ gateway'[Len(gateway) + 1] = m
             /\ About(gateway', j)
                  = About(gateway, j) \cup (IF j = i THEN {Len(gateway) + 1} ELSE {})
  <2>1. m \in Word(j) <=> j = i
    BY <1>2, Words DEF Word
  <2>2. /\ About(gateway, j) \subseteq 1..Len(gateway)
        /\ \A k \in About(gateway, j) : Append(gateway, m)[k] = gateway[k]
        /\ Append(gateway, m)[Len(gateway) + 1] = m
        /\ About(Append(gateway, m), j)
             = About(gateway, j) \cup (IF m \in Word(j) THEN {Len(gateway) + 1} ELSE {})
    BY <1>3, AboutMore
  <2> QED  BY <1>2, <2>1, <2>2
<1>6. ASSUME NEW j \in Interaction, NEW x
      PROVE  Coming(j, x)' <=> Coming(j, x) \/ (j = i /\ x = m)
  BY <1>5 DEF Coming
<1>7. \A k \in About(gateway, i) : gateway[k] = Ask(i) /\ m = Resolved(i)
  <2> SUFFICES ASSUME NEW k \in About(gateway, i)
               PROVE  gateway[k] = Ask(i) /\ m = Resolved(i)
    OBVIOUS
  <2>1. gateway[k] = Ask(i) \/ gateway[k] = Resolved(i)
    BY DEF About
  <2>2. /\ gateway[k] = Ask(i) => asked[i] # "none"
        /\ gateway[k] = Resolved(i) => asked[i] = "closed"
    BY DEF MInv, WordsTrue, Coming
  <2> QED  BY <1>2, <2>1, <2>2
<1>8. ASSUME NEW j \in Interaction, j # i
      PROVE  asked'[j] = asked[j]
  BY <1>2, <1>3, <1>8
<1>9. WordsTrue'
  <2> SUFFICES ASSUME NEW j \in Interaction
               PROVE  /\ Coming(j, Ask(j))' => asked'[j] # "none"
                      /\ Coming(j, Resolved(j))' => asked'[j] = "closed"
                      /\ Coming(j, Ask(j))' /\ asked'[j] = "closed" => Coming(j, Resolved(j))'
                      /\ \A l, k \in About(gateway', j) :
                           l < k => gateway'[l] = Ask(j) /\ gateway'[k] = Resolved(j)
    BY DEF WordsTrue
  <2>1. /\ Coming(j, Ask(j)) => asked[j] # "none"
        /\ Coming(j, Resolved(j)) => asked[j] = "closed"
        /\ Coming(j, Ask(j)) /\ asked[j] = "closed" => Coming(j, Resolved(j))
        /\ \A l, k \in About(gateway, j) :
             l < k => gateway[l] = Ask(j) /\ gateway[k] = Resolved(j)
    BY DEF MInv, WordsTrue
  <2>2. CASE j # i
    BY <2>1, <2>2, <1>5, <1>6, <1>8
  <2>3. CASE j = i
    <3>1. /\ Coming(j, Ask(j))' => asked'[j] # "none"
          /\ Coming(j, Resolved(j))' => asked'[j] = "closed"
          /\ Coming(j, Ask(j))' /\ asked'[j] = "closed" => Coming(j, Resolved(j))'
      BY <2>1, <2>3, <1>2, <1>3, <1>6, Words
    <3>2. ASSUME NEW l \in About(gateway', j), NEW k \in About(gateway', j), l < k
          PROVE  gateway'[l] = Ask(j) /\ gateway'[k] = Resolved(j)
      <4>1. l \in About(gateway, i)
        BY <3>2, <2>3, <1>3, <1>5
      <4>2. gateway'[l] = Ask(i) /\ m = Resolved(i)
        BY <4>1, <1>5, <1>7
      <4>3. CASE k \in About(gateway, i)
        BY <4>1, <4>2, <4>3, <3>2, <2>1, <2>3, <1>5
      <4>4. CASE k = Len(gateway) + 1
        BY <4>2, <4>4, <2>3, <1>5
      <4> QED  BY <4>3, <4>4, <2>3, <1>5
    <3> QED  BY <3>1, <3>2
  <2> QED  BY <2>2, <2>3
<1>10. CacheTrue'
  <2> SUFFICES ASSUME NEW j \in Interaction
               PROVE  j \in modals' <=>
                        /\ asked'[j] # "none" /\ ~Coming(j, Ask(j))'
                        /\ asked'[j] = "open" \/ Coming(j, Resolved(j))'
    BY DEF CacheTrue
  <2>1. modals' = modals
    BY <1>1 DEF leaderVars
  <2>2. j \in modals <=> /\ asked[j] # "none" /\ ~Coming(j, Ask(j))
                         /\ asked[j] = "open" \/ Coming(j, Resolved(j))
    BY DEF MInv, CacheTrue
  <2>3. CASE j # i
    BY <2>1, <2>2, <2>3, <1>6, <1>8
  <2>4. CASE j = i
    BY <2>1, <2>2, <2>4, <1>2, <1>3, <1>6, Words
  <2> QED  BY <2>3, <2>4
<1>11. ViewsTrue'
  BY <1>1, ViewsQuiet DEF MInv
<1> QED  BY <1>1, <1>4, <1>9, <1>10, <1>11 DEF MInv

LEMMA RouteWords ==
  ASSUME MInv, gateway # <<>>, gateway' = Tail(gateway), asked' = asked,
         modals' = Marked(modals, Head(gateway))
  PROVE  WordsTrue' /\ CacheTrue'
<1> DEFINE m == Head(gateway)
<1>1. gateway \in Seq(Message)
  BY DEF MInv, AttachTypes
<1>2. /\ m \in Message /\ m = gateway[1] /\ Len(gateway) \in Nat /\ Len(gateway) > 0
      /\ DOMAIN gateway = 1..Len(gateway) /\ DOMAIN gateway' = 1..(Len(gateway) - 1)
      /\ \A k \in 1..(Len(gateway) - 1) : gateway'[k] = gateway[k + 1]
  BY <1>1
<1> HIDE DEF m
<1>3. ASSUME NEW i \in Interaction
      PROVE  /\ \A k \in About(gateway', i) : /\ k \in Nat \ {0} /\ k + 1 \in About(gateway, i)
                                              /\ gateway'[k] = gateway[k + 1]
             /\ \A k \in About(gateway, i) \ {1} : k - 1 \in About(gateway', i)
                                                  /\ gateway'[k - 1] = gateway[k]
             /\ 1 \in About(gateway, i) <=> m \in Word(i)
             /\ About(gateway, i) \subseteq Nat \ {0}
  BY <1>2 DEF About, Word
<1>4. ASSUME NEW i \in Interaction
      PROVE  /\ Coming(i, Ask(i)) => asked[i] # "none"
             /\ Coming(i, Resolved(i)) => asked[i] = "closed"
             /\ Coming(i, Ask(i)) /\ asked[i] = "closed" => Coming(i, Resolved(i))
             /\ \A j, k \in About(gateway, i) :
                  j < k => gateway[j] = Ask(i) /\ gateway[k] = Resolved(i)
             /\ i \in modals <=> /\ asked[i] # "none" /\ ~Coming(i, Ask(i))
                                 /\ asked[i] = "open" \/ Coming(i, Resolved(i))
  BY DEF MInv, WordsTrue, CacheTrue
<1>5. ASSUME NEW i \in Interaction, m \notin Word(i), NEW x
      PROVE  Coming(i, x)' <=> Coming(i, x)
  <2>1. ASSUME Coming(i, x)'  PROVE Coming(i, x)
    <3>1. PICK k \in About(gateway', i) : gateway'[k] = x
      BY <2>1 DEF Coming
    <3>2. k + 1 \in About(gateway, i) /\ gateway[k + 1] = x
      BY <1>3, <3>1
    <3> QED  BY <3>2 DEF Coming
  <2>2. ASSUME Coming(i, x)  PROVE Coming(i, x)'
    <3>1. PICK k \in About(gateway, i) : gateway[k] = x
      BY <2>2 DEF Coming
    <3>2. k # 1
      BY <1>3, <1>5
    <3>3. k - 1 \in About(gateway', i) /\ gateway'[k - 1] = x
      BY <1>3, <3>1, <3>2
    <3> QED  BY <3>3 DEF Coming
  <2> QED  BY <2>1, <2>2
<1>6. ASSUME NEW i \in Interaction, m \notin Word(i)
      PROVE  i \in Marked(modals, m) <=> i \in modals
  <2>1. m # Ask(i) /\ m # Resolved(i)
    BY <1>6 DEF Word
  <2>2. CASE m.kind = "ask"
    <3>1. PICK j \in Interaction : m = Ask(j)
      BY <1>2, <2>2, Kinds
    <3>2. m.id = j /\ j # i
      BY <2>1, <3>1, Words
    <3> QED  BY <2>2, <3>2 DEF Marked
  <2>3. CASE m.kind = "resolved"
    <3>1. PICK j \in Interaction : m = Resolved(j)
      BY <1>2, <2>3, Kinds
    <3>2. m.id = j /\ j # i
      BY <2>1, <3>1, Words
    <3> QED  BY <2>3, <3>2 DEF Marked
  <2>4. CASE m.kind # "ask" /\ m.kind # "resolved"
    BY <2>4 DEF Marked
  <2> QED  BY <2>2, <2>3, <2>4
<1>7. ASSUME NEW i \in Interaction, m \in Word(i)
      PROVE  \A k \in About(gateway', i) : m = Ask(i) /\ gateway'[k] = Resolved(i)
  <2> SUFFICES ASSUME NEW k \in About(gateway', i)
               PROVE  m = Ask(i) /\ gateway'[k] = Resolved(i)
    OBVIOUS
  <2>1. /\ 1 \in About(gateway, i) /\ k + 1 \in About(gateway, i)
        /\ k \in Nat \ {0} /\ gateway'[k] = gateway[k + 1]
    BY <1>3, <1>7
  <2>2. 1 < k + 1
    BY <2>1
  <2> QED  BY <1>2, <1>4, <2>1, <2>2
<1>8. ASSUME NEW i \in Interaction, m = Ask(i)
      PROVE  ~Coming(i, Ask(i))' /\ (Coming(i, Resolved(i)) => Coming(i, Resolved(i))')
             /\ Coming(i, Ask(i)) /\ (Coming(i, Resolved(i))' => Coming(i, Resolved(i)))
  <2>1. 1 \in About(gateway, i) /\ gateway[1] = Ask(i)
    BY <1>2, <1>3, <1>8 DEF Word
  <2>2. m \in Word(i) /\ Coming(i, Ask(i))
    BY <1>8, <2>1 DEF Word, Coming
  <2>3. ~Coming(i, Ask(i))'
    <3>1. \A k \in About(gateway', i) : gateway'[k] = Resolved(i)
      BY <1>7, <2>2
    <3>2. Ask(i) # Resolved(i)
      BY Words
    <3> QED  BY <3>1, <3>2 DEF Coming
  <2>4. Coming(i, Resolved(i))' => Coming(i, Resolved(i))
    <3>1. ASSUME Coming(i, Resolved(i))'  PROVE Coming(i, Resolved(i))
      <4>1. PICK k \in About(gateway', i) : gateway'[k] = Resolved(i)
        BY <3>1 DEF Coming
      <4>2. k + 1 \in About(gateway, i) /\ gateway[k + 1] = Resolved(i)
        BY <1>3, <4>1
      <4> QED  BY <4>2 DEF Coming
    <3> QED  BY <3>1
  <2>5. ASSUME Coming(i, Resolved(i)) PROVE Coming(i, Resolved(i))'
    <3>1. PICK k \in About(gateway, i) : gateway[k] = Resolved(i)
      BY <2>5 DEF Coming
    <3>2. k # 1
      BY <2>1, <3>1, Words
    <3> QED  BY <1>3, <3>1, <3>2 DEF Coming
  <2> QED  BY <2>2, <2>3, <2>4, <2>5
<1>9. ASSUME NEW i \in Interaction, m = Resolved(i)
      PROVE  About(gateway', i) = {} /\ Coming(i, Resolved(i))
  <2>1. 1 \in About(gateway, i) /\ gateway[1] = Resolved(i)
    BY <1>2, <1>3, <1>9 DEF Word
  <2> QED  BY <1>7, <1>9, <2>1, Words DEF Coming, Word
<1>10. ASSUME NEW i \in Interaction
       PROVE  /\ Coming(i, Ask(i))' => asked[i] # "none"
              /\ Coming(i, Resolved(i))' => asked[i] = "closed"
              /\ Coming(i, Ask(i))' /\ asked[i] = "closed" => Coming(i, Resolved(i))'
              /\ i \in Marked(modals, m) <=>
                   /\ asked[i] # "none" /\ ~Coming(i, Ask(i))'
                   /\ asked[i] = "open" \/ Coming(i, Resolved(i))'
  <2>1. CASE m = Ask(i)
    <3>1. i \in Marked(modals, m)
      BY <2>1, Words DEF Marked
    <3>2. asked[i] \in {"none", "open", "closed"}
      BY DEF MInv, AttachTypes
    <3> QED  BY <2>1, <3>1, <3>2, <1>4, <1>8
  <2>2. CASE m = Resolved(i)
    <3>1. i \notin Marked(modals, m)
      BY <2>2, Words DEF Marked
    <3>2. ~Coming(i, Ask(i))' /\ ~Coming(i, Resolved(i))'
      BY <2>2, <1>9 DEF Coming
    <3>3. asked[i] = "closed"
      BY <2>2, <1>4, <1>9
    <3> QED  BY <3>1, <3>2, <3>3
  <2>3. CASE m \notin Word(i)
    BY <2>3, <1>4, <1>5, <1>6
  <2> QED  BY <2>1, <2>2, <2>3 DEF Word
<1>11. ASSUME NEW i \in Interaction, NEW j \in About(gateway', i), NEW k \in About(gateway', i),
              j < k
       PROVE  gateway'[j] = Ask(i) /\ gateway'[k] = Resolved(i)
  <2>1. j \in Nat /\ k \in Nat /\ j + 1 \in About(gateway, i) /\ k + 1 \in About(gateway, i)
        /\ gateway'[j] = gateway[j + 1] /\ gateway'[k] = gateway[k + 1]
    BY <1>3
  <2>2. j + 1 < k + 1
    BY <1>11, <2>1
  <2> QED  BY <1>4, <2>1, <2>2
<1>12. modals' = Marked(modals, m)
  BY DEF m
<1>13. WordsTrue'
  BY <1>10, <1>11 DEF WordsTrue
<1>14. CacheTrue'
  BY <1>10, <1>12 DEF CacheTrue
<1> QED  BY <1>13, <1>14

LEMMA ShownView ==
  ASSUME NEW v, IsView(v), NEW m \in Message
  PROVE  IsView(Shown(v, m)) /\ Shown(v, m).open = Marked(v.open, m)
<1>1. v = [got |-> v.got, open |-> v.open]
  BY DEF IsView
<1>2. CASE m.kind \in {"live", "replay"}
  <2>1. Shown(v, m) = [got |-> Append(v.got, m.seq), open |-> v.open]
    BY <1>1, <1>2 DEF Shown
  <2>2. Marked(v.open, m) = v.open
    BY <1>2 DEF Marked
  <2> QED  BY <2>1, <2>2 DEF IsView
<1>3. CASE m.kind \in {"ask", "resolved"}
  <2>1. Shown(v, m) = [got |-> v.got, open |-> Marked(v.open, m)]
    BY <1>1, <1>3 DEF Shown
  <2> QED  BY <2>1 DEF IsView
<1> QED  BY <1>2, <1>3, Kinds

(* A client that does not load is shown what the leader is told; one that   *)
(* loads, and whose buffer has room, will be.                               *)
LEMMA RouteViews == ASSUME MInv, Route PROVE ViewsTrue' /\ AttachTypes' /\
                                             modals' = Marked(modals, Head(gateway))
<1> DEFINE m == Head(gateway)
<1>1. /\ gateway \in Seq(Message) /\ gateway # <<>> /\ gateway' = Tail(gateway)
      /\ buffer \in [Client -> Seq(Broadcast)] /\ modals \subseteq Interaction
      /\ pending \subseteq subscribers /\ subscribers = {c \in Client : conn[c] = "here"}
  BY DEF MInv, AttachTypes, Route
<1>2. m \in Message /\ gateway' \in Seq(Message)
  BY <1>1
<1>3. UNCHANGED <<load, conn, subscribers, pending, asked, emitted, emitting, written, offset>>
  BY DEF Route, agentVars, sessionVars
<1>4. view = [c \in Client |-> view[c]] /\ \A c \in Client : IsView(view[c])
  BY DEF MInv, AttachTypes
<1> HIDE DEF m
<1>5. Marked(modals, m) \subseteq Interaction
  BY <1>1, <1>2, Kinds, Words DEF Marked
<1>6. \A c \in Client :
        /\ conn[c] = "away" => view[c] = Blank /\ buffer[c] = <<>>
        /\ conn[c] = "here" => (c \in pending <=> load[c] # "done")
        /\ c \in subscribers \ spilled =>
             IF c \in pending THEN LeftOpen(view[c].open, buffer[c]) \subseteq modals
                              ELSE view[c].open = modals
  BY DEF MInv, ViewsTrue
<1>7. CASE m.kind = "replay" /\ Unicast(m)
  <2>1. modals' = modals /\ buffer' = buffer /\ spilled' = spilled
    BY <1>7 DEF Unicast
  <2>2. modals' = Marked(modals, m)
    BY <1>7, <2>1 DEF Marked
  <2>3. /\ view' = [c \in Client |-> view'[c]] /\ \A c \in Client : IsView(view'[c])
        /\ \A c \in Client : view'[c].open = view[c].open
        /\ \A c \in Client : conn[c] # "here" => view'[c] = view[c]
    <3>1. CASE conn[m.to] = "here" /\ m.to \in Client
      <4>1. view' = [view EXCEPT ![m.to] = Shown(view[m.to], m)]
        BY <1>7, <3>1 DEF Unicast
      <4>2. IsView(Shown(view[m.to], m)) /\ Shown(view[m.to], m).open = view[m.to].open
        BY <1>2, <1>4, <1>7, <3>1, ShownView DEF Marked
      <4>3. /\ view' = [c \in Client |-> view'[c]] /\ view'[m.to] = Shown(view[m.to], m)
            /\ \A c \in Client : c # m.to => view'[c] = view[c]
        BY <1>4, <3>1, <4>1
      <4> QED  BY <1>4, <3>1, <4>2, <4>3
    <3>2. CASE view' = view
      BY <1>4, <3>2
    <3>3. m.to \in Client
      BY <1>2, <1>7 DEF Message, Broadcast, Live, Ask, Resolved, Replay
    <3> QED  BY <1>7, <3>1, <3>2, <3>3 DEF Unicast
  <2>4. ViewsTrue'
    BY <1>3, <1>6, <2>1, <2>3 DEF ViewsTrue
  <2>5. AttachTypes'
    BY <1>2, <1>3, <2>1, <2>3 DEF MInv, AttachTypes
  <2> QED  BY <2>2, <2>4, <2>5 DEF m
<1>8. CASE m.kind # "replay" /\ Fanout(m)
  <2> DEFINE held == {c \in pending : Len(buffer[c]) < Cap}
  <2>1. /\ modals' = Marked(modals, m)
        /\ buffer' = [c \in Client |-> IF c \in held THEN Append(buffer[c], m) ELSE buffer[c]]
        /\ view' = [c \in Client |-> IF c \in subscribers \ held THEN Shown(view[c], m)
                                     ELSE view[c]]
        /\ spilled' = spilled \cup (pending \ held)
    BY <1>8 DEF Fanout, Cached
  <2> HIDE DEF held
  <2>2. m \in Broadcast /\ held \subseteq pending
    BY <1>2, <1>8, Kinds DEF held
  <2>3. ASSUME NEW c \in Client
        PROVE  IsView(Shown(view[c], m)) /\ Shown(view[c], m).open = Marked(view[c].open, m)
    BY <1>2, <1>4, ShownView
  <2>4. view' = [c \in Client |-> view'[c]] /\ \A c \in Client : IsView(view'[c])
    BY <1>4, <2>1, <2>3
  <2>5. buffer' \in [Client -> Seq(Broadcast)]
    BY <1>1, <2>1, <2>2
  <2>6. AttachTypes'
    BY <1>2, <1>3, <1>5, <2>1, <2>4, <2>5 DEF MInv, AttachTypes
  <2>7. ASSUME NEW c \in Client, c \in subscribers \ spilled'
        PROVE  IF c \in pending THEN LeftOpen(view'[c].open, buffer'[c]) \subseteq modals'
                                ELSE view'[c].open = modals'
    <3>1. CASE c \in pending
      <4>1. c \in held /\ c \notin spilled
        BY <2>1, <2>7, <3>1
      <4>2. view'[c] = view[c] /\ buffer'[c] = Append(buffer[c], m)
        BY <2>1, <4>1
      <4>3. LeftOpen(view[c].open, buffer[c]) \subseteq modals
        BY <1>6, <2>7, <3>1, <4>1
      <4>4. LeftOpen(view[c].open \cap Interaction, Append(buffer[c], m))
              = Marked(LeftOpen(view[c].open \cap Interaction, buffer[c]), m)
        BY <1>1, <2>2, LeftMore
      <4>5. \A ms : LeftOpen(view[c].open \cap Interaction, ms) = LeftOpen(view[c].open, ms)
        BY DEF LeftOpen
      <4>6. Marked(LeftOpen(view[c].open, buffer[c]), m) \subseteq Marked(modals, m)
        BY <4>3 DEF Marked
      <4> QED  BY <2>1, <3>1, <4>2, <4>4, <4>5, <4>6
    <3>2. CASE c \notin pending
      <4>1. view'[c] = Shown(view[c], m)
        BY <2>1, <2>2, <2>7, <3>2
      <4>2. view[c].open = modals
        BY <1>6, <2>1, <2>7, <3>2
      <4>3. view'[c].open = Marked(view[c].open, m)
        BY <2>3, <4>1
      <4> QED  BY <2>1, <3>2, <4>2, <4>3
    <3> QED  BY <3>1, <3>2
  <2>8. ASSUME NEW c \in Client, conn[c] = "away"
        PROVE  view'[c] = view[c] /\ buffer'[c] = buffer[c]
    BY <1>1, <2>1, <2>2, <2>8
  <2>9. ViewsTrue'
    BY <1>3, <1>6, <2>7, <2>8 DEF ViewsTrue
  <2> QED  BY <2>1, <2>6, <2>9 DEF m
<1> QED  BY <1>7, <1>8 DEF Route, m

LEMMA MRoute == ASSUME MInv, Route PROVE MInv'
<1>1. GInv' /\ asked' = asked /\ gateway # <<>> /\ gateway' = Tail(gateway)
  BY GateNext DEF MInv, Next, Progress, Route, agentVars, sessionVars
<1> QED  BY <1>1, RouteWords, RouteViews DEF MInv

-----------------------------------------------------------------------------
(* A client comes, has its load answered, goes.                             *)

LEMMA OthersViews ==
  ASSUME MInv, NEW c \in Client, NEW d \in Client, d # c,
         conn'[d] = conn[d], load'[d] = load[d], view'[d] = view[d], buffer'[d] = buffer[d],
         d \in pending' <=> d \in pending, d \in spilled' <=> d \in spilled,
         d \in subscribers' <=> d \in subscribers, modals' = modals
  PROVE  /\ conn'[d] = "away" => view'[d] = Blank /\ buffer'[d] = <<>>
         /\ conn'[d] = "here" => (d \in pending' <=> load'[d] # "done")
         /\ d \in subscribers' \ spilled' =>
              IF d \in pending' THEN LeftOpen(view'[d].open, buffer'[d]) \subseteq modals'
                                ELSE view'[d].open = modals'
BY DEF MInv, ViewsTrue

LEMMA ClientWords ==
  ASSUME MInv, UNCHANGED <<gateway, asked, modals>>
  PROVE  WordsTrue' /\ CacheTrue'
BY WordsQuiet DEF MInv, SameWords

LEMMA MRequest == ASSUME MInv, NEW c \in Client, Request(c) PROVE MInv'
<1>1. GInv'
  BY GateNext DEF MInv, Next
<1>2. /\ UNCHANGED <<gateway, asked, modals, emitted, emitting, written, offset>>
      /\ UNCHANGED <<buffer, view, spilled>>
      /\ conn[c] = "away" /\ conn' = [conn EXCEPT ![c] = "here"]
      /\ subscribers' = subscribers \cup {c} /\ pending' = pending \cup {c}
      /\ load' = [load EXCEPT ![c] = "asked"]
  BY DEF Request, agentVars, sessionVars, Go
<1>3. load \in [Client -> Stages] /\ conn \in [Client -> Connection]
      /\ subscribers = {d \in Client : conn[d] = "here"} /\ pending \subseteq subscribers
  BY DEF MInv, GInv, AttachTypes
<1>4. pending' \subseteq subscribers' /\ subscribers' = {d \in Client : conn'[d] = "here"}
  BY <1>2, <1>3
<1>5. AttachTypes'
  BY <1>2, <1>4 DEF MInv, AttachTypes
<1>6. ASSUME NEW d \in Client
      PROVE  /\ conn'[d] = "away" => view'[d] = Blank /\ buffer'[d] = <<>>
             /\ conn'[d] = "here" => (d \in pending' <=> load'[d] # "done")
             /\ d \in subscribers' \ spilled' =>
                  IF d \in pending' THEN LeftOpen(view'[d].open, buffer'[d]) \subseteq modals'
                                    ELSE view'[d].open = modals'
  <2>1. CASE d = c
    <3>1. view'[c] = Blank /\ buffer'[c] = <<>>
      BY <1>2 DEF MInv, ViewsTrue
    <3>2. LeftOpen(view'[c].open, buffer'[c]) = {}
      BY <3>1, NothingLeft DEF Blank
    <3> QED  BY <2>1, <3>1, <3>2, <1>2, <1>3
  <2>2. CASE d # c
    <3>1. conn'[d] = conn[d] /\ load'[d] = load[d]
      BY <2>2, <1>2, <1>3
    <3> QED  BY <2>2, <3>1, <1>2, OthersViews
  <2> QED  BY <2>1, <2>2
<1>7. ViewsTrue'
  BY <1>6 DEF ViewsTrue
<1> QED  BY <1>1, <1>2, <1>5, <1>7, ClientWords DEF MInv

(* The buffer says no more than the leader knows, and the leader all it     *)
(* knows: the client shows it from now on.                                  *)
LEMMA MAnswer == ASSUME MInv, NEW c \in Client, Answer(c) PROVE MInv'
<1>1. GInv'
  BY GateNext DEF MInv, Next, Progress
<1>2. /\ UNCHANGED <<gateway, asked, modals, emitted, emitting, written, offset>>
      /\ UNCHANGED <<conn, subscribers, spilled>>
      /\ load' = [load EXCEPT ![c] = "done"] /\ load[c] = "answer"
      /\ pending' = pending \ {c} /\ buffer' = [buffer EXCEPT ![c] = <<>>]
  BY DEF Answer, agentVars, sessionVars, Go
<1>3. /\ load \in [Client -> Stages] /\ conn \in [Client -> Connection] /\ NoneEarly
      /\ buffer \in [Client -> Seq(Broadcast)]
      /\ view = [d \in Client |-> view[d]] /\ \A d \in Client : IsView(view[d])
      /\ subscribers = {d \in Client : conn[d] = "here"} /\ pending \subseteq subscribers
  BY DEF MInv, GInv, AttachTypes
<1>4. /\ view' = [d \in Client |-> view'[d]] /\ \A d \in Client : IsView(view'[d])
      /\ \A d \in Client \ {c} : view'[d] = view[d]
      /\ conn[c] = "here" => view'[c].open = LeftOpen(view[c].open, buffer[c]) \cup modals
  <2>1. CASE conn[c] = "here"
    <3> DEFINE w == [got  |-> view[c].got \o [k \in DOMAIN Newer(c) |-> Newer(c)[k].seq],
                     open |-> LeftOpen(view[c].open, buffer[c]) \cup modals]
    <3>1. view' = [view EXCEPT ![c] = w]
      BY <2>1 DEF Answer
    <3>2. IsView(w) /\ w.open = LeftOpen(view[c].open, buffer[c]) \cup modals
      BY DEF IsView
    <3> HIDE DEF w
    <3>3. /\ view' = [d \in Client |-> view'[d]] /\ view'[c] = w
          /\ \A d \in Client \ {c} : view'[d] = view[d]
      BY <3>1, <1>3
    <3> QED  BY <3>2, <3>3, <1>3
  <2>2. CASE conn[c] # "here"
    BY <2>2, <1>3 DEF Answer
  <2> QED  BY <2>1, <2>2
<1>5. buffer' \in [Client -> Seq(Broadcast)]
  BY <1>2, <1>3
<1>6. AttachTypes'
  BY <1>2, <1>3, <1>4, <1>5 DEF MInv, AttachTypes
<1>7. ASSUME NEW d \in Client
      PROVE  /\ conn'[d] = "away" => view'[d] = Blank /\ buffer'[d] = <<>>
             /\ conn'[d] = "here" => (d \in pending' <=> load'[d] # "done")
             /\ d \in subscribers' \ spilled' =>
                  IF d \in pending' THEN LeftOpen(view'[d].open, buffer'[d]) \subseteq modals'
                                    ELSE view'[d].open = modals'
  <2>1. CASE d = c
    <3>1. conn[c] # "away"
      BY <1>2, <1>3 DEF NoneEarly
    <3>2. c \notin pending' /\ load'[c] = "done"
      BY <1>2, <1>3
    <3>3. ASSUME c \in subscribers \ spilled
          PROVE  view'[c].open = modals
      <4>1. conn[c] = "here" /\ c \in pending
        BY <3>3, <1>2, <1>3 DEF MInv, ViewsTrue
      <4>2. LeftOpen(view[c].open, buffer[c]) \subseteq modals
        BY <3>3, <4>1 DEF MInv, ViewsTrue
      <4> QED  BY <4>1, <4>2, <1>4
    <3> QED  BY <2>1, <3>1, <3>2, <3>3, <1>2
  <2>2. CASE d # c
    <3>1. load'[d] = load[d] /\ buffer'[d] = buffer[d] /\ view'[d] = view[d]
      BY <2>2, <1>2, <1>3, <1>4
    <3> QED  BY <2>2, <3>1, <1>2, OthersViews
  <2> QED  BY <2>1, <2>2
<1>8. ViewsTrue'
  BY <1>7 DEF ViewsTrue
<1> QED  BY <1>1, <1>2, <1>6, <1>8, ClientWords DEF MInv

LEMMA MDisconnect == ASSUME MInv, NEW c \in Client, Disconnect(c) PROVE MInv'
<1>1. GInv'
  BY GateNext DEF MInv, Next
<1>2. /\ UNCHANGED <<gateway, asked, modals, emitted, emitting, written, offset, load>>
      /\ conn[c] = "here" /\ conn' = [conn EXCEPT ![c] = "gone"]
      /\ subscribers' = subscribers \ {c} /\ pending' = pending \ {c}
      /\ buffer' = [buffer EXCEPT ![c] = <<>>] /\ view' = [view EXCEPT ![c] = Blank]
      /\ spilled' = spilled \ {c}
  BY DEF Disconnect, agentVars, sessionVars
<1>3. /\ load \in [Client -> Stages] /\ conn \in [Client -> Connection]
      /\ buffer \in [Client -> Seq(Broadcast)]
      /\ view = [d \in Client |-> view[d]] /\ \A d \in Client : IsView(view[d])
      /\ subscribers = {d \in Client : conn[d] = "here"} /\ pending \subseteq subscribers
  BY DEF MInv, GInv, AttachTypes
<1>4. /\ view' = [d \in Client |-> view'[d]] /\ \A d \in Client : IsView(view'[d])
      /\ \A d \in Client \ {c} : view'[d] = view[d]
  <2>1. IsView(Blank)
    BY DEF IsView, Blank
  <2> HIDE DEF IsView
  <2> QED  BY <2>1, <1>2, <1>3
<1>5. /\ buffer' \in [Client -> Seq(Broadcast)]
      /\ pending' \subseteq subscribers' /\ subscribers' = {d \in Client : conn'[d] = "here"}
  BY <1>2, <1>3
<1>6. AttachTypes'
  BY <1>2, <1>4, <1>5 DEF MInv, AttachTypes
<1>7. ASSUME NEW d \in Client
      PROVE  /\ conn'[d] = "away" => view'[d] = Blank /\ buffer'[d] = <<>>
             /\ conn'[d] = "here" => (d \in pending' <=> load'[d] # "done")
             /\ d \in subscribers' \ spilled' =>
                  IF d \in pending' THEN LeftOpen(view'[d].open, buffer'[d]) \subseteq modals'
                                    ELSE view'[d].open = modals'
  <2>1. CASE d = c
    BY <2>1, <1>2, <1>3
  <2>2. CASE d # c
    <3>1. conn'[d] = conn[d] /\ buffer'[d] = buffer[d] /\ view'[d] = view[d]
      BY <2>2, <1>2, <1>3
    <3> QED  BY <2>2, <3>1, <1>2, OthersViews
  <2> QED  BY <2>1, <2>2
<1>8. ViewsTrue'
  BY <1>7 DEF ViewsTrue
<1> QED  BY <1>1, <1>2, <1>6, <1>8, ClientWords DEF MInv

LEMMA MAtFirst == Init => MInv
<1>1. SUFFICES ASSUME Init PROVE MInv
  OBVIOUS
<1>2. GInv
  BY <1>1, GateAtFirst
<1>3. /\ emitted = 0 /\ written = 0 /\ emitting = FALSE /\ offset = [c \in Client |-> 0]
      /\ asked = [i \in Interaction |-> "none"] /\ gateway = <<>>
      /\ buffer = [c \in Client |-> <<>>] /\ modals = {} /\ view = [c \in Client |-> Blank]
      /\ conn = [c \in Client |-> IF c \in Attached THEN "here" ELSE "away"]
      /\ load = [c \in Client |-> IF c \in Attached THEN "done" ELSE "none"]
      /\ subscribers = Attached /\ pending = {} /\ spilled = {}
  BY <1>1 DEF Init
<1>4. IsView(Blank) /\ Blank.open = {}
  BY DEF IsView, Blank
<1>5. AttachTypes
  <2>1. subscribers = {c \in Client : conn[c] = "here"}
    BY <1>3, AttachedAssumption
  <2>2. /\ emitted \in 0..MaxEvents /\ written \in 0..emitted
        /\ offset \in [Client -> 0..MaxEvents] /\ \A c \in Client : offset[c] <= written
    BY <1>3, CapAssumption
  <2>3. gateway \in Seq(Message) /\ buffer \in [Client -> Seq(Broadcast)]
    BY <1>3
  <2>4. view = [c \in Client |-> view[c]] /\ \A c \in Client : IsView(view[c])
    BY <1>3, <1>4
  <2> QED  BY <2>1, <2>2, <2>3, <2>4, <1>3 DEF AttachTypes
<1>6. WordsTrue /\ CacheTrue
  BY <1>3 DEF WordsTrue, CacheTrue, Coming, About
<1>7. ViewsTrue
  BY <1>3, <1>4, AttachedAssumption DEF ViewsTrue
<1> QED  BY <1>2, <1>5, <1>6, <1>7 DEF MInv

LEMMA MNext == MInv /\ [Next]_vars => MInv'
<1>1. SUFFICES ASSUME MInv, [Next]_vars PROVE MInv'
  OBVIOUS
<1>2. CASE UNCHANGED vars
  <2>1. GInv'
    BY <1>1, GateNext DEF MInv
  <2>2. UNCHANGED leaderVars
        /\ UNCHANGED <<load, offset, written, emitted, emitting, asked, gateway>>
    BY <1>2 DEF vars, loadVars, sessionVars
  <2>3. AttachTypes' /\ ViewsTrue'
    BY <1>1, <2>2 DEF MInv, AttachTypes, ViewsTrue, leaderVars
  <2>4. WordsTrue' /\ CacheTrue'
    BY <1>1, <2>2, ClientWords DEF leaderVars
  <2> QED  BY <2>1, <2>3, <2>4 DEF MInv
<1> QED  BY <1>1, <1>2, MForward, MRoute, MInteract, MLoadStep, MAnswer, MRequest, MDisconnect
         DEF Next, Progress

(* Whenever nothing is on its way, a client whose load was answered shows   *)
(* the interactions the agent waits for, and no other: whichever was asked  *)
(* or resolved, and seen by the leader, before, while or after it loaded.   *)
(* As in the property, clients whose buffer overflowed are exempt.          *)
THEOREM ModalsFollow == Spec => []ModalsAgree
<1>1. MInv => ModalsAgree
  <2> SUFFICES ASSUME MInv, NEW c \in Client \ spilled, Listening(c), Settled
               PROVE  view[c].open = {i \in Interaction : asked[i] = "open"}
    BY DEF ModalsAgree
  <2>1. c \in subscribers /\ c \notin pending
    BY DEF MInv, AttachTypes, ViewsTrue, Listening
  <2>2. view[c].open = modals /\ modals \subseteq Interaction
    BY <2>1 DEF MInv, AttachTypes, ViewsTrue
  <2>3. \A i \in Interaction : \A m : ~Coming(i, m)
    BY DEF Coming, About, Settled
  <2>4. \A i \in Interaction : i \in modals <=> asked[i] = "open"
    BY <2>3 DEF MInv, CacheTrue
  <2> QED  BY <2>2, <2>4
<1> QED  BY <1>1, MAtFirst, MNext, PTL DEF Spec

-----------------------------------------------------------------------------
(* Events are numbered in the order in which they are emitted.  In which    *)
(* order they travel, and which of them may still come to whom.             *)

Passed       == IF emitting THEN emitted - 1 ELSE emitted
IsLive(m)    == m.kind = "live"
For(c, m)    == m.kind = "replay" /\ m.to = c
Ascend(ms)   == \A j, k \in DOMAIN ms :
                  j < k /\ IsLive(ms[j]) /\ IsLive(ms[k]) => ms[j].seq < ms[k].seq

StreamTypes ==
  /\ cutoff \in [Client -> Event \cup {NoCutoff}]
  /\ \A c \in Client : view[c].got \in Seq(Event)

(* Live events ascend, in a buffer and from the buffer to the queue.        *)
LiveTrue ==
  /\ Ascend(gateway)
  /\ \A k \in DOMAIN gateway : IsLive(gateway[k]) => gateway[k].seq < Passed
  /\ \A c \in pending :
       /\ Ascend(buffer[c])
       /\ \A j \in DOMAIN buffer[c] : IsLive(buffer[c][j]) =>
            /\ buffer[c][j].seq < Passed
            /\ \A k \in DOMAIN gateway : IsLive(gateway[k]) => buffer[c][j].seq < gateway[k].seq

(* Replays to one client ascend, from those it has got to those on their    *)
(* way, and end where the load has come to.                                 *)
ReplayTrue ==
  \A c \in Client :
    /\ load[c] \in {"none", "asked", "flush", "read"} => offset[c] = 0
    /\ load[c] \in {"delta", "done"} => Drained(c)
    /\ \A k \in DOMAIN gateway : For(c, gateway[k]) => /\ cutoff[c] < gateway[k].seq
                                                       /\ gateway[k].seq < offset[c]
    /\ \A j, k \in DOMAIN gateway :
         j < k /\ For(c, gateway[j]) /\ For(c, gateway[k]) => gateway[j].seq < gateway[k].seq
    /\ cutoff[c] < offset[c]

(* A live event a load has read has the replay behind it, or is late.       *)
LateTrue ==
  \A c \in Client, k \in DOMAIN gateway :
    IsLive(gateway[k]) /\ gateway[k].seq \notin late /\ gateway[k].seq < offset[c]
      => \E j \in DOMAIN gateway : k < j /\ For(c, gateway[j])

(* What a client has got: a part of the log while it loads; then nothing    *)
(* that a live event, unless it is late, does not follow.                   *)
GotTrue ==
  \A c \in Client \ spilled :
    /\ conn[c] # "here" => view[c].got = <<>>
    /\ c \in pending => \A k \in DOMAIN view[c].got : view[c].got[k] <= cutoff[c]
    /\ conn[c] = "here" /\ load[c] = "done" =>
         \A k \in DOMAIN view[c].got :
           /\ view[c].got[k] < Passed \/ view[c].got[k] < offset[c]
           /\ \A j \in DOMAIN gateway : IsLive(gateway[j]) =>
                view[c].got[k] < gateway[j].seq \/ gateway[j].seq \in late

OInv == /\ MInv /\ StreamTypes /\ LiveTrue /\ ReplayTrue /\ LateTrue /\ GotTrue /\ InOrder

-----------------------------------------------------------------------------
LEMMA Fields ==
  ASSUME NEW m \in Message
  PROVE  /\ IsLive(m) => m.seq \in Event /\ m = Live(m.seq)
         /\ \A c \in Client : For(c, m) => m.seq \in Event /\ m = Replay(c, m.seq)
         /\ m.kind = "replay" => m.to \in Client /\ For(m.to, m)
BY DEF Message, Broadcast, Live, Replay, Ask, Resolved, IsLive, For

(* The agent adds to the queue.                                             *)
Longer ==
  /\ gateway \in Seq(Message) /\ gateway' \in Seq(Message)
  /\ Len(gateway) <= Len(gateway')
  /\ \A k \in DOMAIN gateway : gateway'[k] = gateway[k]
Newly  == DOMAIN gateway' \ DOMAIN gateway

LEMMA LongerFacts ==
  ASSUME Longer
  PROVE  /\ DOMAIN gateway \subseteq DOMAIN gateway' /\ DOMAIN gateway' \subseteq Nat
         /\ \A j \in DOMAIN gateway, k \in Newly : j < k
         /\ \A j \in Newly, k \in DOMAIN gateway : ~(j < k)
         /\ \A k \in DOMAIN gateway' : gateway'[k] \in Message
<1>1. /\ DOMAIN gateway = 1..Len(gateway) /\ DOMAIN gateway' = 1..Len(gateway')
      /\ Len(gateway) \in Nat /\ Len(gateway') \in Nat /\ Len(gateway) <= Len(gateway')
  BY DEF Longer
<1>2. \A k \in DOMAIN gateway' : gateway'[k] \in Message
  BY DEF Longer
<1>3. \A k \in Newly : k \in Nat /\ Len(gateway) < k
  BY <1>1 DEF Newly
<1> QED  BY <1>1, <1>2, <1>3

LEMMA EventNumbers == Event \subseteq Nat /\ NoCutoff \in Int /\ MaxEvents \in Nat
BY CapAssumption DEF Event, NoCutoff

LEMMA EventIsNumber == ASSUME NEW e \in Event PROVE e \in Nat /\ e \in Int
BY EventNumbers

LEMMA OffsetType == ASSUME AttachTypes PROVE offset \in [Client -> Nat]
<1>1. offset \in [Client -> 0..MaxEvents] /\ MaxEvents \in Nat
  BY NumbersTrue, CapAssumption
<1> QED  BY <1>1

LEMMA CutoffType == ASSUME StreamTypes, NEW c \in Client PROVE cutoff[c] \in Int
<1>1. cutoff[c] \in Event \cup {NoCutoff}
  BY DEF StreamTypes
<1>2. \A e \in Event : e \in Int
  BY EventNumbers
<1> QED  BY <1>1, <1>2, EventNumbers

LEMMA PassedType ==
  ASSUME AttachTypes
  PROVE  Passed \in Nat /\ Passed <= emitted /\ emitted \in Nat
BY NumbersTrue, CapAssumption DEF Passed

LEMMA LiveGrows ==
  ASSUME MInv, LiveTrue, Longer, pending' = pending, buffer' = buffer,
         Passed' \in Nat, Passed <= Passed',
         \A k \in Newly : IsLive(gateway'[k]) =>
           /\ Passed <= gateway'[k].seq /\ gateway'[k].seq < Passed'
           /\ \A j \in Newly : j < k => ~IsLive(gateway'[j])
  PROVE  LiveTrue'
<1>1. /\ DOMAIN gateway \subseteq DOMAIN gateway' /\ DOMAIN gateway' \subseteq Nat
      /\ \A j \in DOMAIN gateway, k \in Newly : j < k
      /\ \A j \in Newly, k \in DOMAIN gateway : ~(j < k)
      /\ \A k \in DOMAIN gateway : gateway'[k] = gateway[k]
  BY LongerFacts DEF Longer
<1>2. \A k \in DOMAIN gateway' : IsLive(gateway'[k]) => gateway'[k].seq \in Nat
  BY LongerFacts, Fields, EventNumbers
<1>3. Passed \in Nat
  BY PassedType DEF MInv
<1>4. \A c \in pending : \A j \in DOMAIN buffer[c] :
        IsLive(buffer[c][j]) => buffer[c][j].seq \in Nat
  <2> SUFFICES ASSUME NEW c \in pending, NEW j \in DOMAIN buffer[c], IsLive(buffer[c][j])
               PROVE  buffer[c][j].seq \in Nat
    OBVIOUS
  <2>1. buffer[c] \in Seq(Broadcast)
    BY DEF MInv, AttachTypes
  <2>2. buffer[c][j] \in Message
    BY <2>1 DEF Message
  <2> QED  BY <2>2, Fields, EventNumbers
<1>5. \A k \in DOMAIN gateway' : IsLive(gateway'[k]) => gateway'[k].seq < Passed'
  BY <1>1, <1>2, <1>3 DEF LiveTrue, Newly
<1>6. Ascend(gateway')
  <2> SUFFICES ASSUME NEW j \in DOMAIN gateway', NEW k \in DOMAIN gateway', j < k,
                      IsLive(gateway'[j]), IsLive(gateway'[k])
               PROVE  gateway'[j].seq < gateway'[k].seq
    BY DEF Ascend
  <2>1. CASE k \in DOMAIN gateway
    BY <1>1, <2>1 DEF LiveTrue, Ascend, Newly
  <2>2. CASE k \in Newly /\ j \in DOMAIN gateway
    <3>1. gateway'[j].seq < Passed /\ Passed <= gateway'[k].seq
      BY <1>1, <2>2 DEF LiveTrue
    <3> QED  BY <3>1, <1>2, <1>3
  <2>3. CASE k \in Newly /\ j \in Newly
    BY <2>3
  <2> QED  BY <2>1, <2>2, <2>3 DEF Newly
<1>7. ASSUME NEW c \in pending'
      PROVE  /\ Ascend(buffer'[c])
             /\ \A j \in DOMAIN buffer'[c] : IsLive(buffer'[c][j]) =>
                  /\ buffer'[c][j].seq < Passed'
                  /\ \A k \in DOMAIN gateway' :
                       IsLive(gateway'[k]) => buffer'[c][j].seq < gateway'[k].seq
  <2>1. Ascend(buffer[c])
    BY DEF LiveTrue
  <2>2. ASSUME NEW j \in DOMAIN buffer[c], IsLive(buffer[c][j])
        PROVE  /\ buffer[c][j].seq < Passed'
               /\ \A k \in DOMAIN gateway' :
                    IsLive(gateway'[k]) => buffer[c][j].seq < gateway'[k].seq
    <3>1. buffer[c][j].seq < Passed /\ buffer[c][j].seq \in Nat
      BY <1>4, <2>2 DEF LiveTrue
    <3>2. \A k \in DOMAIN gateway : IsLive(gateway[k]) => buffer[c][j].seq < gateway[k].seq
      BY <2>2 DEF LiveTrue
    <3>3. \A k \in Newly : IsLive(gateway'[k]) => buffer[c][j].seq < gateway'[k].seq
      BY <3>1, <1>2, <1>3 DEF Newly
    <3> QED  BY <3>1, <3>2, <3>3, <1>1, <1>3 DEF Newly
  <2> QED  BY <2>1, <2>2
<1> QED  BY <1>5, <1>6, <1>7 DEF LiveTrue

LEMMA ReplayGrows ==
  ASSUME MInv, StreamTypes, ReplayTrue, Longer, cutoff' = cutoff,
         offset' \in [Client -> Nat],
         \A c \in Client :
           /\ offset[c] <= offset'[c]
           /\ load'[c] \in {"none", "asked", "flush", "read"} => offset'[c] = 0
           /\ load'[c] \in {"delta", "done"} => Drained(c)'
           /\ \A k \in Newly : For(c, gateway'[k]) =>
                /\ offset[c] <= gateway'[k].seq /\ gateway'[k].seq < offset'[c]
                /\ \A j \in Newly : j < k /\ For(c, gateway'[j])
                                      => gateway'[j].seq < gateway'[k].seq
  PROVE  ReplayTrue'
<1> SUFFICES ASSUME NEW c \in Client
             PROVE  /\ \A k \in DOMAIN gateway' : For(c, gateway'[k]) =>
                         cutoff'[c] < gateway'[k].seq /\ gateway'[k].seq < offset'[c]
                    /\ \A j, k \in DOMAIN gateway' :
                         j < k /\ For(c, gateway'[j]) /\ For(c, gateway'[k])
                           => gateway'[j].seq < gateway'[k].seq
                    /\ cutoff'[c] < offset'[c]
  BY DEF ReplayTrue
<1>1. /\ DOMAIN gateway \subseteq DOMAIN gateway'
      /\ \A j \in Newly, k \in DOMAIN gateway : ~(j < k)
      /\ \A k \in DOMAIN gateway : gateway'[k] = gateway[k]
  BY LongerFacts DEF Longer
<1>2. \A k \in DOMAIN gateway' : For(c, gateway'[k]) => gateway'[k].seq \in Nat
  BY LongerFacts, Fields, EventNumbers
<1>3. /\ offset[c] \in Nat /\ offset'[c] \in Nat /\ offset[c] <= offset'[c]
      /\ cutoff[c] \in Int /\ cutoff[c] < offset[c]
  <2>1. cutoff[c] \in Event \cup {NoCutoff} /\ cutoff[c] < offset[c]
    BY DEF StreamTypes, ReplayTrue
  <2>2. cutoff[c] \in Int
    BY CutoffType
  <2>3. offset[c] \in Nat
    BY OffsetType DEF MInv
  <2> QED  BY <2>1, <2>2, <2>3
<1>4. \A k \in DOMAIN gateway : For(c, gateway[k]) =>
        cutoff[c] < gateway[k].seq /\ gateway[k].seq < offset[c]
  BY DEF ReplayTrue
<1>5. \A k \in DOMAIN gateway' : For(c, gateway'[k]) =>
        cutoff[c] < gateway'[k].seq /\ gateway'[k].seq < offset'[c]
  BY <1>1, <1>2, <1>3, <1>4 DEF Newly
<1>6. ASSUME NEW j \in DOMAIN gateway', NEW k \in DOMAIN gateway', j < k,
             For(c, gateway'[j]), For(c, gateway'[k])
      PROVE  gateway'[j].seq < gateway'[k].seq
  <2>1. CASE k \in DOMAIN gateway
    BY <1>1, <1>6, <2>1 DEF ReplayTrue, Newly
  <2>2. CASE k \in Newly /\ j \in DOMAIN gateway
    <3>1. gateway'[j].seq < offset[c] /\ offset[c] <= gateway'[k].seq
      BY <1>1, <1>4, <1>6, <2>2
    <3> QED  BY <3>1, <1>2, <1>3, <1>6
  <2>3. CASE k \in Newly /\ j \in Newly
    BY <1>6, <2>3
  <2> QED  BY <2>1, <2>2, <2>3 DEF Newly
<1>7. cutoff[c] < offset'[c]
  BY <1>3
<1> QED  BY <1>5, <1>6, <1>7

LEMMA LateGrows ==
  ASSUME LateTrue, Longer, late \subseteq late',
         \A c \in Client :
           /\ \A k \in DOMAIN gateway : IsLive(gateway[k]) =>
                \/ gateway[k].seq < offset[c] \/ ~(gateway[k].seq < offset'[c])
                \/ \E j \in Newly : For(c, gateway'[j])
           /\ \A k \in Newly : IsLive(gateway'[k]) =>
                gateway'[k].seq \in late' \/ ~(gateway'[k].seq < offset'[c])
  PROVE  LateTrue'
<1> SUFFICES ASSUME NEW c \in Client, NEW k \in DOMAIN gateway', IsLive(gateway'[k]),
                    gateway'[k].seq \notin late', gateway'[k].seq < offset'[c]
             PROVE  \E j \in DOMAIN gateway' : k < j /\ For(c, gateway'[j])
  BY DEF LateTrue
<1>1. /\ DOMAIN gateway \subseteq DOMAIN gateway'
      /\ \A i \in DOMAIN gateway, j \in Newly : i < j
      /\ \A i \in DOMAIN gateway : gateway'[i] = gateway[i]
  BY LongerFacts DEF Longer
<1>2. k \in DOMAIN gateway
  BY DEF Newly
<1>3. CASE gateway[k].seq < offset[c]
  BY <1>1, <1>2, <1>3 DEF LateTrue
<1>4. CASE \E j \in Newly : For(c, gateway'[j])
  BY <1>1, <1>2, <1>4 DEF Newly
<1> QED  BY <1>1, <1>2, <1>3, <1>4

LEMMA GotGrows ==
  ASSUME MInv, StreamTypes, GotTrue, Longer, late \subseteq late', UNCHANGED leaderVars,
         Passed' \in Nat, Passed <= Passed', offset' \in [Client -> Nat],
         \A c \in Client : offset[c] <= offset'[c] /\ (load'[c] = "done" => load[c] = "done"),
         \A c \in Client, k \in Newly : IsLive(gateway'[k]) =>
           /\ Passed <= gateway'[k].seq
           /\ gateway'[k].seq \in late' \/ ~(gateway'[k].seq < offset[c])
  PROVE  GotTrue'
<1> SUFFICES ASSUME NEW c \in Client \ spilled', conn'[c] = "here", load'[c] = "done",
                    NEW k \in DOMAIN view'[c].got
             PROVE  /\ view'[c].got[k] < Passed' \/ view'[c].got[k] < offset'[c]
                    /\ \A j \in DOMAIN gateway' : IsLive(gateway'[j]) =>
                         view'[c].got[k] < gateway'[j].seq \/ gateway'[j].seq \in late'
  BY DEF GotTrue, leaderVars
<1> DEFINE g == view[c].got[k]
<1>1. /\ c \in Client \ spilled /\ conn[c] = "here" /\ load[c] = "done"
      /\ k \in DOMAIN view[c].got /\ view'[c].got[k] = g
  BY DEF leaderVars
<1>2. g \in Nat /\ Passed \in Nat /\ offset[c] \in Nat /\ offset'[c] \in Nat
      /\ offset[c] <= offset'[c]
  <2>1. view[c].got \in Seq(Event)
    BY DEF StreamTypes
  <2>2. g \in Event
    BY <1>1, <2>1
  <2>3. g \in Nat /\ Passed \in Nat
    BY <2>2, EventNumbers, PassedType DEF MInv
  <2> QED  BY <2>3, OffsetType DEF MInv
<1>3. /\ g < Passed \/ g < offset[c]
      /\ \A j \in DOMAIN gateway : IsLive(gateway[j]) =>
           g < gateway[j].seq \/ gateway[j].seq \in late
  BY <1>1 DEF GotTrue
<1> HIDE DEF g
<1>4. g < Passed' \/ g < offset'[c]
  BY <1>2, <1>3
<1>5. ASSUME NEW j \in DOMAIN gateway', IsLive(gateway'[j])
      PROVE  g < gateway'[j].seq \/ gateway'[j].seq \in late'
  <2>1. gateway'[j].seq \in Nat
    BY <1>5, LongerFacts, Fields, EventNumbers
  <2>2. CASE j \in DOMAIN gateway
    BY <1>3, <1>5, <2>2 DEF Longer
  <2>3. CASE j \in Newly
    BY <1>2, <1>3, <1>5, <2>1, <2>3
  <2> QED  BY <2>2, <2>3 DEF Newly
<1> QED  BY <1>1, <1>4, <1>5

-----------------------------------------------------------------------------
(* The steps of the session and of its loads.                               *)

LEMMA InOrderKept ==
  ASSUME InOrder, view' = view, spilled' = spilled, late \subseteq late'
  PROVE  InOrder'
BY DEF InOrder

LEMMA AddOne ==
  ASSUME MInv, NEW m \in Message, gateway' = Append(gateway, m)
  PROVE  /\ Longer /\ Newly = {Len(gateway) + 1} /\ gateway'[Len(gateway) + 1] = m
<1>1. gateway \in Seq(Message)
  BY DEF MInv, AttachTypes
<1> QED  BY <1>1 DEF Longer, Newly

LEMMA AddNone ==
  ASSUME MInv, gateway' = gateway
  PROVE  Longer /\ Newly = {}
<1>1. gateway \in Seq(Message)
  BY DEF MInv, AttachTypes
<1> QED  BY <1>1 DEF Longer, Newly

LEMMA StreamTypesKept == ASSUME StreamTypes, cutoff' = cutoff, view' = view PROVE StreamTypes'
BY DEF StreamTypes

(* A message of the session is no replay; if it is an event, it is the next *)
(* to pass the gate.                                                        *)
LEMMA OSession ==
  ASSUME OInv, Persist \/ Forward \/ \E i \in Interaction : Interact(i)
  PROVE  OInv'
<1>1. MInv'
  BY MNext DEF OInv, Next, Progress
<1>2. UNCHANGED leaderVars /\ UNCHANGED <<load, offset>> /\ late \subseteq late'
      /\ (load' = load /\ offset' = offset /\ cutoff' = cutoff /\ view' = view
          /\ spilled' = spilled /\ pending' = pending /\ buffer' = buffer)
  BY DEF Persist, Forward, Interact, loadVars, leaderVars, gateHistory
<1>3. /\ Longer /\ Passed <= Passed' /\ Passed \in Nat /\ Passed' \in Nat
      /\ \A j, k \in Newly : j = k
      /\ \A k \in Newly : ~ \E c \in Client : For(c, gateway'[k])
      /\ \A k \in Newly : IsLive(gateway'[k]) =>
           /\ Passed = gateway'[k].seq /\ Passed < Passed'
           /\ gateway'[k].seq \in late' \/ \A c \in Client : ~(gateway'[k].seq < offset[c])
  <2>1. emitted \in Nat /\ emitting \in BOOLEAN /\ (emitting => emitted > 0)
        /\ emitted <= MaxEvents /\ MaxEvents \in Nat
    BY NumbersTrue, CapAssumption DEF OInv, MInv
  <2>2. CASE Persist
    <3>1. gateway' = gateway /\ emitted' = emitted + 1 /\ emitting' = TRUE /\ emitting = FALSE
      BY <2>1, <2>2 DEF Persist
    <3>2. Longer /\ Newly = {}
      BY <3>1, AddNone DEF OInv
    <3> QED  BY <2>1, <3>1, <3>2 DEF Passed
  <2>3. CASE \E i \in Interaction : Interact(i)
    <3>0. PICK i \in Interaction : \E m \in Word(i) : gateway' = Append(gateway, m)
      BY <2>3 DEF Interact, Word
    <3>1. PICK m \in Word(i) : gateway' = Append(gateway, m)
      BY <3>0
    <3>2. m \in Message /\ ~IsLive(m) /\ \A c \in Client : ~For(c, m)
      BY <3>1 DEF Word, Message, Broadcast, Ask, Resolved, IsLive, For
    <3>3. Longer /\ Newly = {Len(gateway) + 1} /\ gateway'[Len(gateway) + 1] = m
      BY <3>1, <3>2, AddOne DEF OInv
    <3>4. emitted' = emitted /\ emitting' = emitting
      BY <2>3 DEF Interact
    <3> QED  BY <2>1, <3>2, <3>3, <3>4 DEF Passed
  <2>4. CASE Forward
    <3>1. emitting = TRUE /\ emitting' = FALSE /\ emitted' = emitted
      BY <2>1, <2>4 DEF Forward
    <3>2. Passed = emitted - 1 /\ Passed' = emitted
      BY <3>1 DEF Passed
    <3>3. CASE gateway' = gateway
      <4>1. Longer /\ Newly = {}
        BY <3>3, AddNone DEF OInv
      <4> QED  BY <2>1, <3>1, <3>2, <4>1
    <3>4. CASE gate
      <4> DEFINE e == emitted - 1
      <4>1. gateway' = Append(gateway, Live(e))
            /\ late' = IF \E c \in Client : e < offset[c] THEN late \cup {e} ELSE late
        BY <2>4, <3>4 DEF Forward
      <4>2. e \in Event
        BY <2>1, <3>1 DEF Event
      <4>3. /\ Live(e) \in Message /\ Live(e).seq = e /\ ~ \E c \in Client : For(c, Live(e))
        BY <4>2 DEF Message, Broadcast, Live, For
      <4>4. Longer /\ Newly = {Len(gateway) + 1} /\ gateway'[Len(gateway) + 1] = Live(e)
        BY <4>1, <4>3, AddOne DEF OInv
      <4>5. e \in late' \/ \A c \in Client : ~(e < offset[c])
        BY <4>1
      <4> QED  BY <2>1, <3>1, <3>2, <4>3, <4>4, <4>5
    <3> QED  BY <2>4, <3>3, <3>4 DEF Forward
  <2> QED  BY <2>2, <2>3, <2>4
<1>4. offset' \in [Client -> Nat] /\ offset \in [Client -> Nat]
  BY <1>2, OffsetType DEF OInv, MInv
<1>5. StreamTypes'
  BY <1>2, StreamTypesKept DEF OInv
<1>6. LiveTrue'
  <2>1. \A k \in Newly : k \in Nat
    BY <1>3, LongerFacts DEF Newly
  <2>2. \A j, k \in Newly : ~(j < k)
    BY <1>3, <2>1
  <2> QED  BY <1>2, <1>3, <2>2, LiveGrows DEF OInv
<1>7. ReplayTrue'
  <2> SUFFICES ASSUME NEW c \in Client
               PROVE  /\ offset[c] <= offset'[c]
                      /\ load'[c] \in {"none", "asked", "flush", "read"} => offset'[c] = 0
                      /\ load'[c] \in {"delta", "done"} => Drained(c)'
    BY <1>2, <1>3, <1>4, ReplayGrows DEF OInv
  <2>1. load'[c] \in {"delta", "done"} => Drained(c)'
    <3>1. load'[c] \in {"delta", "done"} => Drained(c)
      BY <1>2 DEF OInv, ReplayTrue
    <3>2. \A k \in DOMAIN gateway' :
            \/ k \in Newly /\ ~For(c, gateway'[k])
            \/ k \in DOMAIN gateway /\ gateway'[k] = gateway[k]
      BY <1>3 DEF Longer, Newly
    <3> QED  BY <3>1, <3>2 DEF Drained, For
  <2> QED  BY <1>2, <1>4, <2>1 DEF OInv, ReplayTrue
<1>8. LateTrue'
  <2>1. \A c \in Client, k \in DOMAIN gateway :
          gateway[k].seq < offset[c] \/ ~(gateway[k].seq < offset'[c])
    BY <1>2
  <2> QED  BY <1>2, <1>3, <2>1, LateGrows DEF OInv
<1>9. GotTrue'
  <2>1. \A c \in Client : offset[c] <= offset'[c]
    BY <1>2, <1>4
  <2>2. \A k \in Newly : IsLive(gateway'[k]) => Passed <= gateway'[k].seq
    BY <1>3
  <2> QED  BY <1>2, <1>3, <1>4, <2>1, <2>2, GotGrows DEF OInv
<1>10. InOrder'
  BY <1>2, InOrderKept DEF OInv
<1> QED  BY <1>1, <1>5, <1>6, <1>7, <1>8, <1>9, <1>10 DEF OInv

LEMMA AddReplay ==
  ASSUME MInv, NEW c \in Client, ReplayTo(c), emitted' = emitted
  PROVE  /\ Longer
         /\ \A k \in Newly : For(c, gateway'[k])
         /\ \A k \in Newly : \A d \in Client : For(d, gateway'[k]) =>
              /\ d = c /\ offset[c] <= gateway'[k].seq /\ gateway'[k].seq < offset'[c]
              /\ \A j \in Newly : j < k => gateway'[j].seq < gateway'[k].seq
         /\ written' # offset[c] => Newly # {}
         /\ offset'[c] = written' /\ offset[c] <= offset'[c] /\ offset' \in [Client -> Nat]
         /\ \A d \in Client \ {c} : offset'[d] = offset[d]
<1> DEFINE l == Len(gateway)
           n == written' - offset[c]
<1>1. /\ gateway \in Seq(Message) /\ gateway' \in Seq(Message)
      /\ n \in Nat /\ offset[c] \in Nat /\ l \in Nat /\ Len(gateway') = l + n
      /\ \A k \in 1..l : gateway'[k] = gateway[k]
      /\ \A k \in (l + 1)..(l + n) : gateway'[k] = Replay(c, offset[c] + (k - l) - 1)
  BY ReplayPositions DEF MInv
<1>2. written' \in Nat /\ offset \in [Client -> Nat] /\ offset' = [offset EXCEPT ![c] = written']
  <2>1. written \in Nat /\ emitted \in Nat
    BY NumbersTrue, CapAssumption DEF MInv
  <2> QED  BY <2>1, OffsetType DEF MInv, ReplayTo
<1>3. offset'[c] = written' /\ \A d \in Client \ {c} : offset'[d] = offset[d]
  BY <1>2
<1> HIDE DEF l
<1>4. DOMAIN gateway = 1..l /\ DOMAIN gateway' = 1..(l + n) /\ Newly = (l + 1)..(l + n)
  <2>1. DOMAIN gateway = 1..l /\ DOMAIN gateway' = 1..(l + n)
    BY <1>1 DEF l
  <2> QED  BY <1>1, <2>1 DEF Newly
<1>5. Longer
  BY <1>1, <1>4 DEF Longer, l
<1>6. \A k \in Newly : gateway'[k] = Replay(c, offset[c] + (k - l) - 1)
  BY <1>1, <1>4
<1>7. \A k \in Newly : /\ gateway'[k].kind = "replay" /\ gateway'[k].to = c
                       /\ gateway'[k].seq = offset[c] + (k - l) - 1
  BY <1>6, ReplayFields
<1>8. ASSUME NEW k \in Newly
      PROVE  /\ offset[c] <= gateway'[k].seq /\ gateway'[k].seq < offset'[c]
             /\ \A j \in Newly : j < k => gateway'[j].seq < gateway'[k].seq
  <2>1. /\ gateway'[k].seq = offset[c] + (k - l) - 1
        /\ \A j \in Newly : gateway'[j].seq = offset[c] + (j - l) - 1
    BY <1>7
  <2>2. written' = offset[c] + n
    BY <1>1, <1>2
  <2>3. /\ offset[c] \in Nat /\ l \in Nat /\ n \in Nat /\ offset'[c] = written'
        /\ k \in (l + 1)..(l + n) /\ Newly = (l + 1)..(l + n)
    BY <1>1, <1>2, <1>3, <1>4 DEF l
  <2> HIDE DEF n
  <2> QED  BY <2>1, <2>2, <2>3
<1>9. written' # offset[c] => Newly # {}
  <2>1. ASSUME written' # offset[c] PROVE l + 1 \in Newly
    <3>1. n # 0
      BY <1>1, <1>2, <2>1
    <3> HIDE DEF n
    <3> QED  BY <3>1, <1>1, <1>4
  <2> QED  BY <2>1
<1>10. offset[c] <= offset'[c] /\ offset' \in [Client -> Nat]
  BY <1>1, <1>2, <1>3
<1>11. \A k \in Newly : \A d \in Client : For(d, gateway'[k]) <=> d = c
  BY <1>7 DEF For
<1> HIDE DEF n
<1> QED  BY <1>3, <1>5, <1>8, <1>9, <1>10, <1>11

(* A load replays from where it has come to, and only behind its own        *)
(* replays; what it had read of the live events stays followed.             *)
LEMMA OLoadStep == ASSUME OInv, NEW c \in Client, LoadStep(c) PROVE OInv'
<1>1. MInv'
  BY MNext DEF OInv, Next, Progress
<1>2. /\ UNCHANGED leaderVars /\ UNCHANGED sessionVars /\ late' = late
      /\ cutoff' = cutoff /\ view' = view /\ spilled' = spilled
      /\ pending' = pending /\ buffer' = buffer /\ emitted' = emitted /\ Passed' = Passed
  BY DEF LoadStep, CloseGate, FlushLog, FailLoad, Snapshot, FlushAgain, Delta, OpenGate,
         leaderVars, sessionVars, gateHistory, Passed
<1>3. /\ load \in [Client -> Stages] /\ load[c] \notin {"none", "done"}
      /\ \A d \in Client \ {c} : load'[d] = load[d]
      /\ \/ /\ gateway' = gateway /\ offset' = offset
            /\ \/ load[c] \in {"asked", "flush"} /\ load'[c] \in {"flush", "read"}
               \/ load'[c] \in {"open", "answer"}
               \/ load'[c] = "delta" /\ Drained(c)
         \/ /\ ReplayTo(c)
            /\ \/ load[c] = "read" /\ load'[c] = "drain"
               \/ load[c] = "delta" /\ load'[c] = "open"
  <2>1. load \in [Client -> Stages]
    BY DEF OInv, MInv, GInv
  <2> QED  BY <2>1 DEF LoadStep, CloseGate, FlushLog, FailLoad, Snapshot, FlushAgain, Delta,
                       OpenGate, Go, Stages, Shutting
<1>4. offset \in [Client -> Nat] /\ offset' \in [Client -> Nat] /\ Passed \in Nat
  <2>1. offset \in [Client -> Nat] /\ Passed \in Nat
    BY OffsetType, PassedType DEF OInv, MInv
  <2> QED  BY <2>1, <1>2, <1>3, AddReplay DEF OInv
<1>5. /\ Longer
      /\ \A k \in Newly : For(c, gateway'[k])
      /\ \A k \in Newly : \A d \in Client : For(d, gateway'[k]) =>
           /\ d = c /\ offset[c] <= gateway'[k].seq /\ gateway'[k].seq < offset'[c]
           /\ \A j \in Newly : j < k => gateway'[j].seq < gateway'[k].seq
      /\ \A d \in Client : offset[d] <= offset'[d]
      /\ \A d \in Client \ {c} : offset'[d] = offset[d]
      /\ offset'[c] # offset[c] => Newly # {}
  <2>1. CASE gateway' = gateway /\ offset' = offset
    BY <2>1, <1>4, AddNone DEF OInv
  <2>2. CASE ReplayTo(c)
    BY <2>2, <1>2, <1>4, AddReplay DEF OInv
  <2> QED  BY <2>1, <2>2, <1>3
<1>6. \A k \in Newly : ~IsLive(gateway'[k])
  BY <1>5 DEF For, IsLive
<1>7. StreamTypes' /\ InOrder'
  BY <1>2, StreamTypesKept, InOrderKept DEF OInv
<1>8. LiveTrue'
  BY <1>2, <1>4, <1>5, <1>6, LiveGrows DEF OInv
<1>9. ReplayTrue'
  <2>1. ASSUME NEW d \in Client
        PROVE  /\ load'[d] \in {"none", "asked", "flush", "read"} => offset'[d] = 0
               /\ load'[d] \in {"delta", "done"} => Drained(d)'
    <3>1. /\ load[d] \in {"none", "asked", "flush", "read"} => offset[d] = 0
          /\ load[d] \in {"delta", "done"} => Drained(d)
      BY DEF OInv, ReplayTrue
    <3>2. CASE d # c
      <4>1. \A k \in DOMAIN gateway' : \/ ~For(d, gateway'[k])
                                       \/ k \in DOMAIN gateway /\ gateway'[k] = gateway[k]
        BY <1>5, <3>2 DEF Longer, Newly
      <4> QED  BY <1>3, <1>5, <3>1, <3>2, <4>1 DEF Drained, For
    <3>3. CASE d = c
      BY <1>3, <3>1, <3>3 DEF Drained
    <3> QED  BY <3>2, <3>3
  <2> QED  BY <2>1, <1>2, <1>4, <1>5, ReplayGrows DEF OInv
<1>10. LateTrue'
  <2>1. ASSUME NEW d \in Client, NEW k \in DOMAIN gateway
        PROVE  \/ gateway[k].seq < offset[d] \/ ~(gateway[k].seq < offset'[d])
               \/ \E j \in Newly : For(d, gateway'[j])
    BY <1>5
  <2> QED  BY <2>1, <1>2, <1>5, <1>6, LateGrows DEF OInv
<1>11. GotTrue'
  <2>1. \A d \in Client : load'[d] = "done" => load[d] = "done"
    BY <1>3
  <2> QED  BY <2>1, <1>2, <1>4, <1>5, <1>6, GotGrows DEF OInv
<1> QED  BY <1>1, <1>7, <1>8, <1>9, <1>10, <1>11 DEF OInv

-----------------------------------------------------------------------------
(* The leader takes the first message.                                      *)

Shorter == gateway # <<>> /\ gateway' = Tail(gateway)

LEMMA TailFacts ==
  ASSUME MInv, Shorter
  PROVE  /\ 1 \in DOMAIN gateway /\ Head(gateway) = gateway[1] /\ Head(gateway) \in Message
         /\ \A k \in DOMAIN gateway : k \in Nat /\ gateway[k] \in Message
         /\ \A k \in DOMAIN gateway' :
              /\ k \in Nat /\ 1 < k + 1 /\ k + 1 \in DOMAIN gateway
              /\ gateway'[k] = gateway[k + 1]
         /\ \A k \in DOMAIN gateway : k # 1 =>
              k - 1 \in DOMAIN gateway' /\ gateway'[k - 1] = gateway[k]
<1>1. gateway \in Seq(Message) /\ gateway # <<>> /\ gateway' = Tail(gateway)
  BY DEF MInv, AttachTypes, Shorter
<1>2. /\ Len(gateway) \in Nat /\ Len(gateway) > 0
      /\ DOMAIN gateway = 1..Len(gateway) /\ DOMAIN gateway' = 1..(Len(gateway) - 1)
      /\ \A k \in 1..(Len(gateway) - 1) : gateway'[k] = gateway[k + 1]
      /\ \A k \in DOMAIN gateway : gateway[k] \in Message
      /\ Head(gateway) = gateway[1]
  BY <1>1
<1> QED  BY <1>2

LEMMA LiveRoutes ==
  ASSUME OInv, Shorter
  PROVE  /\ Ascend(gateway')
         /\ \A k \in DOMAIN gateway' : IsLive(gateway'[k]) =>
              /\ gateway'[k].seq < Passed
              /\ IsLive(Head(gateway)) => Head(gateway).seq < gateway'[k].seq
<1>1. Ascend(gateway) /\ \A k \in DOMAIN gateway : IsLive(gateway[k]) => gateway[k].seq < Passed
  BY DEF OInv, LiveTrue
<1>2. /\ 1 \in DOMAIN gateway /\ Head(gateway) = gateway[1]
      /\ \A k \in DOMAIN gateway' :
           /\ k \in Nat /\ 1 < k + 1 /\ k + 1 \in DOMAIN gateway
           /\ gateway'[k] = gateway[k + 1]
  BY TailFacts DEF OInv
<1>3. \A j, k \in DOMAIN gateway' : j < k => j + 1 < k + 1
  BY <1>2
<1> QED  BY <1>1, <1>2, <1>3 DEF Ascend

LEMMA ReplayRoutes ==
  ASSUME OInv, Shorter, NEW c \in Client
  PROVE  /\ Drained(c) => Drained(c)'
         /\ \A k \in DOMAIN gateway' : For(c, gateway'[k]) =>
              /\ cutoff[c] < gateway'[k].seq /\ gateway'[k].seq < offset[c]
              /\ For(c, Head(gateway)) => Head(gateway).seq < gateway'[k].seq
         /\ \A j, k \in DOMAIN gateway' :
              j < k /\ For(c, gateway'[j]) /\ For(c, gateway'[k])
                => gateway'[j].seq < gateway'[k].seq
<1>1. /\ \A k \in DOMAIN gateway : For(c, gateway[k]) => /\ cutoff[c] < gateway[k].seq
                                                         /\ gateway[k].seq < offset[c]
      /\ \A j, k \in DOMAIN gateway :
           j < k /\ For(c, gateway[j]) /\ For(c, gateway[k]) => gateway[j].seq < gateway[k].seq
  BY DEF OInv, ReplayTrue
<1>2. /\ 1 \in DOMAIN gateway /\ Head(gateway) = gateway[1]
      /\ \A k \in DOMAIN gateway' :
           /\ k \in Nat /\ 1 < k + 1 /\ k + 1 \in DOMAIN gateway
           /\ gateway'[k] = gateway[k + 1]
  BY TailFacts DEF OInv
<1>3. \A j, k \in DOMAIN gateway' : j < k => j + 1 < k + 1
  BY <1>2
<1>4. Drained(c) => Drained(c)'
  BY <1>2 DEF Drained
<1> QED  BY <1>1, <1>2, <1>3, <1>4

LEMMA LateRoutes == ASSUME OInv, Shorter, UNCHANGED <<late, offset>> PROVE LateTrue'
<1> SUFFICES ASSUME NEW c \in Client, NEW k \in DOMAIN gateway', IsLive(gateway'[k]),
                    gateway'[k].seq \notin late, gateway'[k].seq < offset[c]
             PROVE  \E j \in DOMAIN gateway' : k < j /\ For(c, gateway'[j])
  BY DEF LateTrue
<1>1. /\ k \in Nat /\ k + 1 \in DOMAIN gateway /\ gateway'[k] = gateway[k + 1]
      /\ \A j \in DOMAIN gateway : j \in Nat
      /\ \A j \in DOMAIN gateway : j # 1 =>
           j - 1 \in DOMAIN gateway' /\ gateway'[j - 1] = gateway[j]
  BY TailFacts DEF OInv
<1>2. PICK j \in DOMAIN gateway : k + 1 < j /\ For(c, gateway[j])
  BY <1>1 DEF OInv, LateTrue
<1>3. j # 1 /\ k < j - 1
  BY <1>1, <1>2
<1> QED  BY <1>1, <1>2, <1>3

LEMMA ShownGot ==
  ASSUME NEW v, IsView(v), NEW m \in Message
  PROVE  Shown(v, m).got = IF m.kind \in {"live", "replay"} THEN Append(v.got, m.seq) ELSE v.got
<1>1. v = [got |-> v.got, open |-> v.open]
  BY DEF IsView
<1>2. CASE m.kind \in {"live", "replay"}
  <2>1. Shown(v, m) = [got |-> Append(v.got, m.seq), open |-> v.open]
    BY <1>1, <1>2 DEF Shown
  <2> QED  BY <2>1, <1>2
<1>3. CASE ~(m.kind \in {"live", "replay"})
  <2>1. Shown(v, m) = [got |-> v.got, open |-> Marked(v.open, m)]
    BY <1>1, <1>3 DEF Shown
  <2> QED  BY <2>1, <1>3
<1> QED  BY <1>2, <1>3

(* A list of events with one more.                                          *)
LEMMA GotMore ==
  ASSUME NEW got \in Seq(Event), NEW e \in Event
  PROVE  /\ Append(got, e) \in Seq(Event) /\ Len(Append(got, e)) = Len(got) + 1
         /\ Len(got) \in Nat /\ DOMAIN got = 1..Len(got)
         /\ DOMAIN Append(got, e) = 1..(Len(got) + 1)
         /\ \A k \in DOMAIN got : Append(got, e)[k] = got[k]
         /\ Append(got, e)[Len(got) + 1] = e
OBVIOUS

Orderly(got, L) == \A j, k \in DOMAIN got : j < k => got[j] < got[k] \/ got[k] \in L

LEMMA OrderlyMeans ==
  ASSUME NEW got \in Seq(Event), NEW L
  PROVE  Orderly(got, L) <=>
           \A k \in 2..Len(got) : \A j \in 1..(k - 1) : got[j] < got[k] \/ got[k] \in L
<1>1. Len(got) \in Nat /\ DOMAIN got = 1..Len(got)
  OBVIOUS
<1>2. ASSUME NEW j, NEW k
      PROVE  (j \in DOMAIN got /\ k \in DOMAIN got /\ j < k)
               <=> (k \in 2..Len(got) /\ j \in 1..(k - 1))
  BY <1>1
<1> QED  BY <1>1, <1>2 DEF Orderly

LEMMA OrderlyMore ==
  ASSUME NEW got \in Seq(Event), NEW e \in Event, NEW L, Orderly(got, L),
         \A k \in DOMAIN got : got[k] < e \/ e \in L
  PROVE  Orderly(Append(got, e), L)
<1>1. /\ Len(got) \in Nat /\ DOMAIN got = 1..Len(got)
      /\ DOMAIN Append(got, e) = 1..(Len(got) + 1)
      /\ \A k \in DOMAIN got : Append(got, e)[k] = got[k]
      /\ Append(got, e)[Len(got) + 1] = e
  BY GotMore
<1> DEFINE more == Append(got, e)
<1> HIDE DEF more
<1> SUFFICES ASSUME NEW j \in DOMAIN more, NEW k \in DOMAIN more, j < k
             PROVE  more[j] < more[k] \/ more[k] \in L
  BY DEF Orderly, more
<1>2. j \in DOMAIN got
  BY <1>1 DEF more
<1>3. CASE k \in DOMAIN got
  BY <1>1, <1>2, <1>3 DEF more, Orderly
<1>4. CASE k = Len(got) + 1
  BY <1>1, <1>2, <1>4 DEF more
<1> QED  BY <1>1, <1>3, <1>4 DEF more

LEMMA InOrderMeans ==
  ASSUME \A c \in Client : view[c].got \in Seq(Event)
  PROVE  InOrder <=> \A c \in Client \ spilled : Orderly(view[c].got, late)
BY OrderlyMeans DEF InOrder

LEMMA InOrderNext ==
  ASSUME StreamTypes', \A c \in Client \ spilled' : Orderly(view'[c].got, late')
  PROVE  InOrder'
BY OrderlyMeans DEF InOrder, StreamTypes

LEMMA Maximum ==
  ASSUME NEW x \in Int, NEW y \in Int, x < y
  PROVE  Max({x, y}) = y
<1>1. y \in {x, y} /\ \A z \in {x, y} : y >= z
  OBVIOUS
<1>2. \A w \in {x, y} : (\A z \in {x, y} : w >= z) => w = y
  OBVIOUS
<1> QED  BY <1>1, <1>2 DEF Max

(* A replayed event reaches the client it is for while its load is pending, *)
(* and is the greatest it has got.                                          *)
LEMMA OUnicast ==
  ASSUME OInv, Route, Head(gateway).kind = "replay"
  PROVE  StreamTypes' /\ LiveTrue' /\ ReplayTrue' /\ GotTrue' /\ InOrder'
<1> DEFINE m == Head(gateway)
           c == m.to
<1>1. /\ Shorter /\ Unicast(m)
      /\ UNCHANGED <<load, offset, conn, pending, subscribers, late, emitted, emitting>>
      /\ UNCHANGED <<buffer, modals, spilled>>
  BY DEF Route, Unicast, agentVars, sessionVars, gateHistory, Shorter
<1>2. m \in Message /\ 1 \in DOMAIN gateway /\ m = gateway[1]
  BY <1>1, TailFacts DEF OInv
<1>3. c \in Client /\ For(c, m) /\ m.seq \in Event
  BY <1>2, Fields
<1>4. /\ cutoff[c] < m.seq /\ m.seq < offset[c] /\ ~Drained(c) /\ load[c] # "done"
  BY <1>2, <1>3 DEF OInv, ReplayTrue, Drained, For
<1>5. /\ cutoff \in [Client -> Event \cup {NoCutoff}]
      /\ \A d \in Client : view[d].got \in Seq(Event)
      /\ \A d \in Client : IsView(view[d]) /\ view = [e \in Client |-> view[e]]
      /\ \A d \in Client \ spilled : Orderly(view[d].got, late)
  BY InOrderMeans DEF OInv, StreamTypes, MInv, AttachTypes
<1>6. cutoff[c] \in Int /\ m.seq \in Int /\ Passed' = Passed
  <2>1. cutoff[c] \in Int /\ m.seq \in Int
    BY <1>3, EventIsNumber, CutoffType DEF OInv
  <2>2. Passed' = Passed
    BY <1>1 DEF Passed
  <2> QED  BY <2>1, <2>2
<1>7. \/ cutoff' = cutoff /\ view' = view /\ conn[c] # "here"
      \/ /\ cutoff' = [cutoff EXCEPT ![c] = m.seq] /\ conn[c] = "here"
         /\ view' = [view EXCEPT ![c] = Shown(view[c], m)]
  <2>1. Max({cutoff[c], m.seq}) = m.seq
    BY <1>4, <1>6, Maximum
  <2> QED  BY <1>1, <2>1 DEF Unicast
<1>8. Shown(view[c], m).got = Append(view[c].got, m.seq)
  BY <1>2, <1>3, <1>5, ShownGot DEF For
<1> HIDE DEF m, c
<1>9. ASSUME NEW d \in Client, d # c \/ conn[c] # "here"
      PROVE  cutoff'[d] = cutoff[d] /\ view'[d] = view[d]
  BY <1>3, <1>5, <1>7, <1>9
<1>10. ASSUME conn[c] = "here"
       PROVE  cutoff'[c] = m.seq /\ view'[c].got = Append(view[c].got, m.seq)
  BY <1>3, <1>5, <1>7, <1>8, <1>10
<1>11. StreamTypes'
  <2>1. cutoff' \in [Client -> Event \cup {NoCutoff}]
    BY <1>3, <1>5, <1>7
  <2>2. ASSUME NEW d \in Client PROVE view'[d].got \in Seq(Event)
    <3>1. CASE d = c /\ conn[c] = "here"
      <4>1. view[c].got \in Seq(Event) /\ m.seq \in Event
        BY <1>3, <1>5
      <4> QED  BY <1>10, <3>1, <4>1, GotMore
    <3>2. CASE d # c \/ conn[c] # "here"
      BY <3>2, <1>5, <1>9
    <3> QED  BY <3>1, <3>2
  <2> QED  BY <2>1, <2>2 DEF StreamTypes
<1>12. LiveTrue'
  <2>1. Ascend(gateway') /\ \A k \in DOMAIN gateway' :
          IsLive(gateway'[k]) => gateway'[k].seq < Passed'
    BY <1>1, <1>6, LiveRoutes
  <2>2. \A k \in DOMAIN gateway' : k + 1 \in DOMAIN gateway /\ gateway'[k] = gateway[k + 1]
    BY <1>1, TailFacts DEF OInv
  <2>3. ASSUME NEW d \in pending'
        PROVE  /\ Ascend(buffer'[d])
               /\ \A j \in DOMAIN buffer'[d] : IsLive(buffer'[d][j]) =>
                    /\ buffer'[d][j].seq < Passed'
                    /\ \A k \in DOMAIN gateway' :
                         IsLive(gateway'[k]) => buffer'[d][j].seq < gateway'[k].seq
    BY <1>1, <1>6, <2>2 DEF OInv, LiveTrue
  <2> QED  BY <2>1, <2>3 DEF LiveTrue
<1>13. ReplayTrue'
  <2> SUFFICES ASSUME NEW d \in Client
               PROVE  /\ load'[d] \in {"none", "asked", "flush", "read"} => offset'[d] = 0
                      /\ load'[d] \in {"delta", "done"} => Drained(d)'
                      /\ \A k \in DOMAIN gateway' : For(d, gateway'[k]) =>
                           cutoff'[d] < gateway'[k].seq /\ gateway'[k].seq < offset'[d]
                      /\ \A j, k \in DOMAIN gateway' :
                           j < k /\ For(d, gateway'[j]) /\ For(d, gateway'[k])
                             => gateway'[j].seq < gateway'[k].seq
                      /\ cutoff'[d] < offset'[d]
    BY DEF ReplayTrue
  <2>1. /\ load[d] \in {"none", "asked", "flush", "read"} => offset[d] = 0
        /\ load[d] \in {"delta", "done"} => Drained(d)
        /\ cutoff[d] < offset[d]
    BY DEF OInv, ReplayTrue
  <2>2. /\ Drained(d) => Drained(d)'
        /\ \A k \in DOMAIN gateway' : For(d, gateway'[k]) =>
             /\ cutoff[d] < gateway'[k].seq /\ gateway'[k].seq < offset[d]
             /\ For(d, m) => m.seq < gateway'[k].seq
        /\ \A j, k \in DOMAIN gateway' :
             j < k /\ For(d, gateway'[j]) /\ For(d, gateway'[k])
               => gateway'[j].seq < gateway'[k].seq
    BY <1>1, ReplayRoutes DEF m
  <2>3. CASE d = c /\ conn[c] = "here"
    BY <2>1, <2>2, <2>3, <1>1, <1>3, <1>4, <1>10
  <2>4. CASE d # c \/ conn[c] # "here"
    BY <2>1, <2>2, <2>4, <1>1, <1>9
  <2> QED  BY <2>3, <2>4
<1>14. conn[c] = "here" => c \in pending
  BY <1>3, <1>4 DEF OInv, MInv, ViewsTrue
<1>15. ASSUME conn[c] = "here", c \notin spilled
       PROVE  \A k \in DOMAIN view[c].got : /\ view[c].got[k] < m.seq
                                            /\ view[c].got[k] <= cutoff[c]
  <2> SUFFICES ASSUME NEW k \in DOMAIN view[c].got
               PROVE  view[c].got[k] < m.seq /\ view[c].got[k] <= cutoff[c]
    OBVIOUS
  <2>1. view[c].got[k] <= cutoff[c]
    BY <1>3, <1>14, <1>15 DEF OInv, GotTrue
  <2>2. view[c].got[k] \in Event
    BY <1>3, <1>5
  <2>3. view[c].got[k] \in Int
    BY <2>2, EventIsNumber
  <2> QED  BY <2>1, <2>3, <1>4, <1>6
<1>16. GotTrue'
  <2> SUFFICES ASSUME NEW d \in Client \ spilled
               PROVE  /\ conn[d] # "here" => view'[d].got = <<>>
                      /\ d \in pending =>
                           \A k \in DOMAIN view'[d].got : view'[d].got[k] <= cutoff'[d]
                      /\ conn[d] = "here" /\ load[d] = "done" =>
                           \A k \in DOMAIN view'[d].got :
                             /\ view'[d].got[k] < Passed \/ view'[d].got[k] < offset[d]
                             /\ \A j \in DOMAIN gateway' : IsLive(gateway'[j]) =>
                                  \/ view'[d].got[k] < gateway'[j].seq
                                  \/ gateway'[j].seq \in late
    BY <1>1, <1>6 DEF GotTrue
  <2>1. CASE d = c /\ conn[c] = "here"
    <3>1. \A k \in DOMAIN Append(view[c].got, m.seq) :
            \/ k \in DOMAIN view[c].got /\ Append(view[c].got, m.seq)[k] = view[c].got[k]
            \/ Append(view[c].got, m.seq)[k] = m.seq
      BY <1>3, <1>5, GotMore
    <3>2. \A k \in DOMAIN view'[c].got : view'[c].got[k] <= m.seq
      <4>1. \A k \in DOMAIN view[c].got : view[c].got[k] <= m.seq
        <5> SUFFICES ASSUME NEW k \in DOMAIN view[c].got PROVE view[c].got[k] <= m.seq
          OBVIOUS
        <5>1. view[c].got[k] \in Event /\ view[c].got[k] < m.seq
          BY <1>3, <1>5, <1>15, <2>1
        <5>2. view[c].got[k] \in Int
          BY <5>1, EventIsNumber
        <5> QED  BY <5>1, <5>2, <1>6
      <4>2. m.seq <= m.seq
        BY <1>6
      <4>3. view'[c].got = Append(view[c].got, m.seq)
        BY <1>10, <2>1
      <4> QED  BY <3>1, <4>1, <4>2, <4>3
    <3> QED  BY <2>1, <3>2, <1>4, <1>10
  <2>2. CASE d # c \/ conn[c] # "here"
    <3>1. /\ conn[d] # "here" => view[d].got = <<>>
          /\ d \in pending => \A k \in DOMAIN view[d].got : view[d].got[k] <= cutoff[d]
          /\ conn[d] = "here" /\ load[d] = "done" =>
               \A k \in DOMAIN view[d].got :
                 /\ view[d].got[k] < Passed \/ view[d].got[k] < offset[d]
                 /\ \A j \in DOMAIN gateway : IsLive(gateway[j]) =>
                      view[d].got[k] < gateway[j].seq \/ gateway[j].seq \in late
      BY DEF OInv, GotTrue
    <3>2. \A k \in DOMAIN gateway' : k + 1 \in DOMAIN gateway /\ gateway'[k] = gateway[k + 1]
      BY <1>1, TailFacts DEF OInv
    <3> QED  BY <2>2, <3>1, <3>2, <1>9
  <2> QED  BY <2>1, <2>2
<1>17. InOrder'
  <2>1. ASSUME NEW d \in Client \ spilled
        PROVE  Orderly(view'[d].got, late)
    <3>1. CASE d = c /\ conn[c] = "here"
      <4>1. Orderly(Append(view[c].got, m.seq), late)
        BY <1>3, <1>5, <1>15, <3>1, <2>1, OrderlyMore
      <4> QED  BY <3>1, <4>1, <1>10
    <3>2. CASE d # c \/ conn[c] # "here"
      BY <3>2, <1>5, <1>9
    <3> QED  BY <3>1, <3>2
  <2> QED  BY <2>1, <1>1, <1>11, InOrderNext
<1> QED  BY <1>11, <1>12, <1>13, <1>16, <1>17

(* A live event follows what every client has got that is done, and what    *)
(* the buffer of every other holds.                                         *)
LEMMA OFanout ==
  ASSUME OInv, Route, Head(gateway).kind # "replay"
  PROVE  StreamTypes' /\ LiveTrue' /\ ReplayTrue' /\ GotTrue' /\ InOrder'
<1> DEFINE m == Head(gateway)
           held == {c \in pending : Len(buffer[c]) < Cap}
<1>1. /\ Shorter
      /\ UNCHANGED <<load, offset, conn, pending, subscribers, late, emitted, emitting>>
      /\ buffer' = [c \in Client |-> IF c \in held THEN Append(buffer[c], m) ELSE buffer[c]]
      /\ view' = [c \in Client |-> IF c \in subscribers \ held THEN Shown(view[c], m)
                                   ELSE view[c]]
      /\ spilled' = spilled \cup (pending \ held) /\ cutoff' = cutoff
  BY DEF Route, Fanout, agentVars, sessionVars, gateHistory, Shorter
<1>2. /\ m \in Message /\ 1 \in DOMAIN gateway /\ m = gateway[1] /\ m.kind # "replay"
      /\ \A c \in Client : ~For(c, m)
  BY <1>1, TailFacts DEF OInv, For
<1>3. /\ \A d \in Client : view[d].got \in Seq(Event) /\ IsView(view[d])
      /\ \A d \in Client \ spilled : Orderly(view[d].got, late)
      /\ buffer \in [Client -> Seq(Broadcast)] /\ held \subseteq pending
      /\ pending \subseteq subscribers /\ subscribers = {d \in Client : conn[d] = "here"}
  BY InOrderMeans DEF OInv, StreamTypes, MInv, AttachTypes
<1>4. Passed' = Passed
  BY <1>1 DEF Passed
<1>5. IsLive(m) => m.seq \in Event /\ m.seq \in Int
  BY <1>2, Fields, EventIsNumber
<1>6. m \in Broadcast
  BY <1>2, Kinds
<1>7. \A k \in DOMAIN gateway' : k + 1 \in DOMAIN gateway /\ gateway'[k] = gateway[k + 1]
  BY <1>1, TailFacts DEF OInv
<1>8. /\ Ascend(gateway')
      /\ \A k \in DOMAIN gateway' : IsLive(gateway'[k]) =>
           gateway'[k].seq < Passed /\ (IsLive(m) => m.seq < gateway'[k].seq)
  BY <1>1, LiveRoutes
<1> HIDE DEF m, held
<1>9. ASSUME NEW d \in Client \ spilled'
      PROVE  IF d \in subscribers \ pending /\ IsLive(m)
               THEN view'[d].got = Append(view[d].got, m.seq)
               ELSE view'[d].got = view[d].got
  <2>1. d \in pending => d \in held
    BY <1>1
  <2>2. Shown(view[d], m).got = IF m.kind \in {"live", "replay"} THEN Append(view[d].got, m.seq)
                                                             ELSE view[d].got
    BY <1>2, <1>3, ShownGot
  <2>3. CASE d \in subscribers \ pending
    <3>1. view'[d] = Shown(view[d], m)
      BY <1>1, <1>3, <2>3
    <3> QED  BY <1>2, <2>2, <2>3, <3>1 DEF IsLive
  <2>4. CASE d \notin subscribers \ pending
    <3>1. view'[d] = view[d]
      BY <1>1, <2>1, <2>4
    <3> QED  BY <2>4, <3>1
  <2> QED  BY <2>3, <2>4
<1>10. StreamTypes'
  <2>1. cutoff' \in [Client -> Event \cup {NoCutoff}]
    BY <1>1 DEF OInv, StreamTypes
  <2>2. ASSUME NEW d \in Client PROVE view'[d].got \in Seq(Event)
    <3>1. Shown(view[d], m).got
            = IF m.kind \in {"live", "replay"} THEN Append(view[d].got, m.seq)
                                               ELSE view[d].got
      BY <1>2, <1>3, ShownGot
    <3>2. Shown(view[d], m).got \in Seq(Event)
      BY <1>2, <1>3, <1>5, <3>1, GotMore DEF IsLive
    <3>3. view'[d] = Shown(view[d], m) \/ view'[d] = view[d]
      BY <1>1
    <3> QED  BY <1>3, <3>2, <3>3
  <2> QED  BY <2>1, <2>2 DEF StreamTypes
<1>11. LiveTrue'
  <2> SUFFICES ASSUME NEW d \in pending
               PROVE  /\ Ascend(buffer'[d])
                      /\ \A j \in DOMAIN buffer'[d] : IsLive(buffer'[d][j]) =>
                           /\ buffer'[d][j].seq < Passed
                           /\ \A k \in DOMAIN gateway' :
                                IsLive(gateway'[k]) => buffer'[d][j].seq < gateway'[k].seq
    <3>1. pending' = pending
      BY <1>1
    <3>2. Ascend(gateway)' /\ \A k \in DOMAIN gateway' : IsLive(gateway'[k]) =>
                                gateway'[k].seq < Passed'
      BY <1>4, <1>8 DEF Ascend
    <3> QED  BY <1>4, <3>1, <3>2 DEF LiveTrue, Ascend
  <2> DEFINE b == buffer[d]
             B == buffer'[d]
  <2>1. d \in Client /\ b \in Seq(Broadcast)
    BY <1>3
  <2>2. /\ Ascend(b)
        /\ \A j \in DOMAIN b : IsLive(b[j]) =>
             /\ b[j].seq < Passed
             /\ \A k \in DOMAIN gateway' : IsLive(gateway'[k]) => b[j].seq < gateway'[k].seq
             /\ IsLive(m) => b[j].seq < m.seq
    BY <1>2, <1>7 DEF OInv, LiveTrue
  <2>3. CASE d \in held
    <3>1. B = Append(b, m)
      BY <1>1, <2>1, <2>3
    <3>2. /\ Len(b) \in Nat /\ DOMAIN b = 1..Len(b) /\ DOMAIN B = 1..(Len(b) + 1)
          /\ \A k \in DOMAIN b : B[k] = b[k]
          /\ B[Len(b) + 1] = m
      BY <1>6, <2>1, <3>1
    <3> HIDE DEF b, B
    <3>3. Ascend(B)
      <4> SUFFICES ASSUME NEW j \in DOMAIN B, NEW k \in DOMAIN B, j < k,
                          IsLive(B[j]), IsLive(B[k])
                   PROVE  B[j].seq < B[k].seq
        BY DEF Ascend
      <4>1. j \in DOMAIN b /\ (k \in DOMAIN b \/ k = Len(b) + 1)
        BY <3>2
      <4> QED  BY <2>2, <3>2, <4>1 DEF Ascend
    <3>4. IsLive(m) => m.seq < Passed
      BY <1>2 DEF OInv, LiveTrue
    <3>5. \A j \in DOMAIN B : \/ j \in DOMAIN b /\ B[j] = b[j]
                              \/ B[j] = m
      BY <3>2
    <3>6. \A j \in DOMAIN B : IsLive(B[j]) =>
             /\ B[j].seq < Passed
             /\ \A k \in DOMAIN gateway' : IsLive(gateway'[k]) => B[j].seq < gateway'[k].seq
      BY <1>8, <2>2, <3>4, <3>5
    <3> QED  BY <3>3, <3>6 DEF B
  <2>4. CASE d \notin held
    <3>1. B = b
      BY <1>1, <2>1, <2>4
    <3> QED  BY <2>2, <3>1
  <2> QED  BY <2>3, <2>4
<1>12. ReplayTrue'
  <2> SUFFICES ASSUME NEW d \in Client
               PROVE  /\ load'[d] \in {"none", "asked", "flush", "read"} => offset'[d] = 0
                      /\ load'[d] \in {"delta", "done"} => Drained(d)'
                      /\ \A k \in DOMAIN gateway' : For(d, gateway'[k]) =>
                           cutoff'[d] < gateway'[k].seq /\ gateway'[k].seq < offset'[d]
                      /\ \A j, k \in DOMAIN gateway' :
                           j < k /\ For(d, gateway'[j]) /\ For(d, gateway'[k])
                             => gateway'[j].seq < gateway'[k].seq
                      /\ cutoff'[d] < offset'[d]
    BY DEF ReplayTrue
  <2>1. /\ load[d] \in {"none", "asked", "flush", "read"} => offset[d] = 0
        /\ load[d] \in {"delta", "done"} => Drained(d)
        /\ cutoff[d] < offset[d]
    BY DEF OInv, ReplayTrue
  <2>2. /\ Drained(d) => Drained(d)'
        /\ \A k \in DOMAIN gateway' : For(d, gateway'[k]) =>
             /\ cutoff[d] < gateway'[k].seq /\ gateway'[k].seq < offset[d]
        /\ \A j, k \in DOMAIN gateway' :
             j < k /\ For(d, gateway'[j]) /\ For(d, gateway'[k])
               => gateway'[j].seq < gateway'[k].seq
    BY <1>1, ReplayRoutes
  <2> QED  BY <1>1, <2>1, <2>2
<1>13. ASSUME NEW d \in Client \ spilled', d \in subscribers \ pending, IsLive(m)
       PROVE  /\ conn[d] = "here" /\ load[d] = "done"
              /\ \A k \in DOMAIN view[d].got : view[d].got[k] < m.seq \/ m.seq \in late
  <2>1. conn[d] = "here" /\ load[d] = "done" /\ d \notin spilled
    BY <1>1, <1>3, <1>13 DEF OInv, MInv, ViewsTrue
  <2> QED  BY <1>2, <1>13, <2>1 DEF OInv, GotTrue
<1>14. GotTrue'
  <2> SUFFICES ASSUME NEW d \in Client \ spilled'
               PROVE  /\ conn[d] # "here" => view'[d].got = <<>>
                      /\ d \in pending =>
                           \A k \in DOMAIN view'[d].got : view'[d].got[k] <= cutoff[d]
                      /\ conn[d] = "here" /\ load[d] = "done" =>
                           \A k \in DOMAIN view'[d].got :
                             /\ view'[d].got[k] < Passed \/ view'[d].got[k] < offset[d]
                             /\ \A j \in DOMAIN gateway' : IsLive(gateway'[j]) =>
                                  \/ view'[d].got[k] < gateway'[j].seq
                                  \/ gateway'[j].seq \in late
    BY <1>1, <1>4 DEF GotTrue
  <2>1. /\ conn[d] # "here" => view[d].got = <<>>
        /\ d \in pending => \A k \in DOMAIN view[d].got : view[d].got[k] <= cutoff[d]
        /\ conn[d] = "here" /\ load[d] = "done" =>
             \A k \in DOMAIN view[d].got :
               /\ view[d].got[k] < Passed \/ view[d].got[k] < offset[d]
               /\ \A j \in DOMAIN gateway : IsLive(gateway[j]) =>
                    view[d].got[k] < gateway[j].seq \/ gateway[j].seq \in late
    BY <1>1 DEF OInv, GotTrue
  <2>2. CASE d \in subscribers \ pending /\ IsLive(m)
    <3>1. view'[d].got = Append(view[d].got, m.seq)
      BY <1>9, <2>2
    <3>2. \A k \in DOMAIN view'[d].got :
            \/ k \in DOMAIN view[d].got /\ view'[d].got[k] = view[d].got[k]
            \/ view'[d].got[k] = m.seq
      BY <1>3, <1>5, <2>2, <3>1, GotMore
    <3>3. m.seq < Passed
      BY <1>2, <2>2 DEF OInv, LiveTrue
    <3>4. conn[d] = "here"
      BY <1>13, <2>2
    <3> QED  BY <1>7, <1>8, <2>1, <2>2, <3>2, <3>3, <3>4
  <2>3. CASE ~(d \in subscribers \ pending /\ IsLive(m))
    <3>1. view'[d].got = view[d].got
      BY <1>9, <2>3
    <3> QED  BY <1>7, <2>1, <3>1
  <2> QED  BY <2>2, <2>3
<1>15. InOrder'
  <2>1. ASSUME NEW d \in Client \ spilled'
        PROVE  Orderly(view'[d].got, late)
    <3>1. Orderly(view[d].got, late) /\ view[d].got \in Seq(Event)
      BY <1>1, <1>3
    <3>2. CASE d \in subscribers \ pending /\ IsLive(m)
      <4>1. Orderly(Append(view[d].got, m.seq), late)
        BY <1>5, <1>13, <3>1, <3>2, OrderlyMore
      <4> QED  BY <1>9, <3>2, <4>1
    <3>3. CASE ~(d \in subscribers \ pending /\ IsLive(m))
      <4>1. view'[d].got = view[d].got
        BY <1>9, <3>3
      <4> QED  BY <3>1, <4>1
    <3> QED  BY <3>2, <3>3
  <2> QED  BY <2>1, <1>1, <1>10, InOrderNext
<1> QED  BY <1>10, <1>11, <1>12, <1>14, <1>15

LEMMA ORoute == ASSUME OInv, Route PROVE OInv'
<1>1. MInv'
  BY MNext DEF OInv, Next, Progress
<1>2. LateTrue'
  BY LateRoutes DEF Route, Shorter, agentVars, gateHistory
<1> QED  BY <1>1, <1>2, OUnicast, OFanout DEF OInv

-----------------------------------------------------------------------------
(* A client comes, has its load answered, goes.                             *)

(* What a client has is in order if it was, or is new and is.               *)
LEMMA OnlyOne ==
  ASSUME OInv, NEW c \in Client, StreamTypes', late' = late,
         \A d \in Client \ {c} : view'[d] = view[d] /\ (d \in spilled' <=> d \in spilled),
         c \notin spilled' => Orderly(view'[c].got, late)
  PROVE  InOrder'
<1>1. \A d \in Client \ spilled : Orderly(view[d].got, late)
  BY InOrderMeans DEF OInv, StreamTypes
<1>2. \A d \in Client \ spilled' : Orderly(view'[d].got, late')
  BY <1>1
<1> QED  BY <1>2, InOrderNext

LEMMA ORequest == ASSUME OInv, NEW c \in Client, Request(c) PROVE OInv'
<1>1. MInv'
  BY MNext DEF OInv, Next
<1>2. /\ conn[c] = "away" /\ conn' = [conn EXCEPT ![c] = "here"]
      /\ pending' = pending \cup {c} /\ load' = [load EXCEPT ![c] = "asked"]
      /\ UNCHANGED <<gateway, offset, late, emitted, emitting, buffer, cutoff, view, spilled>>
  BY DEF Request, Go, agentVars, sessionVars, gateHistory
<1>3. /\ conn \in [Client -> Connection] /\ load \in [Client -> Stages] /\ load[c] = "none"
      /\ view[c] = Blank /\ buffer[c] = <<>>
  BY <1>2 DEF OInv, MInv, GInv, NoneEarly, ViewsTrue
<1>4. /\ load'[c] = "asked" /\ \A d \in Client \ {c} : load'[d] = load[d] /\ conn'[d] = conn[d]
      /\ Passed' = Passed
  BY <1>2, <1>3 DEF Passed
<1>5. StreamTypes'
  BY <1>2, StreamTypesKept DEF OInv
<1>6. LiveTrue'
  BY <1>2, <1>3, <1>4 DEF OInv, LiveTrue, Ascend
<1>7. \A d \in Client : Drained(d)' <=> Drained(d)
  BY <1>2 DEF Drained
<1>8. ReplayTrue'
  BY <1>2, <1>3, <1>4, <1>7 DEF OInv, ReplayTrue
<1>9. LateTrue'
  BY <1>2 DEF OInv, LateTrue
<1>10. GotTrue'
  <2> SUFFICES ASSUME NEW d \in Client \ spilled
               PROVE  /\ conn'[d] # "here" => view[d].got = <<>>
                      /\ d \in pending' =>
                           \A k \in DOMAIN view[d].got : view[d].got[k] <= cutoff[d]
                      /\ conn'[d] = "here" /\ load'[d] = "done" =>
                           \A k \in DOMAIN view[d].got :
                             /\ view[d].got[k] < Passed \/ view[d].got[k] < offset[d]
                             /\ \A j \in DOMAIN gateway : IsLive(gateway[j]) =>
                                  \/ view[d].got[k] < gateway[j].seq
                                  \/ gateway[j].seq \in late
    BY <1>2, <1>4 DEF GotTrue
  <2>1. CASE d = c
    BY <2>1, <1>3, <1>4 DEF Blank
  <2>2. CASE d # c
    BY <2>2, <1>2, <1>4 DEF OInv, GotTrue
  <2> QED  BY <2>1, <2>2
<1>11. InOrder'
  BY <1>2, InOrderKept DEF OInv
<1> QED  BY <1>1, <1>5, <1>6, <1>8, <1>9, <1>10, <1>11 DEF OInv

LEMMA ODisconnect == ASSUME OInv, NEW c \in Client, Disconnect(c) PROVE OInv'
<1>1. MInv'
  BY MNext DEF OInv, Next
<1>2. /\ conn' = [conn EXCEPT ![c] = "gone"] /\ pending' = pending \ {c}
      /\ buffer' = [buffer EXCEPT ![c] = <<>>] /\ cutoff' = [cutoff EXCEPT ![c] = NoCutoff]
      /\ view' = [view EXCEPT ![c] = Blank] /\ spilled' = spilled \ {c}
      /\ UNCHANGED <<load, gateway, offset, late, emitted, emitting>>
  BY DEF Disconnect, agentVars, sessionVars, gateHistory
<1>3. /\ conn \in [Client -> Connection] /\ buffer \in [Client -> Seq(Broadcast)]
      /\ view = [d \in Client |-> view[d]] /\ cutoff \in [Client -> Event \cup {NoCutoff}]
      /\ \A d \in Client : view[d].got \in Seq(Event)
  BY DEF OInv, MInv, GInv, AttachTypes, StreamTypes
<1>4. /\ conn'[c] = "gone" /\ view'[c].got = <<>> /\ cutoff'[c] = NoCutoff /\ c \notin pending'
      /\ \A d \in Client \ {c} : /\ conn'[d] = conn[d] /\ view'[d] = view[d]
                                 /\ cutoff'[d] = cutoff[d] /\ buffer'[d] = buffer[d]
                                 /\ d \in pending' <=> d \in pending
                                 /\ d \in spilled' <=> d \in spilled
      /\ Passed' = Passed
  BY <1>2, <1>3 DEF Passed, Blank
<1>5. StreamTypes'
  <2>1. cutoff' \in [Client -> Event \cup {NoCutoff}]
    BY <1>2, <1>3
  <2>2. ASSUME NEW d \in Client PROVE view'[d].got \in Seq(Event)
    <3>1. CASE d = c
      BY <3>1, <1>4
    <3>2. CASE d # c
      BY <3>2, <1>3, <1>4
    <3> QED  BY <3>1, <3>2
  <2> QED  BY <2>1, <2>2 DEF StreamTypes
<1>6. pending \subseteq Client /\ pending' \subseteq Client
  BY <1>2 DEF OInv, MInv, AttachTypes
<1>7. LiveTrue'
  BY <1>2, <1>4, <1>6 DEF OInv, LiveTrue
<1>8. ReplayTrue'
  <2>1. \A d \in Client : Drained(d)' <=> Drained(d)
    BY <1>2 DEF Drained
  <2>2. NoCutoff < offset[c]
    BY OffsetType DEF OInv, MInv, NoCutoff
  <2>3. \A k \in DOMAIN gateway : For(c, gateway[k]) => NoCutoff < gateway[k].seq
    <3> SUFFICES ASSUME NEW k \in DOMAIN gateway, For(c, gateway[k])
                 PROVE  NoCutoff < gateway[k].seq
      OBVIOUS
    <3>1. gateway[k] \in Message
      BY DEF OInv, MInv, AttachTypes
    <3>2. gateway[k].seq \in Event
      BY <3>1, Fields
    <3>3. gateway[k].seq \in Nat
      BY <3>2, EventIsNumber
    <3> QED  BY <3>3 DEF NoCutoff
  <2> QED  BY <1>2, <1>4, <2>1, <2>2, <2>3 DEF OInv, ReplayTrue
<1>9. LateTrue'
  BY <1>2 DEF OInv, LateTrue
<1>10. GotTrue'
  BY <1>2, <1>4 DEF OInv, GotTrue
<1>11. InOrder'
  BY <1>2, <1>4, <1>5, OnlyOne DEF Orderly
<1> QED  BY <1>1, <1>5, <1>7, <1>8, <1>9, <1>10, <1>11 DEF OInv

(* Of the buffer a client is sent what the replay has not reached, in order.*)
LEMMA NewerFacts ==
  ASSUME OInv, NEW c \in pending
  PROVE  LET events == [k \in DOMAIN Newer(c) |-> Newer(c)[k].seq]
         IN  /\ events \in Seq(Event)
             /\ \A k \in DOMAIN events :
                  /\ cutoff[c] < events[k]
                  /\ events[k] < Passed
                  /\ \A j \in DOMAIN gateway : IsLive(gateway[j]) => events[k] < gateway[j].seq
             /\ \A j, k \in DOMAIN events : j < k => events[j] < events[k]
<1> DEFINE new    == {Live(e) : e \in {d \in Event : d > cutoff[c]}}
           b      == buffer[c]
           n      == Newer(c)
           events == [k \in DOMAIN n |-> n[k].seq]
<1>1. c \in Client /\ b \in Seq(Broadcast) /\ cutoff[c] \in Int
  BY CutoffType DEF OInv, MInv, AttachTypes
<1>2. n = Keep(b, new)
  BY DEF Newer
<1>3. n \in Seq(Broadcast) /\ ToSet(n) = ToSet(b) \cap new
  BY <1>1, <1>2, KeepType, KeepContents
<1>4. ASSUME NEW m \in ToSet(b) \cap new
      PROVE  /\ m.seq \in Event /\ cutoff[c] < m.seq /\ m.seq < Passed
             /\ \A j \in DOMAIN gateway : IsLive(gateway[j]) => m.seq < gateway[j].seq
  <2>1. IsLive(m)
    BY <1>4 DEF Live, IsLive
  <2>2. m.seq \in Event /\ m.seq > cutoff[c]
    BY <1>4 DEF Live
  <2>3. PICK j \in DOMAIN b : m = b[j]
    BY <1>4 DEF ToSet
  <2>4. m.seq \in Int
    BY <2>2, EventIsNumber
  <2> QED  BY <1>1, <2>1, <2>2, <2>3, <2>4 DEF OInv, LiveTrue
<1>5. DOMAIN events = DOMAIN n /\ \A k \in DOMAIN n : events[k] = n[k].seq /\ n[k] \in ToSet(n)
  BY DEF ToSet
<1>6. ASSUME NEW j \in DOMAIN n, NEW k \in DOMAIN n, j < k
      PROVE  n[j].seq < n[k].seq
  <2> HIDE DEF n, new, b
  <2>0. \A s \in DOMAIN Keep(b, new) : \A t \in DOMAIN Keep(b, new) : s < t =>
          \E x, y \in DOMAIN b : x < y /\ Keep(b, new)[s] = b[x] /\ Keep(b, new)[t] = b[y]
    BY <1>1, KeepOrder
  <2>1. PICK x, y \in DOMAIN b : x < y /\ n[j] = b[x] /\ n[k] = b[y]
    BY <1>2, <1>6, <2>0
  <2>2. n[j] \in new /\ n[k] \in new
    BY <1>3, <1>5, <1>6
  <2>3. IsLive(n[j]) /\ IsLive(n[k])
    BY <2>2 DEF Live, IsLive, new
  <2> QED  BY <2>1, <2>3 DEF OInv, LiveTrue, Ascend, b
<1>7. Len(n) \in Nat /\ DOMAIN n = 1..Len(n)
  BY <1>3
<1>8. \A k \in DOMAIN n : events[k] \in Event
  BY <1>3, <1>4, <1>5
<1> HIDE DEF n, new, b
<1>9. events \in Seq(Event)
  BY <1>7, <1>8
<1> QED  BY <1>3, <1>4, <1>5, <1>6, <1>9 DEF n

LEMMA OrderlyJoined ==
  ASSUME NEW s \in Seq(Event), NEW t \in Seq(Event), NEW L, Orderly(s, L), Orderly(t, L),
         \A j \in DOMAIN s, k \in DOMAIN t : s[j] < t[k]
  PROVE  Orderly(s \o t, L)
<1> DEFINE more == s \o t
<1>1. /\ Len(s) \in Nat /\ Len(t) \in Nat /\ DOMAIN s = 1..Len(s) /\ DOMAIN t = 1..Len(t)
      /\ DOMAIN more = 1..(Len(s) + Len(t))
      /\ \A k \in DOMAIN more : more[k] = IF k <= Len(s) THEN s[k] ELSE t[k - Len(s)]
  OBVIOUS
<1> HIDE DEF more
<1> SUFFICES ASSUME NEW j \in DOMAIN more, NEW k \in DOMAIN more, j < k
             PROVE  more[j] < more[k] \/ more[k] \in L
  BY DEF Orderly, more
<1>2. CASE k <= Len(s)
  BY <1>1, <1>2 DEF Orderly
<1>3. CASE j <= Len(s) /\ ~(k <= Len(s))
  BY <1>1, <1>3
<1>4. CASE ~(j <= Len(s))
  <2>1. /\ j - Len(s) \in DOMAIN t /\ k - Len(s) \in DOMAIN t /\ j - Len(s) < k - Len(s)
        /\ more[j] = t[j - Len(s)] /\ more[k] = t[k - Len(s)]
    BY <1>1, <1>4
  <2> QED  BY <2>1 DEF Orderly
<1> QED  BY <1>1, <1>2, <1>3, <1>4

(* The answer sends what the buffer has beyond the replay.  No live event   *)
(* on its way precedes it, because none is followed by a replay any more.   *)
LEMMA OAnswer == ASSUME OInv, NEW c \in Client, Answer(c) PROVE OInv'
<1> DEFINE events == [k \in DOMAIN Newer(c) |-> Newer(c)[k].seq]
<1>1. MInv'
  BY MNext DEF OInv, Next, Progress
<1>2. /\ load[c] = "answer" /\ Drained(c) /\ load' = [load EXCEPT ![c] = "done"]
      /\ pending' = pending \ {c} /\ buffer' = [buffer EXCEPT ![c] = <<>>]
      /\ cutoff' = [cutoff EXCEPT ![c] = NoCutoff]
      /\ UNCHANGED <<conn, gateway, offset, late, emitted, emitting, spilled>>
  BY DEF Answer, Go, agentVars, sessionVars, gateHistory
<1>3. /\ load \in [Client -> Stages] /\ buffer \in [Client -> Seq(Broadcast)]
      /\ view = [d \in Client |-> view[d]] /\ cutoff \in [Client -> Event \cup {NoCutoff}]
      /\ \A d \in Client : view[d].got \in Seq(Event)
      /\ \A d \in Client \ spilled : Orderly(view[d].got, late)
      /\ pending \subseteq Client
      /\ conn[c] = "here" <=> c \in pending
  <2>1. /\ load \in [Client -> Stages] /\ buffer \in [Client -> Seq(Broadcast)]
        /\ view = [d \in Client |-> view[d]] /\ cutoff \in [Client -> Event \cup {NoCutoff}]
        /\ \A d \in Client : view[d].got \in Seq(Event)
        /\ pending \subseteq Client /\ pending \subseteq {d \in Client : conn[d] = "here"}
    BY DEF OInv, MInv, GInv, AttachTypes, StreamTypes
  <2>2. conn[c] = "here" => c \in pending
    BY <1>2 DEF OInv, MInv, ViewsTrue
  <2> QED  BY <2>1, <2>2, InOrderMeans DEF OInv
<1>4. /\ load'[c] = "done" /\ cutoff'[c] = NoCutoff /\ c \notin pending'
      /\ \A d \in Client \ {c} : /\ load'[d] = load[d] /\ cutoff'[d] = cutoff[d]
                                 /\ buffer'[d] = buffer[d] /\ d \in pending' <=> d \in pending
      /\ Passed' = Passed
  BY <1>2, <1>3 DEF Passed
<1>5. /\ \A d \in Client \ {c} : view'[d] = view[d]
      /\ IF conn[c] = "here" THEN view'[c].got = view[c].got \o events ELSE view'[c] = view[c]
  <2>1. CASE conn[c] = "here"
    <3> DEFINE w == [got  |-> view[c].got \o events,
                     open |-> LeftOpen(view[c].open, buffer[c]) \cup modals]
    <3>1. view' = [view EXCEPT ![c] = w]
      BY <2>1 DEF Answer
    <3>2. w.got = view[c].got \o events
      OBVIOUS
    <3> HIDE DEF w
    <3> QED  BY <2>1, <3>1, <3>2, <1>3
  <2>2. CASE conn[c] # "here"
    BY <2>2 DEF Answer
  <2> QED  BY <2>1, <2>2
<1>6. ASSUME c \in pending
      PROVE  /\ events \in Seq(Event)
             /\ \A k \in DOMAIN events :
                  /\ cutoff[c] < events[k]
                  /\ events[k] < Passed
                  /\ \A j \in DOMAIN gateway : IsLive(gateway[j]) => events[k] < gateway[j].seq
             /\ \A j, k \in DOMAIN events : j < k => events[j] < events[k]
  BY <1>6, NewerFacts
<1> HIDE DEF events
<1>7. StreamTypes'
  <2>1. cutoff' \in [Client -> Event \cup {NoCutoff}]
    BY <1>2, <1>3
  <2>2. ASSUME NEW d \in Client PROVE view'[d].got \in Seq(Event)
    <3>1. CASE d = c /\ conn[c] = "here"
      <4>1. view[c].got \o events \in Seq(Event)
        BY <1>3, <1>6, <3>1
      <4> QED  BY <1>5, <3>1, <4>1
    <3>2. CASE d # c \/ conn[c] # "here"
      BY <1>3, <1>5, <3>2
    <3> QED  BY <3>1, <3>2
  <2> QED  BY <2>1, <2>2 DEF StreamTypes
<1>8. LiveTrue'
  BY <1>2, <1>3, <1>4 DEF OInv, LiveTrue
<1>9. ReplayTrue'
  <2>1. \A d \in Client : Drained(d)' <=> Drained(d)
    BY <1>2 DEF Drained
  <2>2. NoCutoff < offset[c]
    BY OffsetType DEF OInv, MInv, NoCutoff
  <2>3. \A k \in DOMAIN gateway : ~For(c, gateway[k])
    BY <1>2 DEF Drained, For
  <2> QED  BY <1>2, <1>4, <2>1, <2>2, <2>3 DEF OInv, ReplayTrue
<1>10. LateTrue'
  BY <1>2 DEF OInv, LateTrue
<1>11. ASSUME c \notin spilled, c \in pending
       PROVE  /\ \A j \in DOMAIN view[c].got :
                   /\ view[c].got[j] \in Int /\ view[c].got[j] <= cutoff[c]
                   /\ view[c].got[j] < offset[c]
              /\ \A j \in DOMAIN view[c].got, k \in DOMAIN events : view[c].got[j] < events[k]
              /\ \A k \in DOMAIN gateway : IsLive(gateway[k]) =>
                   gateway[k].seq \in late \/ \A j \in DOMAIN view[c].got :
                                                view[c].got[j] < gateway[k].seq
  <2>1. cutoff[c] \in Int /\ offset[c] \in Int /\ cutoff[c] < offset[c]
    BY CutoffType, OffsetType DEF OInv, MInv, ReplayTrue
  <2>2. ASSUME NEW j \in DOMAIN view[c].got
        PROVE  /\ view[c].got[j] \in Int /\ view[c].got[j] <= cutoff[c]
               /\ view[c].got[j] < offset[c]
    <3>1. view[c].got[j] \in Event /\ view[c].got[j] <= cutoff[c]
      BY <1>3, <1>11 DEF OInv, GotTrue
    <3>2. view[c].got[j] \in Int
      BY <3>1, EventIsNumber
    <3> QED  BY <2>1, <3>1, <3>2
  <2>3. ASSUME NEW k \in DOMAIN events
        PROVE  events[k] \in Int /\ cutoff[c] < events[k]
    <3>1. events[k] \in Event /\ cutoff[c] < events[k]
      BY <1>6, <1>11
    <3> QED  BY <3>1, EventIsNumber
  <2>4. ASSUME NEW k \in DOMAIN gateway, IsLive(gateway[k]), gateway[k].seq \notin late
        PROVE  gateway[k].seq \in Int /\ ~(gateway[k].seq < offset[c])
    <3>1. gateway[k] \in Message
      BY DEF OInv, MInv, AttachTypes
    <3>2. gateway[k].seq \in Event
      BY <2>4, <3>1, Fields
    <3>3. ~(gateway[k].seq < offset[c])
      BY <1>2, <2>4 DEF OInv, LateTrue, Drained, For
    <3> QED  BY <3>2, <3>3, EventIsNumber
  <2> QED  BY <2>1, <2>2, <2>3, <2>4
<1>12. GotTrue'
  <2> SUFFICES ASSUME NEW d \in Client \ spilled
               PROVE  /\ conn[d] # "here" => view'[d].got = <<>>
                      /\ d \in pending' =>
                           \A k \in DOMAIN view'[d].got : view'[d].got[k] <= cutoff'[d]
                      /\ conn[d] = "here" /\ load'[d] = "done" =>
                           \A k \in DOMAIN view'[d].got :
                             /\ view'[d].got[k] < Passed \/ view'[d].got[k] < offset[d]
                             /\ \A j \in DOMAIN gateway : IsLive(gateway[j]) =>
                                  \/ view'[d].got[k] < gateway[j].seq
                                  \/ gateway[j].seq \in late
    BY <1>2, <1>4 DEF GotTrue
  <2>1. CASE d = c /\ conn[c] = "here"
    <3>1. \A k \in DOMAIN (view[c].got \o events) :
            \/ \E j \in DOMAIN view[c].got : (view[c].got \o events)[k] = view[c].got[j]
            \/ \E j \in DOMAIN events : (view[c].got \o events)[k] = events[j]
      <4>1. view[c].got \in Seq(Event) /\ events \in Seq(Event)
        BY <1>3, <1>6, <2>1
      <4> QED  BY <4>1
    <3>2. \A k \in DOMAIN view'[c].got :
            \/ \E j \in DOMAIN view[c].got : view'[c].got[k] = view[c].got[j]
            \/ \E j \in DOMAIN events : view'[c].got[k] = events[j]
      BY <1>5, <2>1, <3>1
    <3>3. c \in pending /\ c \notin spilled
      BY <1>3, <2>1
    <3>4. ASSUME NEW k \in DOMAIN view'[c].got
          PROVE  /\ view'[c].got[k] < Passed \/ view'[c].got[k] < offset[c]
                 /\ \A j \in DOMAIN gateway : IsLive(gateway[j]) =>
                      view'[c].got[k] < gateway[j].seq \/ gateway[j].seq \in late
      <4>1. CASE \E j \in DOMAIN view[c].got : view'[c].got[k] = view[c].got[j]
        <5>1. PICK i \in DOMAIN view[c].got : view'[c].got[k] = view[c].got[i]
          BY <4>1
        <5>2. view[c].got[i] < offset[c]
          BY <1>11, <3>3
        <5>3. \A j \in DOMAIN gateway : IsLive(gateway[j]) =>
                view[c].got[i] < gateway[j].seq \/ gateway[j].seq \in late
          BY <1>11, <3>3
        <5> QED  BY <5>1, <5>2, <5>3
      <4>2. CASE \E j \in DOMAIN events : view'[c].got[k] = events[j]
        <5>1. PICK i \in DOMAIN events : view'[c].got[k] = events[i]
          BY <4>2
        <5>2. events[i] < Passed
          BY <1>6, <3>3
        <5>3. \A j \in DOMAIN gateway : IsLive(gateway[j]) => events[i] < gateway[j].seq
          BY <1>6, <3>3
        <5> QED  BY <5>1, <5>2, <5>3
      <4> QED  BY <3>2, <4>1, <4>2
    <3>5. d \notin pending' /\ conn[d] = "here" /\ d = c
      BY <1>4, <2>1
    <3> QED  BY <3>4, <3>5
  <2>2. CASE d = c /\ conn[c] # "here"
    BY <1>4, <1>5, <2>2 DEF OInv, GotTrue
  <2>3. CASE d # c
    <3>1. view'[d] = view[d]
      BY <1>5, <2>3
    <3>2. load'[d] = load[d] /\ cutoff'[d] = cutoff[d]
      BY <1>2, <1>3, <2>3
    <3>3. d \in pending' => d \in pending
      BY <1>2
    <3> QED  BY <3>1, <3>2, <3>3 DEF OInv, GotTrue
  <2> QED  BY <2>1, <2>2, <2>3
<1>13. InOrder'
  <2>1. ASSUME c \notin spilled
        PROVE  Orderly(view'[c].got, late)
    <3>1. CASE conn[c] = "here"
      <4>1. Orderly(events, late) /\ Orderly(view[c].got, late)
        BY <1>3, <1>6, <2>1, <3>1 DEF Orderly
      <4>2. Orderly(view[c].got \o events, late)
        BY <1>3, <1>6, <1>11, <2>1, <3>1, <4>1, OrderlyJoined
      <4> QED  BY <1>5, <3>1, <4>2
    <3>2. CASE conn[c] # "here"
      BY <1>3, <1>5, <2>1, <3>2
    <3> QED  BY <3>1, <3>2
  <2> QED  BY <1>2, <1>5, <1>7, <2>1, OnlyOne
<1> QED  BY <1>1, <1>7, <1>8, <1>9, <1>10, <1>12, <1>13 DEF OInv

LEMMA OAtFirst == Init => OInv
<1>1. SUFFICES ASSUME Init PROVE OInv
  OBVIOUS
<1>2. MInv
  BY <1>1, MAtFirst
<1>3. /\ emitted = 0 /\ emitting = FALSE /\ offset = [c \in Client |-> 0]
      /\ gateway = <<>> /\ buffer = [c \in Client |-> <<>>]
      /\ cutoff = [c \in Client |-> NoCutoff] /\ pending = {}
      /\ view = [c \in Client |-> Blank]
  BY <1>1 DEF Init
<1>4. \A c \in Client : view[c].got = <<>>
  BY <1>3 DEF Blank
<1>5. StreamTypes
  <2>1. cutoff \in [Client -> Event \cup {NoCutoff}]
    BY <1>3
  <2>2. <<>> \in Seq(Event)
    OBVIOUS
  <2> QED  BY <2>1, <2>2, <1>4 DEF StreamTypes
<1>6. LiveTrue /\ LateTrue
  BY <1>3 DEF LiveTrue, LateTrue, Ascend
<1>7. ReplayTrue
  BY <1>3 DEF ReplayTrue, Drained, NoCutoff
<1>8. GotTrue /\ InOrder
  BY <1>4 DEF GotTrue, InOrder
<1> QED  BY <1>2, <1>5, <1>6, <1>7, <1>8 DEF OInv

LEMMA ONext == OInv /\ [Next]_vars => OInv'
<1>1. SUFFICES ASSUME OInv, [Next]_vars PROVE OInv'
  OBVIOUS
<1>2. CASE UNCHANGED vars
  <2>1. MInv'
    BY <1>1, MNext DEF OInv
  <2>2. /\ UNCHANGED <<load, offset, emitted, emitting, gateway, late>>
        /\ UNCHANGED <<conn, pending, buffer, cutoff, view, spilled>>
    BY <1>2 DEF vars, loadVars, sessionVars, leaderVars, gateHistory
  <2>3. Passed' = Passed
    BY <2>2 DEF Passed
  <2>4. StreamTypes' /\ LiveTrue'
    BY <1>1, <2>2, <2>3 DEF OInv, StreamTypes, LiveTrue
  <2>5. ReplayTrue' /\ LateTrue'
    BY <1>1, <2>2 DEF OInv, ReplayTrue, LateTrue, Drained
  <2>6. GotTrue' /\ InOrder'
    BY <1>1, <2>2, <2>3 DEF OInv, GotTrue, InOrder
  <2> QED  BY <2>1, <2>4, <2>5, <2>6 DEF OInv
<1> QED  BY <1>1, <1>2, OSession, ORoute, OLoadStep, OAnswer, ORequest, ODisconnect
         DEF Next, Progress

(* Whichever way the log, the delta, the buffer and the live stream         *)
(* overlap, a client is sent every event at most once and in the order in   *)
(* which it was emitted.  Exempt, as in the property, are a client whose    *)
(* buffer overflowed, and an event that had not been through the gate when  *)
(* a load had already read it.                                              *)
THEOREM EventsInOrder == Spec => []InOrder
<1>1. OInv => InOrder
  BY DEF OInv
<1> QED  BY <1>1, OAtFirst, ONext, PTL DEF Spec

-----------------------------------------------------------------------------
(* Every event is somewhere.                                                *)

Way(m)      == \E k \in DOMAIN gateway : gateway[k] = m
Kept(c, e)  == c \in pending /\ \E k \in DOMAIN buffer[c] : buffer[c][k] = Live(e)
Reading     == {"delta", "open", "answer", "done"}
Exempt      == failed \cup degraded

(* A load has read what was on disk when it last flushed.                   *)
PromiseKept ==
  /\ promised \in [Client -> Nat] /\ \A c \in Client : promised[c] <= written
  /\ \A c \in Client \ Exempt :
       load[c] \in {"open", "answer", "done"} => promised[c] <= offset[c]

(* What a load has read has been sent to its client or is on its way ...    *)
ReadsReach ==
  \A c \in Client : conn[c] = "here" =>
    \A e \in Nat : e < offset[c] => e \in Got(c) \/ Way(Replay(c, e))

(* ... and so has, or is held for it, what the gate let through since its   *)
(* last flush.                                                              *)
LivesReach ==
  \A c \in Client \ Exempt : conn[c] = "here" /\ load[c] \in Reading =>
    \A e \in Nat : promised[c] <= e /\ e < Passed =>
      e \in shut \/ e \in Got(c) \/ Way(Live(e)) \/ Kept(c, e)

RInv == OInv /\ PromiseKept /\ ReadsReach /\ LivesReach

LEMMA WayLonger == ASSUME Longer, NEW m, Way(m) PROVE Way(m)'
BY LongerFacts DEF Way, Longer

LEMMA WayShorter ==
  ASSUME MInv, Shorter, NEW m, Way(m)
  PROVE  Way(m)' \/ m = Head(gateway)
<1>1. PICK k \in DOMAIN gateway : gateway[k] = m
  BY DEF Way
<1>2. CASE k = 1
  BY <1>1, <1>2, TailFacts
<1>3. CASE k # 1
  <2>1. k - 1 \in DOMAIN gateway' /\ gateway'[k - 1] = m
    BY <1>1, <1>3, TailFacts
  <2> QED  BY <2>1 DEF Way
<1> QED  BY <1>2, <1>3

(* What stays true of a client that a step moves nothing away from.         *)
LEMMA ReadsKept ==
  ASSUME ReadsReach, NEW c \in Client, conn[c] = "here", offset'[c] = offset[c],
         \A e : e \in Got(c) => e \in Got(c)',
         \A e : Way(Replay(c, e)) => Way(Replay(c, e))' \/ e \in Got(c)'
  PROVE  \A e \in Nat : e < offset'[c] => e \in Got(c)' \/ Way(Replay(c, e))'
BY DEF ReadsReach

LEMMA LivesKept ==
  ASSUME LivesReach, NEW c \in Client \ Exempt, conn[c] = "here", load[c] \in Reading,
         promised'[c] = promised[c], Passed' = Passed, shut \subseteq shut',
         \A e : e \in Got(c) => e \in Got(c)',
         \A e : Way(Live(e)) => Way(Live(e))' \/ e \in Got(c)' \/ Kept(c, e)',
         \A e \in Nat : Kept(c, e) => Kept(c, e)' \/ e \in Got(c)'
  PROVE  \A e \in Nat : promised'[c] <= e /\ e < Passed' =>
           e \in shut' \/ e \in Got(c)' \/ Way(Live(e))' \/ Kept(c, e)'
BY DEF LivesReach

LEMMA RSession ==
  ASSUME RInv, Persist \/ Forward \/ \E i \in Interaction : Interact(i)
  PROVE  RInv'
<1>1. OInv'
  BY OSession DEF RInv
<1>2. /\ UNCHANGED <<load, offset, promised, degraded, failed, conn, pending, buffer, view>>
      /\ written' = written /\ shut \subseteq shut'
  BY DEF Persist, Forward, Interact, loadVars, leaderVars, gateHistory
<1>3. \A m : Way(m) => Way(m)'
  <2>1. gateway' = gateway \/ \E m : gateway' = Append(gateway, m)
    BY DEF Persist, Forward, Interact
  <2>2. gateway \in Seq(Message)
    BY DEF RInv, OInv, MInv, AttachTypes
  <2>3. \A m : \A k \in DOMAIN gateway :
          k \in DOMAIN Append(gateway, m) /\ Append(gateway, m)[k] = gateway[k]
    BY <2>2
  <2> QED  BY <2>1, <2>3 DEF Way
<1>4. \A c \in Client : /\ \A e : e \in Got(c) <=> e \in Got(c)'
                        /\ \A e : Kept(c, e) <=> Kept(c, e)'
  BY <1>2 DEF Got, Kept
<1>5. \A e \in Nat : e < Passed' => e < Passed \/ e \in shut' \/ Way(Live(e))'
  <2>1. emitted \in Nat /\ emitting \in BOOLEAN /\ (emitting => emitted > 0)
    BY NumbersTrue, CapAssumption DEF RInv, OInv, MInv
  <2>2. CASE Persist \/ \E i \in Interaction : Interact(i)
    <3>1. Passed' = Passed
      BY <2>1, <2>2 DEF Persist, Interact, Passed
    <3> QED  BY <3>1
  <2>3. CASE Forward
    <3> DEFINE p == emitted - 1
    <3>1. Passed = p /\ Passed' = p + 1 /\ p \in Nat
      BY <2>1, <2>3 DEF Forward, Passed
    <3>2. CASE gate
      <4>1. gateway' = Append(gateway, Live(p)) /\ gateway \in Seq(Message)
        BY <2>3, <3>2 DEF Forward, RInv, OInv, MInv, AttachTypes
      <4>2. Len(gateway) + 1 \in DOMAIN gateway' /\ gateway'[Len(gateway) + 1] = Live(p)
        BY <4>1
      <4>3. \E k \in DOMAIN gateway' : gateway'[k] = Live(p)
        BY <4>2
      <4> HIDE DEF p
      <4>4. \A e \in Nat : e < Passed' => e < Passed \/ e = p
        BY <3>1
      <4> QED  BY <4>3, <4>4 DEF Way
    <3>3. CASE ~gate
      <4>1. p \in shut'
        BY <2>3, <3>3 DEF Forward
      <4> HIDE DEF p
      <4> QED  BY <3>1, <4>1
    <3> QED  BY <3>2, <3>3
  <2> QED  BY <2>2, <2>3
<1>6. PromiseKept'
  BY <1>2 DEF RInv, PromiseKept, Exempt
<1>7. ReadsReach'
  BY <1>2, <1>3, <1>4 DEF RInv, ReadsReach
<1>8. LivesReach'
  <2> SUFFICES ASSUME NEW c \in Client \ Exempt, conn[c] = "here", load[c] \in Reading,
                      NEW e \in Nat, promised[c] <= e, e < Passed'
               PROVE  e \in shut' \/ e \in Got(c)' \/ Way(Live(e))' \/ Kept(c, e)'
    BY <1>2 DEF LivesReach, Exempt
  <2>1. CASE e < Passed
    <3>1. e \in shut \/ e \in Got(c) \/ Way(Live(e)) \/ Kept(c, e)
      BY <2>1 DEF RInv, LivesReach
    <3> QED  BY <3>1, <1>2, <1>3, <1>4
  <2> QED  BY <2>1, <1>5
<1> QED  BY <1>1, <1>6, <1>7, <1>8 DEF RInv

LEMMA WrittenType == ASSUME AttachTypes PROVE written \in Nat /\ emitted \in Nat
BY NumbersTrue, CapAssumption

(* A load promises no more than what is on disk, and reads all of it.       *)
LEMMA RLoadStep == ASSUME RInv, NEW c \in Client, LoadStep(c) PROVE RInv'
<1>1. OInv'
  BY OLoadStep DEF RInv
<1>2. /\ UNCHANGED <<conn, pending, buffer, view, shut, emitted, emitting>>
      /\ Passed' = Passed /\ failed \subseteq failed' /\ degraded \subseteq degraded'
  BY DEF LoadStep, CloseGate, FlushLog, FailLoad, Snapshot, FlushAgain, Delta, OpenGate,
         leaderVars, sessionVars, gateHistory, Passed
<1>3. /\ load \in [Client -> Stages] /\ promised \in [Client -> Nat]
      /\ offset \in [Client -> Nat] /\ written \in Nat /\ emitted \in Nat /\ written <= emitted
      /\ offset[c] <= written /\ promised[c] <= written
  <2>1. /\ load \in [Client -> Stages] /\ promised \in [Client -> Nat]
        /\ offset \in [Client -> Nat] /\ promised[c] <= written
    BY OffsetType DEF RInv, OInv, MInv, GInv, PromiseKept
  <2>2. written \in 0..emitted /\ offset[c] <= written
    BY NumbersTrue DEF RInv, OInv, MInv
  <2> QED  BY <2>1, <2>2, WrittenType DEF RInv, OInv, MInv
<1>4. \A d \in Client \ {c} : load'[d] = load[d]
  BY <1>3 DEF LoadStep, CloseGate, FlushLog, FailLoad, Snapshot, FlushAgain, Delta, OpenGate, Go
<1>5. \/ /\ load'[c] \notin Reading \/ c \in Exempt'
         /\ promised' = promised /\ offset' = offset /\ written' = written /\ gateway' = gateway
      \/ /\ load'[c] \in {"read", "delta"} /\ ~emitting
         /\ promised' = [promised EXCEPT ![c] = emitted]
         /\ offset' = offset /\ written' = emitted /\ gateway' = gateway
      \/ /\ load'[c] = "drain" /\ promised' = promised /\ ReplayTo(c)
      \/ /\ load[c] = "delta" /\ load'[c] = "open" /\ promised' = promised /\ ReplayTo(c)
      \/ /\ load[c] = "open" /\ load'[c] = "answer"
         /\ promised' = promised /\ offset' = offset /\ written' = written /\ gateway' = gateway
  <2>1. CASE CloseGate(c)
    BY <1>3, <2>1 DEF CloseGate, Go, Reading
  <2>2. CASE FlushLog(c)
    BY <1>3, <2>2 DEF FlushLog, Flushed, Go, Reading
  <2>3. CASE FailLoad(c)
    BY <1>3, <2>3 DEF FailLoad, Go, Reading, Exempt
  <2>4. CASE Snapshot(c)
    BY <1>3, <2>4 DEF Snapshot, Go, Reading
  <2>5. CASE FlushAgain(c)
    BY <1>3, <2>5 DEF FlushAgain, Flushed, Go, Reading, Exempt
  <2>6. CASE Delta(c)
    BY <1>3, <2>6 DEF Delta, Go, Reading
  <2>7. CASE OpenGate(c)
    BY <1>3, <2>7 DEF OpenGate, Go, Reading
  <2> QED  BY <2>1, <2>2, <2>3, <2>4, <2>5, <2>6, <2>7 DEF LoadStep
<1>6. \A m : Way(m) => Way(m)'
  <2>1. CASE gateway' = gateway
    BY <2>1 DEF Way
  <2>2. CASE ReplayTo(c)
    <3>1. Longer
      BY <1>2, <2>2, AddReplay DEF RInv, OInv
    <3> QED  BY <3>1, WayLonger
  <2> QED  BY <1>5, <2>1, <2>2
<1>7. ASSUME ReplayTo(c)
      PROVE  /\ offset' = [offset EXCEPT ![c] = written'] /\ written' \in Nat
             /\ written <= written' /\ offset[c] <= written'
             /\ \A e \in Nat : offset[c] <= e /\ e < written' => Way(Replay(c, e))'
  <2>1. /\ offset' = [offset EXCEPT ![c] = written'] /\ written' \in Nat
        /\ written <= written' /\ offset[c] <= written'
    BY <1>3, <1>7 DEF ReplayTo
  <2> DEFINE l == Len(gateway)
             n == written' - offset[c]
  <2>2. /\ n \in Nat /\ l \in Nat /\ Len(gateway') = l + n /\ gateway' \in Seq(Message)
        /\ \A k \in (l + 1)..(l + n) : gateway'[k] = Replay(c, offset[c] + (k - l) - 1)
    BY <1>2, <1>7, ReplayPositions DEF RInv, OInv, MInv
  <2>3. ASSUME NEW e \in Nat, offset[c] <= e, e < written'
        PROVE  \E k \in DOMAIN gateway' : gateway'[k] = Replay(c, e)
    <3> DEFINE k == l + 1 + (e - offset[c])
    <3>1. k \in (l + 1)..(l + n) /\ offset[c] + (k - l) - 1 = e
      BY <1>3, <2>1, <2>2, <2>3
    <3>2. DOMAIN gateway' = 1..(l + n)
      BY <2>2
    <3>3. k \in DOMAIN gateway'
      <4> HIDE DEF k, n
      <4> QED  BY <3>1, <3>2, <2>2
    <3>4. gateway'[k] = Replay(c, offset[c] + (k - l) - 1)
      BY <3>1, <2>2
    <3>5. gateway'[k] = Replay(c, e)
      BY <3>1, <3>4
    <3> QED  BY <3>3, <3>5
  <2> QED  BY <2>1, <2>3 DEF Way
<1>8. \A d \in Client : /\ \A e : e \in Got(d) <=> e \in Got(d)'
                        /\ \A e : Kept(d, e) <=> Kept(d, e)'
  BY <1>2 DEF Got, Kept
<1>9. \A d \in Client \ {c} : offset'[d] = offset[d] /\ promised'[d] = promised[d]
  BY <1>3, <1>5, <1>7
<1>10. PromiseKept'
  <2>1. written <= written'
    BY <1>3, <1>5, <1>7
  <2>2. promised' \in [Client -> Nat] /\ promised'[c] <= written'
    BY <1>3, <1>5, <1>7
  <2>3. ASSUME NEW d \in Client PROVE promised'[d] <= written'
    <3>1. CASE d # c
      <4>1. promised[d] \in Nat /\ promised[d] <= written /\ written' \in Nat
        BY <1>3, <1>5, <1>7 DEF RInv, PromiseKept
      <4> QED  BY <3>1, <4>1, <2>1, <1>3, <1>9
    <3> QED  BY <2>2, <3>1
  <2>4. ASSUME NEW d \in Client \ Exempt', load'[d] \in {"open", "answer", "done"}
        PROVE  promised'[d] <= offset'[d]
    <3>1. d \notin Exempt
      BY <1>2 DEF Exempt
    <3>2. CASE d # c
      BY <1>4, <1>9, <2>4, <3>1, <3>2 DEF RInv, PromiseKept
    <3>3. CASE d = c /\ load[c] = "open" /\ promised' = promised /\ offset' = offset
      BY <3>1, <3>3 DEF RInv, PromiseKept
    <3>4. CASE d = c /\ load[c] = "delta" /\ promised' = promised /\ ReplayTo(c)
      <4>1. offset'[c] = written' /\ promised[c] <= written /\ written <= written'
        BY <1>3, <1>7, <3>4
      <4> QED  BY <1>3, <1>7, <3>4, <4>1
    <3>5. CASE d = c /\ load'[c] \notin Reading
      BY <2>4, <3>5 DEF Reading
    <3> QED  BY <1>5, <2>4, <3>2, <3>3, <3>4, <3>5
  <2> QED  BY <2>2, <2>3, <2>4 DEF PromiseKept
<1>11. ReadsReach'
  <2> SUFFICES ASSUME NEW d \in Client, conn[d] = "here", NEW e \in Nat, e < offset'[d]
               PROVE  e \in Got(d)' \/ Way(Replay(d, e))'
    BY <1>2 DEF ReadsReach
  <2>1. CASE e < offset[d]
    BY <1>6, <1>8, <2>1 DEF RInv, ReadsReach
  <2>2. CASE ~(e < offset[d])
    <3>1. d = c /\ ReplayTo(c)
      BY <1>5, <1>9, <2>2
    <3>2. offset'[c] = written' /\ offset[c] <= e
      BY <1>3, <1>7, <2>2, <3>1
    <3> QED  BY <1>7, <3>1, <3>2
  <2> QED  BY <2>1, <2>2
<1>12. LivesReach'
  <2> SUFFICES ASSUME NEW d \in Client \ Exempt', conn[d] = "here", load'[d] \in Reading,
                      NEW e \in Nat, promised'[d] <= e, e < Passed
               PROVE  e \in shut \/ e \in Got(d)' \/ Way(Live(e))' \/ Kept(d, e)'
    BY <1>2 DEF LivesReach
  <2>1. d \notin Exempt
    BY <1>2 DEF Exempt
  <2>2. CASE load[d] \in Reading /\ promised'[d] = promised[d]
    <3>1. e \in shut \/ e \in Got(d) \/ Way(Live(e)) \/ Kept(d, e)
      BY <2>1, <2>2 DEF RInv, LivesReach
    <3> QED  BY <3>1, <1>6, <1>8
  <2>3. CASE d = c /\ ~emitting /\ promised' = [promised EXCEPT ![c] = emitted]
    <3>1. promised'[c] = emitted /\ Passed = emitted
      BY <1>3, <2>3 DEF Passed
    <3> QED  BY <1>3, <2>3, <3>1
  <2> QED  BY <1>4, <1>5, <1>9, <2>2, <2>3 DEF Reading
<1> QED  BY <1>1, <1>10, <1>11, <1>12 DEF RInv

(* What the leader takes from the queue it sends, or holds for who loads.   *)
LEMMA GotAppended ==
  ASSUME NEW d \in Client, view[d].got \in Seq(Event),
         NEW x \in Event, view'[d].got = Append(view[d].got, x)
  PROVE  x \in Got(d)' /\ \A e \in Got(d) : e \in Got(d)'
<1>1. /\ Len(view[d].got) + 1 \in DOMAIN view'[d].got /\ view'[d].got[Len(view[d].got) + 1] = x
      /\ \A k \in DOMAIN view[d].got : k \in DOMAIN view'[d].got
                                       /\ view'[d].got[k] = view[d].got[k]
  BY GotMore
<1> QED  BY <1>1 DEF Got

LEMMA RouteReaches ==
  ASSUME OInv, Route, NEW d \in Client, conn[d] = "here"
  PROVE  /\ \A e : e \in Got(d) => e \in Got(d)'
         /\ \A e : Head(gateway) = Replay(d, e) => e \in Got(d)'
         /\ \A e : Head(gateway) = Live(e) => e \in Got(d)' \/ Kept(d, e)'
         /\ \A e : Kept(d, e) => Kept(d, e)'
<1> DEFINE m == Head(gateway)
<1>1. /\ m \in Message /\ pending' = pending /\ d \in subscribers
      /\ view[d].got \in Seq(Event) /\ IsView(view[d]) /\ view = [c \in Client |-> view[c]]
      /\ buffer \in [Client -> Seq(Broadcast)]
  <2>1. m \in Message
    BY TailFacts DEF OInv, Route, Shorter
  <2> QED  BY <2>1 DEF OInv, MInv, StreamTypes, AttachTypes, Route
<1>2. Shown(view[d], m).got
        = IF m.kind \in {"live", "replay"} THEN Append(view[d].got, m.seq) ELSE view[d].got
  BY <1>1, ShownGot
<1>3. /\ \A e : m = Replay(d, e) => m.kind = "replay" /\ m.to = d /\ m.seq = e /\ e \in Event
      /\ \A e : m = Live(e) => m.kind = "live" /\ m.seq = e /\ e \in Event
  <2>1. /\ \A e : m = Replay(d, e) => m.kind = "replay" /\ m.to = d /\ m.seq = e
        /\ \A e : m = Live(e) => m.kind = "live" /\ m.seq = e
    BY DEF Replay, Live
  <2>2. m.kind = "replay" /\ m.to = d => m.seq \in Event
    BY <1>1, Fields DEF For
  <2>3. m.kind = "live" => m.seq \in Event
    BY <1>1, Fields DEF IsLive
  <2> QED  BY <2>1, <2>2, <2>3
<1>4. m.kind \in {"live", "replay"} => m.seq \in Event
  BY <1>1, Fields DEF IsLive, For
<1>5. CASE m.kind = "replay"
  <2>1. /\ buffer' = buffer
        /\ IF conn[m.to] = "here" THEN view' = [view EXCEPT ![m.to] = Shown(@, m)]
                                  ELSE view' = view
    BY <1>5 DEF Route, Unicast
  <2>2. \A e : Kept(d, e) => Kept(d, e)'
    BY <1>1, <2>1 DEF Kept
  <2> HIDE DEF m
  <2>3. CASE m.to = d
    <3>1. view'[d].got = Append(view[d].got, m.seq)
      BY <1>1, <1>2, <1>5, <2>1, <2>3
    <3>2. m.seq \in Got(d)' /\ \A e \in Got(d) : e \in Got(d)'
      BY <1>1, <1>4, <1>5, <3>1, GotAppended
    <3> QED  BY <1>3, <1>5, <2>2, <3>2 DEF m
  <2>4. CASE m.to # d
    <3>1. view'[d] = view[d]
      BY <1>1, <2>1, <2>4
    <3> QED  BY <1>3, <1>5, <2>2, <2>4, <3>1 DEF Got, m
  <2> QED  BY <2>3, <2>4
<1>6. CASE m.kind # "replay"
  <2> DEFINE held == {c \in pending : Len(buffer[c]) < Cap}
  <2>1. /\ buffer' = [c \in Client |-> IF c \in held THEN Append(buffer[c], m) ELSE buffer[c]]
        /\ view' = [c \in Client |-> IF c \in subscribers \ held THEN Shown(view[c], m)
                                     ELSE view[c]]
    BY <1>6 DEF Route, Fanout
  <2>2. m \in Broadcast /\ held \subseteq pending /\ buffer[d] \in Seq(Broadcast)
    BY <1>1, <1>6, Kinds
  <2> HIDE DEF m, held
  <2>3. CASE d \in held
    <3>1. view'[d] = view[d] /\ buffer'[d] = Append(buffer[d], m) /\ d \in pending'
      BY <1>1, <2>1, <2>2, <2>3
    <3>2. /\ Len(buffer[d]) + 1 \in DOMAIN buffer'[d] /\ buffer'[d][Len(buffer[d]) + 1] = m
          /\ \A k \in DOMAIN buffer[d] : k \in DOMAIN buffer'[d]
                                         /\ buffer'[d][k] = buffer[d][k]
      BY <2>2, <3>1
    <3>3. \A e : m = Live(e) => Kept(d, e)'
      BY <3>1, <3>2 DEF Kept
    <3>4. \A e : Kept(d, e) => Kept(d, e)'
      BY <3>1, <3>2 DEF Kept
    <3>5. \A e : e \in Got(d) => e \in Got(d)'
      BY <3>1 DEF Got
    <3> QED  BY <1>3, <1>6, <3>3, <3>4, <3>5 DEF m
  <2>4. CASE d \notin held
    <3>1. view'[d] = Shown(view[d], m) /\ buffer'[d] = buffer[d]
      BY <1>1, <2>1, <2>4
    <3>2. \A e : Kept(d, e) => Kept(d, e)'
      BY <1>1, <3>1 DEF Kept
    <3>3. CASE m.kind = "live"
      <4>1. m.seq \in Got(d)' /\ \A e \in Got(d) : e \in Got(d)'
        BY <1>1, <1>2, <1>4, <3>1, <3>3, GotAppended
      <4> QED  BY <1>3, <1>6, <3>2, <4>1 DEF m
    <3>4. CASE m.kind # "live"
      <4>1. view'[d].got = view[d].got
        BY <1>2, <1>6, <3>1, <3>4
      <4>2. \A e : e \in Got(d) => e \in Got(d)'
        BY <4>1 DEF Got
      <4> QED  BY <1>3, <1>6, <3>2, <3>4, <4>2 DEF m
    <3> QED  BY <3>3, <3>4
  <2> QED  BY <2>3, <2>4
<1> QED  BY <1>5, <1>6

LEMMA PromiseUnmoved ==
  ASSUME PromiseKept, UNCHANGED <<promised, written, offset, failed, degraded>>,
         \A c \in Client : load'[c] = load[c] \/ load[c] = "answer" \/ load'[c] \notin Reading
  PROVE  PromiseKept'
BY DEF PromiseKept, Exempt, Reading

LEMMA RRoute == ASSUME RInv, Route PROVE RInv'
<1>1. OInv'
  BY ORoute DEF RInv
<1>2. /\ UNCHANGED <<load, offset, promised, degraded, failed, conn, shut, written>>
      /\ Passed' = Passed /\ Shorter
  BY DEF Route, agentVars, sessionVars, gateHistory, Passed, Shorter
<1>3. PromiseKept'
  BY <1>2, PromiseUnmoved DEF RInv
<1>4. \A m : Way(m) => Way(m)' \/ m = Head(gateway)
  BY <1>2, WayShorter DEF RInv, OInv
<1>5. ASSUME NEW d \in Client, conn[d] = "here"
      PROVE  /\ \A e : e \in Got(d) => e \in Got(d)'
             /\ \A e : Head(gateway) = Replay(d, e) => e \in Got(d)'
             /\ \A e : Head(gateway) = Live(e) => e \in Got(d)' \/ Kept(d, e)'
             /\ \A e : Kept(d, e) => Kept(d, e)'
  BY <1>5, RouteReaches DEF RInv
<1>6. ReadsReach'
  <2>1. ASSUME NEW d \in Client, conn[d] = "here"
        PROVE  \A e \in Nat : e < offset'[d] => e \in Got(d)' \/ Way(Replay(d, e))'
    BY <1>2, <1>4, <1>5, <2>1, ReadsKept DEF RInv
  <2> QED  BY <1>2, <2>1 DEF ReadsReach
<1>7. LivesReach'
  <2>1. ASSUME NEW d \in Client \ Exempt, conn[d] = "here", load[d] \in Reading
        PROVE  \A e \in Nat : promised'[d] <= e /\ e < Passed' =>
                 e \in shut' \/ e \in Got(d)' \/ Way(Live(e))' \/ Kept(d, e)'
    BY <1>2, <1>4, <1>5, <2>1, LivesKept DEF RInv
  <2> QED  BY <1>2, <2>1 DEF LivesReach, Exempt
<1> QED  BY <1>1, <1>3, <1>6, <1>7 DEF RInv

LEMMA RRequest == ASSUME RInv, NEW c \in Client, Request(c) PROVE RInv'
<1>1. OInv'
  BY ORequest DEF RInv
<1>2. /\ conn[c] = "away" /\ conn' = [conn EXCEPT ![c] = "here"]
      /\ pending' = pending \cup {c} /\ load' = [load EXCEPT ![c] = "asked"]
      /\ UNCHANGED <<gateway, offset, promised, written, failed, degraded, shut, buffer, view>>
      /\ Passed' = Passed
  BY DEF Request, Go, agentVars, sessionVars, gateHistory, Passed
<1>3. /\ conn \in [Client -> Connection] /\ load \in [Client -> Stages] /\ load[c] = "none"
      /\ offset[c] = 0
  BY <1>2 DEF RInv, OInv, MInv, GInv, NoneEarly, ReplayTrue
<1>4. /\ load'[c] = "asked"
      /\ \A d \in Client \ {c} : load'[d] = load[d] /\ conn'[d] = conn[d]
  BY <1>2, <1>3
<1>5. PromiseKept'
  BY <1>2, <1>4, PromiseUnmoved DEF RInv, Reading
<1>6. \A d \in Client : \A e : /\ e \in Got(d) <=> e \in Got(d)'
                               /\ Way(Replay(d, e)) <=> Way(Replay(d, e))'
                               /\ Way(Live(e)) <=> Way(Live(e))'
                               /\ Kept(d, e) => Kept(d, e)'
  BY <1>2 DEF Got, Way, Kept
<1>7. ReadsReach'
  <2> SUFFICES ASSUME NEW d \in Client, conn'[d] = "here", NEW e \in Nat, e < offset[d]
               PROVE  e \in Got(d)' \/ Way(Replay(d, e))'
    BY <1>2 DEF ReadsReach
  <2>1. d # c
    BY <1>3
  <2> QED  BY <1>4, <1>6, <2>1 DEF RInv, ReadsReach
<1>8. LivesReach'
  <2> SUFFICES ASSUME NEW d \in Client \ Exempt, conn'[d] = "here", load'[d] \in Reading,
                      NEW e \in Nat, promised[d] <= e, e < Passed
               PROVE  e \in shut \/ e \in Got(d)' \/ Way(Live(e))' \/ Kept(d, e)'
    BY <1>2 DEF LivesReach, Exempt
  <2>1. d # c
    BY <1>4 DEF Reading
  <2> QED  BY <1>4, <1>6, <2>1 DEF RInv, LivesReach
<1> QED  BY <1>1, <1>5, <1>7, <1>8 DEF RInv

LEMMA RDisconnect == ASSUME RInv, NEW c \in Client, Disconnect(c) PROVE RInv'
<1>1. OInv'
  BY ODisconnect DEF RInv
<1>2. /\ conn' = [conn EXCEPT ![c] = "gone"] /\ pending' = pending \ {c}
      /\ buffer' = [buffer EXCEPT ![c] = <<>>] /\ view' = [view EXCEPT ![c] = Blank]
      /\ UNCHANGED <<load, gateway, offset, promised, written, failed, degraded, shut>>
      /\ Passed' = Passed
  BY DEF Disconnect, agentVars, sessionVars, gateHistory, Passed
<1>3. /\ conn \in [Client -> Connection] /\ buffer \in [Client -> Seq(Broadcast)]
      /\ view = [d \in Client |-> view[d]]
  BY DEF RInv, OInv, MInv, GInv, AttachTypes
<1>4. /\ conn'[c] = "gone"
      /\ \A d \in Client \ {c} : /\ conn'[d] = conn[d] /\ view'[d] = view[d]
                                 /\ buffer'[d] = buffer[d]
  BY <1>2, <1>3
<1>5. PromiseKept'
  BY <1>2, PromiseUnmoved DEF RInv
<1>6. \A d \in Client \ {c} : \A e : /\ e \in Got(d) <=> e \in Got(d)'
                                     /\ Way(Replay(d, e)) <=> Way(Replay(d, e))'
                                     /\ Way(Live(e)) <=> Way(Live(e))'
                                     /\ Kept(d, e) => Kept(d, e)'
  BY <1>2, <1>4 DEF Got, Way, Kept
<1>7. ReadsReach'
  <2> SUFFICES ASSUME NEW d \in Client, conn'[d] = "here", NEW e \in Nat, e < offset[d]
               PROVE  e \in Got(d)' \/ Way(Replay(d, e))'
    BY <1>2 DEF ReadsReach
  <2>1. d # c
    BY <1>4
  <2> QED  BY <1>4, <1>6, <2>1 DEF RInv, ReadsReach
<1>8. LivesReach'
  <2> SUFFICES ASSUME NEW d \in Client \ Exempt, conn'[d] = "here", load[d] \in Reading,
                      NEW e \in Nat, promised[d] <= e, e < Passed
               PROVE  e \in shut \/ e \in Got(d)' \/ Way(Live(e))' \/ Kept(d, e)'
    BY <1>2 DEF LivesReach, Exempt
  <2>1. d # c
    BY <1>4
  <2> QED  BY <1>4, <1>6, <2>1 DEF RInv, LivesReach
<1> QED  BY <1>1, <1>5, <1>7, <1>8 DEF RInv

(* What the buffer held is sent with the answer, or is no news: the replay  *)
(* has been all delivered and reached beyond the cutoff.                    *)
LEMMA AnswerReaches ==
  ASSUME RInv, NEW c \in Client, Answer(c), conn[c] = "here"
  PROVE  /\ \A e : e \in Got(c) => e \in Got(c)'
         /\ \A e \in Nat : Kept(c, e) => e \in Got(c)'
<1> DEFINE events == [k \in DOMAIN Newer(c) |-> Newer(c)[k].seq]
           new    == {Live(e) : e \in {d \in Event : d > cutoff[c]}}
<1>1. c \in pending /\ Drained(c)
  <2>1. load[c] = "answer" /\ Drained(c)
    BY DEF Answer
  <2> QED  BY <2>1 DEF RInv, OInv, MInv, ViewsTrue
<1>2. /\ view[c].got \in Seq(Event) /\ buffer[c] \in Seq(Broadcast)
      /\ view = [d \in Client |-> view[d]]
      /\ cutoff[c] \in Int /\ offset[c] \in Int /\ cutoff[c] < offset[c]
  <2>1. cutoff[c] \in Int /\ offset[c] \in Int
    BY CutoffType, OffsetType DEF RInv, OInv, MInv
  <2> QED  BY <2>1 DEF RInv, OInv, MInv, StreamTypes, AttachTypes, ReplayTrue
<1>3. view'[c].got = view[c].got \o events
  <2> DEFINE w == [got  |-> view[c].got \o events,
                   open |-> LeftOpen(view[c].open, buffer[c]) \cup modals]
  <2>1. view' = [view EXCEPT ![c] = w]
    BY DEF Answer
  <2>2. w.got = view[c].got \o events
    OBVIOUS
  <2> HIDE DEF w
  <2> QED  BY <1>2, <2>1, <2>2
<1>4. events \in Seq(Event)
  BY <1>1, NewerFacts DEF RInv
<1>5. Newer(c) \in Seq(Broadcast) /\ ToSet(Newer(c)) = ToSet(buffer[c]) \cap new
  BY <1>2, KeepType, KeepContents DEF Newer
<1>6. \A k \in DOMAIN Newer(c) : k \in DOMAIN events /\ events[k] = Newer(c)[k].seq
  OBVIOUS
<1> HIDE DEF events, new
<1>7. /\ \A k \in DOMAIN view[c].got : k \in DOMAIN view'[c].got
                                       /\ view'[c].got[k] = view[c].got[k]
      /\ \A k \in DOMAIN events : Len(view[c].got) + k \in DOMAIN view'[c].got
                                  /\ view'[c].got[Len(view[c].got) + k] = events[k]
  BY <1>2, <1>3, <1>4
<1>8. \A e : e \in Got(c) => e \in Got(c)'
  BY <1>7 DEF Got
<1>9. ASSUME NEW e \in Nat, Kept(c, e)
      PROVE  e \in Got(c)'
  <2>1. PICK k \in DOMAIN buffer[c] : buffer[c][k] = Live(e)
    BY <1>9 DEF Kept
  <2>2. e \in Event
    <3>1. Live(e) \in Message /\ IsLive(Live(e)) /\ Live(e).seq = e
      BY <1>2, <2>1 DEF Message, IsLive, Live
    <3> QED  BY <3>1, Fields
  <2>3. CASE e > cutoff[c]
    <3>1. Live(e) \in ToSet(Newer(c))
      BY <1>5, <2>1, <2>2, <2>3 DEF ToSet, new
    <3>2. PICK j \in DOMAIN Newer(c) : Newer(c)[j] = Live(e)
      BY <3>1 DEF ToSet
    <3>3. j \in DOMAIN events /\ events[j] = e
      BY <1>6, <3>2 DEF Live
    <3> QED  BY <1>7, <3>3 DEF Got
  <2>4. CASE ~(e > cutoff[c])
    <3>1. e < offset[c]
      BY <1>2, <2>4
    <3>2. e \in Got(c) \/ Way(Replay(c, e))
      BY <3>1 DEF RInv, ReadsReach
    <3>3. ~Way(Replay(c, e))
      BY <1>1, ReplayFields DEF Way, Drained
    <3> QED  BY <1>8, <3>2, <3>3
  <2> QED  BY <2>3, <2>4
<1> QED  BY <1>8, <1>9

LEMMA RAnswer == ASSUME RInv, NEW c \in Client, Answer(c) PROVE RInv'
<1>1. OInv'
  BY OAnswer DEF RInv
<1>2. /\ load[c] = "answer" /\ load' = [load EXCEPT ![c] = "done"]
      /\ pending' = pending \ {c} /\ buffer' = [buffer EXCEPT ![c] = <<>>]
      /\ UNCHANGED <<conn, gateway, offset, promised, written, failed, degraded, shut>>
      /\ Passed' = Passed
  BY DEF Answer, Go, agentVars, sessionVars, gateHistory, Passed
<1>3. /\ load \in [Client -> Stages] /\ buffer \in [Client -> Seq(Broadcast)]
      /\ view = [d \in Client |-> view[d]]
  BY DEF RInv, OInv, MInv, GInv, AttachTypes
<1>4. \A d \in Client \ {c} : load'[d] = load[d] /\ view'[d] = view[d] /\ buffer'[d] = buffer[d]
  <2>1. \A d \in Client \ {c} : load'[d] = load[d] /\ buffer'[d] = buffer[d]
    BY <1>2, <1>3
  <2>2. \A d \in Client \ {c} : view'[d] = view[d]
    BY <1>3 DEF Answer
  <2> QED  BY <2>1, <2>2
<1>5. PromiseKept'
  BY <1>2, <1>4, PromiseUnmoved DEF RInv
<1>6. \A m : Way(m) <=> Way(m)'
  BY <1>2 DEF Way
<1>7. ASSUME NEW d \in Client, conn[d] = "here"
      PROVE  /\ \A e : e \in Got(d) => e \in Got(d)'
             /\ \A e \in Nat : Kept(d, e) => Kept(d, e)' \/ e \in Got(d)'
             /\ load'[d] \in Reading => load[d] \in Reading
  <2>1. CASE d = c
    BY <1>2, <1>7, <2>1, AnswerReaches DEF Reading
  <2>2. CASE d # c
    BY <1>2, <1>4, <2>2 DEF Got, Kept
  <2> QED  BY <2>1, <2>2
<1>8. ReadsReach'
  <2>1. ASSUME NEW d \in Client, conn[d] = "here"
        PROVE  \A e \in Nat : e < offset'[d] => e \in Got(d)' \/ Way(Replay(d, e))'
    BY <1>2, <1>6, <1>7, <2>1, ReadsKept DEF RInv
  <2> QED  BY <1>2, <2>1 DEF ReadsReach
<1>9. LivesReach'
  <2>1. ASSUME NEW d \in Client \ Exempt, conn[d] = "here", load'[d] \in Reading
        PROVE  \A e \in Nat : promised'[d] <= e /\ e < Passed' =>
                 e \in shut' \/ e \in Got(d)' \/ Way(Live(e))' \/ Kept(d, e)'
    BY <1>2, <1>6, <1>7, <2>1, LivesKept DEF RInv
  <2> QED  BY <1>2, <2>1 DEF LivesReach, Exempt
<1> QED  BY <1>1, <1>5, <1>8, <1>9 DEF RInv

LEMMA RAtFirst == Init => RInv
<1>1. SUFFICES ASSUME Init PROVE RInv
  OBVIOUS
<1>2. OInv
  BY <1>1, OAtFirst
<1>3. /\ offset = [c \in Client |-> 0] /\ promised = [c \in Client |-> 0]
      /\ written = 0 /\ emitted = 0 /\ emitting = FALSE
  BY <1>1 DEF Init
<1>4. PromiseKept
  BY <1>3 DEF PromiseKept
<1>5. ReadsReach
  BY <1>3 DEF ReadsReach
<1>6. LivesReach
  BY <1>3 DEF LivesReach, Passed
<1> QED  BY <1>2, <1>4, <1>5, <1>6 DEF RInv

LEMMA RNext == RInv /\ [Next]_vars => RInv'
<1>1. SUFFICES ASSUME RInv, [Next]_vars PROVE RInv'
  OBVIOUS
<1>2. CASE UNCHANGED vars
  <2>1. OInv'
    BY <1>1, ONext DEF RInv
  <2>2. /\ UNCHANGED <<load, offset, promised, degraded, failed, written, gateway, shut>>
        /\ UNCHANGED <<conn, pending, buffer, view, emitted, emitting>>
    BY <1>2 DEF vars, loadVars, sessionVars, leaderVars, gateHistory
  <2>3. PromiseKept' /\ ReadsReach' /\ LivesReach'
    BY <1>1, <2>2 DEF RInv, PromiseKept, ReadsReach, LivesReach, Got, Way, Kept, Passed, Exempt
  <2> QED  BY <2>1, <2>3 DEF RInv
<1> QED  BY <1>1, <1>2, RSession, RRoute, RLoadStep, RAnswer, RRequest, RDisconnect
         DEF Next, Progress

(* Whatever the moment at which a client attaches, in the middle of other   *)
(* loads or of a turn: once its load has been answered and nothing is on    *)
(* its way, it has been sent every event, but for those the gate kept back  *)
(* after its last flush.  Exempt, as in the property, are loads that failed *)
(* or had no second flush.                                                  *)
THEOREM NoEventLost == Spec => []EventsReach
<1>1. RInv => EventsReach
  <2> SUFFICES ASSUME RInv, NEW c \in Client \ Exempt, Listening(c), Settled,
                      NEW e \in 0..(emitted - 1)
               PROVE  e \in Got(c) \/ (e \in shut /\ e >= promised[c])
    BY DEF EventsReach, Exempt
  <2>1. emitted \in Nat /\ emitting = FALSE
    BY NumbersTrue, WrittenType DEF RInv, OInv, MInv, Settled
  <2>2. e \in Nat /\ e < Passed
    BY <2>1 DEF Passed
  <2>3. \A m : ~Way(m)
    BY DEF Way, Settled
  <2>4. conn[c] = "here" /\ load[c] = "done" /\ c \notin pending
    BY DEF RInv, OInv, MInv, ViewsTrue, Listening
  <2>5. promised[c] \in Nat /\ promised[c] <= offset[c] /\ offset[c] \in Nat
    BY <2>4, OffsetType DEF RInv, OInv, MInv, PromiseKept
  <2>6. CASE e < promised[c]
    <3>1. e < offset[c]
      BY <2>2, <2>5, <2>6
    <3> QED  BY <2>2, <2>3, <2>4, <3>1 DEF RInv, ReadsReach
  <2>7. CASE promised[c] <= e
    <3>1. e \in shut \/ e \in Got(c) \/ Way(Live(e)) \/ Kept(c, e)
      BY <2>2, <2>4, <2>7 DEF RInv, LivesReach, Reading
    <3> QED  BY <2>2, <2>3, <2>4, <2>5, <2>7, <3>1 DEF Kept
  <2> QED  BY <2>2, <2>5, <2>6, <2>7
<1> QED  BY <1>1, RAtFirst, RNext, PTL DEF Spec
=============================================================================
