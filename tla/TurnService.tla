---------------------------- MODULE TurnService ----------------------------
(***************************************************************************)
(* What a session promises about the prompts it is sent, whatever the      *)
(* queue edits, cancels, wakes and start tasks behind it: it accepts a     *)
(* prompt once, runs at most one turn at a time, starts a turn only for an *)
(* accepted prompt that has not been answered, and answers each once.      *)
(***************************************************************************)
CONSTANTS Requests,  \* the prompts clients and the session itself may submit
          None       \* no turn: not a request

VARIABLES waiting,   \* accepted, no turn yet
          turn,      \* the prompt whose turn runs
          answered   \* prompts whose request has been answered

state == <<waiting, turn, answered>>

Init == waiting = {} /\ turn = None /\ answered = {}

(***************************************************************************)
(* A new prompt may preempt waiting ones, which are answered as dropped.   *)
(***************************************************************************)
Accept(p, gone) ==
  /\ p \notin waiting \cup answered \cup {turn} /\ gone \subseteq waiting
  /\ waiting' = (waiting \ gone) \cup {p}
  /\ answered' = answered \cup gone
  /\ UNCHANGED turn

Start(p) ==
  /\ turn = None /\ p \in waiting
  /\ turn' = p /\ waiting' = waiting \ {p}
  /\ UNCHANGED answered

(***************************************************************************)
(* The turn completes or is cancelled, some waiting prompts with it.       *)
(***************************************************************************)
Finish(others) ==
  /\ turn # None /\ others \subseteq waiting
  /\ turn' = None
  /\ waiting' = waiting \ others
  /\ answered' = answered \cup {turn} \cup others

Discard(gone) ==
  /\ gone \subseteq waiting
  /\ waiting' = waiting \ gone
  /\ answered' = answered \cup gone
  /\ UNCHANGED turn

Next ==
  \/ \E p \in Requests : Start(p) \/ \E gone \in SUBSET waiting : Accept(p, gone)
  \/ \E gone \in SUBSET waiting : Finish(gone) \/ Discard(gone)

Spec == Init /\ [][Next]_state
=============================================================================
