--------------------------- MODULE MCPromptQueue ---------------------------
(***************************************************************************)
(* The queue operators against what the code's loops are meant to compute, *)
(* stated declaratively, on every queue of distinct prompts up to length   *)
(* MaxLen, every running prompt, every set of send-now flags and every     *)
(* order of up to MaxLen ids, repeated and unknown ones included.  The     *)
(* queue grows row by row: one behaviour per queue, so that TLC visits     *)
(* each case once.                                                         *)
(***************************************************************************)
EXTENDS PromptQueue

CONSTANTS None, MaxLen

ASSUME MaxLenAssumption == MaxLen \in Nat

VARIABLES queue, running, marked, order

Cases == <<queue, running, marked, order>>

Init == queue = <<>> /\ running = None /\ marked = {} /\ order = <<>>

Enqueue(p) ==
  /\ Len(queue) < MaxLen /\ p \notin ToSet(queue)
  /\ queue' = Append(queue, p)
  /\ UNCHANGED <<running, marked, order>>

Run(p) == running = None /\ running' = p /\ UNCHANGED <<queue, marked, order>>

Mark(p) ==
  /\ p \in ToSet(queue) \cap User /\ p \notin marked
  /\ marked' = marked \cup {p}
  /\ UNCHANGED <<queue, running, order>>

Name(p) ==
  /\ Len(order) < MaxLen
  /\ order' = Append(order, p)
  /\ UNCHANGED <<queue, running, marked>>

Next == \E p \in Prompts : Enqueue(p) \/ Run(p) \/ Mark(p) \/ (p \in Client /\ Name(p))

Spec == Init /\ [][Next]_Cases

----------------------------------------------------------------------------
(* The loop of retain and of the sweep: take the rows one by one and push  *)
(* those to keep.  SelectSeq is this loop too, but the proofs need to see  *)
(* its definition.                                                         *)
Pushed(s, K) ==
  LET kept[n \in 0..Len(s)] ==
        IF n = 0 THEN <<>>
        ELSE IF s[n] \in K THEN Append(kept[n - 1], s[n]) ELSE kept[n - 1]
  IN  kept[Len(s)]

(* The sort of handle_reorder_queue: a permutation of the queue, ascending *)
(* by (pinned before reorderable, first position in the order, unnamed     *)
(* last), stable among equals; the running turn at the front stays there.  *)
Key(p) ==
  IF p \notin Client \/ p = running THEN 0
  ELSE IF p \notin ToSet(order) THEN MaxLen + 1
  ELSE CHOOSE i \in DOMAIN order :
         order[i] = p /\ \A k \in 1..(i - 1) : order[k] # p
IndexIn(s, p) == CHOOSE i \in DOMAIN s : s[i] = p

ReorderSorts ==
  LET s == Reordered(queue, running, order)
  IN  /\ Len(s) = Len(queue) /\ ToSet(s) = ToSet(queue)
      /\ \A i, j \in DOMAIN s :
           i < j => \/ Key(s[i]) < Key(s[j])
                    \/ /\ Key(s[i]) = Key(s[j])
                       /\ IndexIn(queue, s[i]) < IndexIn(queue, s[j])
      /\ IsFront(queue, running) => IsFront(s, running)

(* A send-now prompt goes behind the running front and the send-now rows   *)
(* that follow it, ahead of every other row, and moves no row.             *)
SendNowStacks ==
  \A p \in User \ ToSet(queue) :
    LET s == InsertSendNow(queue, running, marked, p)
        at == IndexIn(s, p)
    IN  /\ Keep(s, ToSet(queue)) = queue
        /\ IsFront(queue, running) => IsFront(s, running)
        /\ \A i \in 1..(at - 1) :
             s[i] \in marked \/ (i = 1 /\ s[i] = running)
        /\ at < Len(s) => s[at + 1] \notin marked

(* A sweep removes exactly the matching rows, never the running turn's own *)
(* slot, wherever that is, and keeps the order of the rest.                *)
SweepSparesRunning ==
  \A drop \in {Synthetic, Wake} :
    LET s == Sweep(queue, running, drop)
    IN  /\ running \in ToSet(queue) => running \in ToSet(s)
        /\ ToSet(s) \cap drop \subseteq {running}
        /\ s = Pushed(queue, {p \in Prompts : p = running \/ p \notin drop})
=============================================================================
