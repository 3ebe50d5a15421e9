---------------------------- MODULE PromptQueue ----------------------------
(***************************************************************************)
(* The pure list edits the session actor of cf-shell makes on its          *)
(* server-authoritative prompt queue, State::pending_inputs                *)
(* (cf-shell/src/session: acp_session.rs and acp_session_impl).            *)
(*                                                                         *)
(* A queued InputItem is represented by its prompt id; what the edits look *)
(* at besides the id is its origin and whether it carries queue metadata,  *)
(* both fixed by the set the id belongs to, and its send_now flag, held in *)
(* the set `marked' of the ids whose flag is on.  Ids are unique: the      *)
(* client mints a fresh one per prompt, the server a uuid per synthetic    *)
(* one.  No definition here is recursive, so that the facts about them can *)
(* be proved (PromptQueueProofs) as well as checked (MCPromptQueue).       *)
(*                                                                         *)
(* SweepUnguarded, FrontSlotHead, SendNowSlotLifo, AppendFallback and      *)
(* EveryAt are faulty variants of the definitions that follow them.        *)
(* Nothing uses them: each is a slip the property that would notice it can *)
(* be tried against.                                                       *)
(***************************************************************************)
EXTENDS Subsequences, SequencesExt

CONSTANTS
  Client,     \* prompts a client submits: user origin, with queue metadata
  Fallback,   \* interjections, and the prompts stranded ones become: user
              \* origin, no queue metadata
  Wake,       \* auto-wake prompts of completed background tasks: synthetic,
              \* the only origin that carries a completion id
  Notice,     \* notifications; the drain turn of a batch is named by its
              \* first notice: synthetic
  Goal,       \* other prompts the session makes itself, goal continuations
              \* above all: synthetic
  Plan        \* prompts of a plan approval resumed after a restart: synthetic

Synthetic == Wake \cup Notice \cup Goal \cup Plan
User      == Client \cup Fallback
Prompts   == User \cup Synthetic

(***************************************************************************)
(* r is the prompt id of running_task, or a value that is no prompt.       *)
(***************************************************************************)
IsFront(q, r) == q # <<>> /\ Head(q) = r

(***************************************************************************)
(* State::sweep_pending_inputs: drop what the predicate matches, except    *)
(* the running turn's own slot, recognised by its id and not its index.    *)
(***************************************************************************)
SweepUnguarded(q, r, drop) == Keep(q, ToSet(q) \ drop)
Sweep(q, r, drop) == Keep(q, {p \in ToSet(q) : p = r \/ p \notin drop})

(***************************************************************************)
(* Where an item that must run next goes: behind the running front, which  *)
(* must never be displaced, else at the head.                              *)
(***************************************************************************)
FrontSlotHead(q, r) == 1
FrontSlot(q, r) == IF IsFront(q, r) THEN 2 ELSE 1

(***************************************************************************)
(* A send-now prompt goes further back, behind the send-now prompts that   *)
(* already wait there, so that stacked sends run first in first out.       *)
(***************************************************************************)
SendNowSlotLifo(q, r, marked) == FrontSlot(q, r)
SendNowSlot(q, r, marked) ==
  CHOOSE i \in FrontSlot(q, r)..(Len(q) + 1) :
    /\ i = Len(q) + 1 \/ q[i] \notin marked
    /\ \A j \in FrontSlot(q, r)..(i - 1) : q[j] \in marked

InsertSendNow(q, r, marked, p) == InsertAt(q, SendNowSlot(q, r, marked), p)
AppendFallback(q, r, p)        == Append(q, p)
InsertFallback(q, r, p)        == InsertAt(q, FrontSlot(q, r), p)

(***************************************************************************)
(* handle_reorder_queue: the running turn and every item without metadata  *)
(* first, in their order; then the queued rows sorted, stably, by their    *)
(* first position in the requested order, those it does not name last.     *)
(***************************************************************************)
EveryAt(order, K) == KeptAt(order, K)
FirstAt(order, K) ==
  {i \in KeptAt(order, K) : \A k \in 1..(i - 1) : order[k] # order[i]}

Reordered(q, r, order) ==
  LET rows == (ToSet(q) \cap Client) \ {r}
  IN  Keep(q, ToSet(q) \ rows)
        \o At(order, FirstAt(order, rows))
        \o Keep(q, rows \ ToSet(order))
=============================================================================
