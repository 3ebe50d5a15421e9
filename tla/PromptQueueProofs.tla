-------------------------- MODULE PromptQueueProofs --------------------------
(***************************************************************************)
(* Proofs about the edits of PromptQueue, for every queue, running prompt, *)
(* set of send-now flags and order: each yields a queue of prompts again,  *)
(* and none displaces the running front; which rows it then holds, and in  *)
(* which order.                                                            *)
(***************************************************************************)
EXTENDS PromptQueue, SubsequenceFacts

----------------------------------------------------------------------------
(* The edits of the queue: each yields a queue of prompts again, and none  *)
(* displaces the running front; which rows it then holds, and in which     *)
(* order.                                                                  *)

(* A running front that is selected stays the front.                       *)
LEMMA KeepFront ==
  ASSUME NEW S, NEW s \in Seq(S), NEW K, NEW r \in K, IsFront(s, r)
  PROVE  IsFront(Keep(s, K), r)
<1>1. s[1] = r /\ 1 \in DOMAIN s
  BY DEF IsFront
<1>2. KeptAt(s, K) \in SUBSET DOMAIN s /\ 1 \in KeptAt(s, K)
  BY <1>1 DEF KeptAt
<1> QED BY <1>1, <1>2, AtHead DEF Keep, IsFront

(* sweep_pending_inputs yields a queue and spares the running front.       *)
THEOREM SweepSafe ==
  ASSUME NEW q \in Seq(Prompts), NEW r, NEW drop
  PROVE  /\ Sweep(q, r, drop) \in Seq(Prompts)
         /\ IsFront(q, r) => IsFront(Sweep(q, r, drop), r)
<1> DEFINE K == {p \in ToSet(q) : p = r \/ p \notin drop}
<1>1. Keep(q, K) \in Seq(Prompts)
  BY KeepType
<1>2. ASSUME IsFront(q, r)  PROVE IsFront(Keep(q, K), r)
  <2>1. r \in K
    BY <1>2 DEF IsFront, ToSet
  <2> QED BY <1>2, <2>1, KeepFront
<1> QED BY <1>1, <1>2 DEF Sweep

----------------------------------------------------------------------------
(* A prompt at the back of the queue displaces nothing.                    *)
THEOREM AppendSafe ==
  ASSUME NEW q \in Seq(Prompts), NEW r, NEW p \in Prompts
  PROVE  /\ Append(q, p) \in Seq(Prompts)
         /\ IsFront(q, r) => IsFront(Append(q, p), r)
BY DEF IsFront

(* An insertion yields a queue, and behind the head it leaves the head.    *)
LEMMA InsertAtSafe ==
  ASSUME NEW q \in Seq(Prompts), NEW p \in Prompts, NEW i \in 1..(Len(q) + 1)
  PROVE  /\ InsertAt(q, i, p) \in Seq(Prompts)
         /\ q # <<>> /\ i # 1 => InsertAt(q, i, p) # <<>>
                                 /\ Head(InsertAt(q, i, p)) = Head(q)
<1>1. SubSeq(q, 1, i - 1) \in Seq(Prompts) /\ SubSeq(q, i, Len(q)) \in Seq(Prompts)
  OBVIOUS
<1>2. InsertAt(q, i, p) \in Seq(Prompts)
  BY <1>1 DEF InsertAt
<1>3. ASSUME q # <<>>, i # 1
      PROVE  InsertAt(q, i, p) # <<>> /\ Head(InsertAt(q, i, p)) = Head(q)
  <2> DEFINE before == SubSeq(q, 1, i - 1)
             after  == SubSeq(q, i, Len(q))
  <2>1. before # <<>> /\ Head(before) = Head(q) /\ <<p>> \in Seq(Prompts)
    BY <1>3
  <2>2. /\ before \o <<p>> \in Seq(Prompts) /\ before \o <<p>> # <<>>
        /\ Head(before \o <<p>>) = Head(q)
    BY <1>1, <2>1, ConcatHead
  <2>3. /\ (before \o <<p>>) \o after # <<>>
        /\ Head((before \o <<p>>) \o after) = Head(q)
    BY <1>1, <2>2, ConcatHead
  <2> QED BY <2>3 DEF InsertAt
<1> QED BY <1>2, <1>3

(* Where every row is after an insertion.                                  *)
LEMMA InsertAtPositions ==
  ASSUME NEW s \in Seq(Prompts), NEW p \in Prompts, NEW i \in 1..(Len(s) + 1)
  PROVE  /\ Len(InsertAt(s, i, p)) = Len(s) + 1
         /\ DOMAIN InsertAt(s, i, p) = 1..(Len(s) + 1)
         /\ \A n \in DOMAIN InsertAt(s, i, p) :
              InsertAt(s, i, p)[n] = IF n = i THEN p ELSE s[IF n < i THEN n ELSE n - 1]
<1> DEFINE t == InsertAt(s, i, p)
           Old(k) == IF k < i THEN k ELSE k - 1
<1>1. SubSeq(s, 1, i - 1) \in Seq(Prompts) /\ SubSeq(s, i, Len(s)) \in Seq(Prompts)
  OBVIOUS
<1>2. PICK before \in Seq(Prompts) : before = SubSeq(s, 1, i - 1)
  BY <1>1
<1>3. PICK after \in Seq(Prompts) : after = SubSeq(s, i, Len(s))
  BY <1>1
<1>4. /\ Len(before) = i - 1 /\ Len(after) = Len(s) - i + 1
      /\ \A n \in 1..(i - 1) : before[n] = s[n]
      /\ \A n \in 1..(Len(s) - i + 1) : after[n] = s[i + n - 1]
  BY <1>2, <1>3
<1>5. PICK one \in Seq(Prompts) : one = <<p>> /\ Len(one) = 1 /\ one[1] = p
  <2>1. <<p>> \in Seq(Prompts) /\ Len(<<p>>) = 1 /\ <<p>>[1] = p
    OBVIOUS
  <2> QED BY <2>1
<1>6. PICK start \in Seq(Prompts) : start = before \o one
  <2>1. before \o one \in Seq(Prompts)
    BY ConcatProperties
  <2> QED BY <2>1
<1>7. t = start \o after
  BY <1>2, <1>3, <1>5, <1>6 DEF InsertAt
<1> HIDE DEF t
<1>8. Len(s) \in Nat /\ Len(after) \in Nat /\ Len(before) \in Nat /\ i \in Nat
  OBVIOUS
<1>9. Len(start) = i /\ start[i] = p /\ \A l \in 1..(i - 1) : start[l] = before[l]
  <2>1. /\ Len(start) = Len(before) + Len(one)
        /\ \A l \in 1..(Len(before) + Len(one)) :
             start[l] = IF l <= Len(before) THEN before[l] ELSE one[l - Len(before)]
    BY <1>6, ConcatProperties
  <2>2. Len(start) = i
    BY <1>4, <1>5, <1>8, <2>1
  <2>3. start[i] = one[i - (i - 1)] /\ i - (i - 1) = 1
    BY <1>4, <1>5, <1>8, <2>1
  <2>4. ASSUME NEW l \in 1..(i - 1)  PROVE start[l] = before[l]
    BY <1>4, <1>5, <1>8, <2>1
  <2> QED BY <1>5, <2>2, <2>3, <2>4
<1>10. /\ t \in Seq(Prompts) /\ Len(t) = i + Len(after)
       /\ \A l \in 1..(i + Len(after)) :
            t[l] = IF l <= i THEN start[l] ELSE after[l - i]
  BY <1>7, <1>9, ConcatProperties
<1>11. Len(t) = Len(s) + 1 /\ DOMAIN t = 1..(Len(s) + 1)
  BY <1>4, <1>8, <1>10
<1>12. ASSUME NEW n \in 1..(Len(s) + 1)
       PROVE  t[n] = IF n = i THEN p ELSE s[Old(n)]
  <2>1. t[n] = IF n <= i THEN start[n] ELSE after[n - i]
    BY <1>4, <1>8, <1>10
  <2>2. CASE n < i
    <3>1. n <= i /\ n # i /\ n \in 1..(i - 1)
      BY <1>8, <2>2
    <3> QED BY <1>4, <1>9, <2>1, <2>2, <3>1
  <2>3. CASE n = i
    BY <1>8, <1>9, <2>1, <2>3
  <2>4. CASE n > i
    <3>1. ~(n <= i) /\ ~(n < i) /\ n # i /\ n - i \in 1..(Len(s) - i + 1)
      BY <1>8, <2>4
    <3>2. after[n - i] = s[i + (n - i) - 1]
      BY <1>4, <3>1
    <3>3. i + (n - i) - 1 = n - 1
      BY <1>8
    <3> QED BY <2>1, <3>1, <3>2, <3>3
  <2> QED BY <1>8, <2>2, <2>3, <2>4
<1> QED BY <1>11, <1>12 DEF t

(* The slot of a send-now prompt exists and is behind the running front.   *)
LEMMA SendNowSlotFacts ==
  ASSUME NEW q \in Seq(Prompts), NEW r, NEW ms
  PROVE  /\ SendNowSlot(q, r, ms) \in FrontSlot(q, r)..(Len(q) + 1)
         /\ \A j \in FrontSlot(q, r)..(SendNowSlot(q, r, ms) - 1) : q[j] \in ms
         /\ \/ SendNowSlot(q, r, ms) = Len(q) + 1
            \/ q[SendNowSlot(q, r, ms)] \notin ms
<1> DEFINE f == FrontSlot(q, r)
           Free(i) == i = Len(q) + 1 \/ q[i] \notin ms
           M == {i \in f..(Len(q) + 1) : Free(i)}
<1>1. Len(q) \in Nat /\ f \in {1, 2} /\ f <= Len(q) + 1
  BY DEF FrontSlot, IsFront
<1>2. M \in SUBSET Nat /\ Len(q) + 1 \in M
  BY <1>1
<1>3. PICK i \in M : \A k \in M : i <= k
  BY <1>2, LeastNatural
<1>4. ASSUME NEW j \in f..(i - 1)  PROVE q[j] \in ms
  <2>1. j \in f..(Len(q) + 1) /\ ~(i <= j)
    BY <1>1, <1>3
  <2>2. j \notin M
    BY <1>3, <2>1, Zenon
  <2> QED BY <2>1, <2>2
<1>5. \E k \in f..(Len(q) + 1) :
        Free(k) /\ \A j \in f..(k - 1) : q[j] \in ms
  BY <1>3, <1>4
<1> QED BY <1>5 DEF SendNowSlot

(* queue_input and handle_interject_queued_prompt: a send-now prompt never *)
(* displaces the running turn.                                             *)
THEOREM InsertSendNowSafe ==
  ASSUME NEW q \in Seq(Prompts), NEW r, NEW ms, NEW p \in Prompts
  PROVE  /\ InsertSendNow(q, r, ms, p) \in Seq(Prompts)
         /\ IsFront(q, r) => IsFront(InsertSendNow(q, r, ms, p), r)
<1>1. SendNowSlot(q, r, ms) \in FrontSlot(q, r)..(Len(q) + 1)
  BY SendNowSlotFacts
<1>2. FrontSlot(q, r) \in {1, 2} /\ (IsFront(q, r) => FrontSlot(q, r) = 2)
  BY DEF FrontSlot
<1>3. /\ SendNowSlot(q, r, ms) \in 1..(Len(q) + 1)
      /\ IsFront(q, r) => SendNowSlot(q, r, ms) # 1
  BY <1>1, <1>2
<1> QED BY <1>3, InsertAtSafe DEF InsertSendNow, IsFront

(* queue_interjection_fallback_prompt: likewise.                           *)
THEOREM InsertFallbackSafe ==
  ASSUME NEW q \in Seq(Prompts), NEW r, NEW p \in Prompts
  PROVE  /\ InsertFallback(q, r, p) \in Seq(Prompts)
         /\ IsFront(q, r) => IsFront(InsertFallback(q, r, p), r)
<1>1. /\ FrontSlot(q, r) \in 1..(Len(q) + 1)
      /\ IsFront(q, r) => FrontSlot(q, r) # 1
  BY DEF FrontSlot, IsFront
<1> QED BY <1>1, InsertAtSafe DEF InsertFallback, IsFront

(* handle_reorder_queue: any order a client asks for yields a queue and    *)
(* leaves the running turn at the front.                                   *)
THEOREM ReorderedSafe ==
  ASSUME NEW q \in Seq(Prompts), NEW r, NEW order \in Seq(Client)
  PROVE  /\ Reordered(q, r, order) \in Seq(Prompts)
         /\ IsFront(q, r) => IsFront(Reordered(q, r, order), r)
<1> DEFINE rows == (ToSet(q) \cap Client) \ {r}
           pinned == Keep(q, ToSet(q) \ rows)
           named == At(order, FirstAt(order, rows))
           rest == Keep(q, rows \ ToSet(order))
<1>1. pinned \in Seq(Prompts) /\ rest \in Seq(Prompts)
  BY KeepType
<1>2. named \in Seq(Prompts)
  <2>1. FirstAt(order, rows) \in SUBSET DOMAIN order
    BY DEF FirstAt, KeptAt
  <2>2. order \in Seq(Prompts)
    BY DEF Prompts, User
  <2> QED BY <2>1, <2>2, AtType
<1>3. Reordered(q, r, order) = (pinned \o named) \o rest
  BY DEF Reordered
<1>4. ASSUME IsFront(q, r)  PROVE IsFront((pinned \o named) \o rest, r)
  <2>1. r \in ToSet(q) \ rows
    BY <1>4 DEF IsFront, ToSet
  <2>2. IsFront(pinned, r)
    BY <1>4, <2>1, KeepFront
  <2> HIDE DEF pinned, named, rest
  <2>3. IsFront(pinned \o named, r) /\ pinned \o named \in Seq(Prompts)
    BY <1>1, <1>2, <2>2, ConcatHead DEF IsFront
  <2> QED BY <1>1, <2>3, ConcatHead DEF IsFront
<1> HIDE DEF pinned, named, rest
<1> QED BY <1>1, <1>2, <1>3, <1>4

(* sweep_pending_inputs, as a set.                                         *)
LEMMA SweepContents ==
  ASSUME NEW q \in Seq(Prompts), NEW r, NEW drop
  PROVE  /\ ToSet(Sweep(q, r, drop)) = {p \in ToSet(q) : p = r \/ p \notin drop}
         /\ IsInjective(q) => IsInjective(Sweep(q, r, drop))
BY KeepContents DEF Sweep

(* An insertion anywhere.                                                  *)
LEMMA InsertAtContents ==
  ASSUME NEW q \in Seq(Prompts), NEW p \in Prompts, NEW i \in 1..(Len(q) + 1)
  PROVE  /\ ToSet(InsertAt(q, i, p)) = ToSet(q) \cup {p}
         /\ IsInjective(q) /\ p \notin ToSet(q) => IsInjective(InsertAt(q, i, p))
<1> DEFINE before == SubSeq(q, 1, i - 1)
           after  == SubSeq(q, i, Len(q))
           one == <<p>>
<1>1. before \in Seq(Prompts) /\ after \in Seq(Prompts) /\ one \in Seq(Prompts)
  OBVIOUS
<1>2. before \o after = q
  <2> DEFINE k == i - 1
             n == Len(q)
  <2>1. 1 \in 1..(n + 1) /\ k \in (1 - 1)..n /\ n \in k..n /\ k + 1 = i
    OBVIOUS
  <2> HIDE DEF k
  <2>2. SubSeq(q, 1, k) \o SubSeq(q, k + 1, n) = SubSeq(q, 1, n)
    BY <2>1, ConcatAdjacentSubSeq
  <2>3. SubSeq(q, 1, n) = q
    BY SubSeqFull
  <2> QED BY <2>1, <2>2, <2>3 DEF k
<1>3. InsertAt(q, i, p) = (before \o one) \o after
  BY DEF InsertAt
<1>4. before \o one \in Seq(Prompts)
  BY <1>1
<1>5. ToSet(one) = {p} /\ IsInjective(one)
  BY SingleContents
<1> HIDE DEF before, after, one
<1>6. /\ ToSet(q) = ToSet(before) \cup ToSet(after)
      /\ IsInjective(q) <=> /\ IsInjective(before) /\ IsInjective(after)
                            /\ ToSet(before) \cap ToSet(after) = {}
  <2>1. /\ ToSet(before \o after) = ToSet(before) \cup ToSet(after)
        /\ IsInjective(before \o after) <=>
             /\ IsInjective(before) /\ IsInjective(after)
             /\ ToSet(before) \cap ToSet(after) = {}
    BY <1>1, ConcatContents
  <2> QED BY <1>2, <2>1
<1>7. /\ ToSet(before \o one) = ToSet(before) \cup {p}
      /\ IsInjective(before \o one) <=> IsInjective(before) /\ p \notin ToSet(before)
  BY <1>1, <1>5, ConcatContents
<1>8. /\ ToSet(InsertAt(q, i, p)) = ToSet(before \o one) \cup ToSet(after)
      /\ IsInjective(InsertAt(q, i, p)) <=>
           /\ IsInjective(before \o one) /\ IsInjective(after)
           /\ ToSet(before \o one) \cap ToSet(after) = {}
  <2> DEFINE start == before \o one
  <2>1. InsertAt(q, i, p) = start \o after /\ start \in Seq(Prompts)
    BY <1>3, <1>4
  <2> HIDE DEF start
  <2>2. /\ ToSet(start \o after) = ToSet(start) \cup ToSet(after)
        /\ IsInjective(start \o after) <=>
             /\ IsInjective(start) /\ IsInjective(after)
             /\ ToSet(start) \cap ToSet(after) = {}
    BY <1>1, <2>1, ConcatContents
  <2> QED BY <2>1, <2>2 DEF start
<1> QED BY <1>6, <1>7, <1>8

LEMMA InsertSendNowContents ==
  ASSUME NEW q \in Seq(Prompts), NEW r, NEW ms, NEW p \in Prompts
  PROVE  /\ ToSet(InsertSendNow(q, r, ms, p)) = ToSet(q) \cup {p}
         /\ IsInjective(q) /\ p \notin ToSet(q)
              => IsInjective(InsertSendNow(q, r, ms, p))
<1>1. SendNowSlot(q, r, ms) \in FrontSlot(q, r)..(Len(q) + 1)
  BY SendNowSlotFacts
<1>2. FrontSlot(q, r) \in {1, 2}
  BY DEF FrontSlot
<1>3. SendNowSlot(q, r, ms) \in 1..(Len(q) + 1)
  BY <1>1, <1>2
<1> QED BY <1>3, InsertAtContents DEF InsertSendNow

LEMMA InsertFallbackContents ==
  ASSUME NEW q \in Seq(Prompts), NEW r, NEW p \in Prompts
  PROVE  /\ ToSet(InsertFallback(q, r, p)) = ToSet(q) \cup {p}
         /\ IsInjective(q) /\ p \notin ToSet(q) => IsInjective(InsertFallback(q, r, p))
<1>1. FrontSlot(q, r) \in 1..(Len(q) + 1)
  BY DEF FrontSlot, IsFront
<1> QED BY <1>1, InsertAtContents DEF InsertFallback

(* handle_reorder_queue permutes the queue: whatever order a client asks   *)
(* for, no row is lost and none is doubled.                                *)
THEOREM ReorderedContents ==
  ASSUME NEW q \in Seq(Prompts), NEW r, NEW order \in Seq(Client)
  PROVE  /\ ToSet(Reordered(q, r, order)) = ToSet(q)
         /\ IsInjective(q) => IsInjective(Reordered(q, r, order))
<1> DEFINE rows == (ToSet(q) \cap Client) \ {r}
           pinned == Keep(q, ToSet(q) \ rows)
           first == FirstAt(order, rows)
           named == At(order, first)
           rest == Keep(q, rows \ ToSet(order))
<1>1. pinned \in Seq(Prompts) /\ rest \in Seq(Prompts)
  BY KeepType
<1>2. order \in Seq(Prompts) /\ first \in SUBSET DOMAIN order
  BY DEF Prompts, User, FirstAt, KeptAt
<1>3. named \in Seq(Prompts)
  BY <1>2, AtType
<1>4. ToSet(pinned) = ToSet(q) \ rows /\ ToSet(rest) = rows \ ToSet(order)
  BY KeepContents
<1>5. ToSet(named) = rows \cap ToSet(order)
  <2>1. ToSet(named) = {order[i] : i \in first}
    BY <1>2, AtContents
  <2>2. ASSUME NEW i \in first  PROVE order[i] \in rows \cap ToSet(order)
    BY DEF FirstAt, KeptAt, ToSet
  <2>3. ASSUME NEW p \in rows \cap ToSet(order)
        PROVE  \E i \in first : order[i] = p
    <3> DEFINE M == {i \in DOMAIN order : order[i] = p}
    <3>1. M \in SUBSET Nat /\ M # {}
      BY DEF ToSet
    <3>2. PICK m \in M : \A k \in M : m <= k
      BY <3>1, LeastNatural
    <3>3. m \in KeptAt(order, rows) /\ order[m] = p
      BY <2>3, <3>2 DEF KeptAt
    <3>4. ASSUME NEW k \in 1..(m - 1)  PROVE order[k] # order[m]
      <4>1. k \in DOMAIN order /\ ~(m <= k)
        BY <3>2
      <4> QED BY <3>2, <3>3, <4>1
    <3> QED BY <3>3, <3>4 DEF FirstAt
  <2> QED BY <2>1, <2>2, <2>3
<1>6. IsInjective(named)
  <2>1. ASSUME NEW i \in first, NEW k \in first, order[i] = order[k]
        PROVE  i = k
    <3>1. i \in DOMAIN order /\ k \in DOMAIN order
      BY <1>2
    <3>2. \A j \in 1..(i - 1) : order[j] # order[i]
      BY DEF FirstAt
    <3>3. \A j \in 1..(k - 1) : order[j] # order[k]
      BY DEF FirstAt
    <3>4. i \in Nat /\ k \in Nat /\ 1 <= i /\ 1 <= k
      BY <3>1
    <3>5. ~(i < k) /\ ~(k < i)
      BY <2>1, <3>2, <3>3, <3>4
    <3> QED BY <3>4, <3>5
  <2> QED BY <1>2, <2>1, AtInjective
<1>7. IsInjective(q) => IsInjective(pinned) /\ IsInjective(rest)
  BY KeepContents
<1>8. Reordered(q, r, order) = (pinned \o named) \o rest
  BY DEF Reordered
<1>9. rows \subseteq ToSet(q)
  OBVIOUS
<1> HIDE DEF pinned, named, rest, rows, first
<1>10. /\ ToSet(pinned \o named) = ToSet(pinned) \cup ToSet(named)
       /\ IsInjective(pinned \o named) <=>
            /\ IsInjective(pinned) /\ IsInjective(named)
            /\ ToSet(pinned) \cap ToSet(named) = {}
       /\ pinned \o named \in Seq(Prompts)
  BY <1>1, <1>3, ConcatContents
<1>11. /\ ToSet((pinned \o named) \o rest) = ToSet(pinned \o named) \cup ToSet(rest)
       /\ IsInjective((pinned \o named) \o rest) <=>
            /\ IsInjective(pinned \o named) /\ IsInjective(rest)
            /\ ToSet(pinned \o named) \cap ToSet(rest) = {}
  BY <1>1, <1>10, ConcatContents
<1> QED BY <1>4, <1>5, <1>6, <1>7, <1>8, <1>9, <1>10, <1>11

(* How a sorted queue has x before y: x is pinned and y is not, or x is    *)
(* named in the order and y is not, or an earlier first mention names x,   *)
(* or the order tells nothing of the two and x was the earlier one before. *)
Precedes(q, rows, order, x, y) ==
  \/ x \notin rows /\ y \in rows
  \/ x \in rows \cap ToSet(order) /\ y \in rows \ ToSet(order)
  \/ \E i, k \in FirstAt(order, rows) : i < k /\ x = order[i] /\ y = order[k]
  \/ /\ x \in rows <=> y \in rows
     /\ {x, y} \cap rows \cap ToSet(order) = {}
     /\ \E i, k \in DOMAIN q : i < k /\ x = q[i] /\ y = q[k]

(* handle_reorder_queue sorts, stably: any two of its rows are so.         *)
THEOREM ReorderedSorted ==
  ASSUME NEW q \in Seq(Prompts), NEW r, NEW order \in Seq(Client),
         NEW rows, rows = (ToSet(q) \cap Client) \ {r},
         NEW s, s = Reordered(q, r, order),
         NEW a \in DOMAIN s, NEW b \in DOMAIN s, a < b
  PROVE  Precedes(q, rows, order, s[a], s[b])
<1> SUFFICES \/ s[a] \notin rows /\ s[b] \in rows
             \/ s[a] \in rows \cap ToSet(order) /\ s[b] \in rows \ ToSet(order)
             \/ \E i, k \in FirstAt(order, rows) : i < k /\ s[a] = order[i] /\ s[b] = order[k]
             \/ /\ s[a] \in rows <=> s[b] \in rows
                /\ {s[a], s[b]} \cap rows \cap ToSet(order) = {}
                /\ \E i, k \in DOMAIN q : i < k /\ s[a] = q[i] /\ s[b] = q[k]
  BY DEF Precedes
<1>0. PICK first : first = FirstAt(order, rows)
  OBVIOUS
<1> DEFINE pinned == Keep(q, ToSet(q) \ rows)
           named == At(order, first)
           rest == Keep(q, rows \ ToSet(order))
<1>1. pinned \in Seq(Prompts) /\ rest \in Seq(Prompts)
  BY KeepType
<1>2. order \in Seq(Prompts) /\ first \in SUBSET DOMAIN order
  BY <1>0 DEF Prompts, User, FirstAt, KeptAt
<1>3. named \in Seq(Prompts)
  BY <1>2, AtType
<1>4. ToSet(pinned) = ToSet(q) \ rows /\ ToSet(rest) = rows \ ToSet(order)
  BY KeepContents
<1>5. ToSet(named) \subseteq rows \cap ToSet(order)
  <2>1. ToSet(named) = {order[i] : i \in first}
    BY <1>2, AtContents
  <2> QED BY <1>0, <2>1 DEF FirstAt, KeptAt, ToSet
<1>6. s = (pinned \o named) \o rest
  BY <1>0 DEF Reordered
<1>7. \A i, k \in DOMAIN pinned : i < k =>
        \E x, y \in DOMAIN q : x < y /\ pinned[i] = q[x] /\ pinned[k] = q[y]
  BY KeepOrder
<1>8. \A i, k \in DOMAIN rest : i < k =>
        \E x, y \in DOMAIN q : x < y /\ rest[i] = q[x] /\ rest[k] = q[y]
  BY KeepOrder
<1>9. \A i, k \in DOMAIN named : i < k =>
        \E x, y \in first : x < y /\ named[i] = order[x] /\ named[k] = order[y]
  BY <1>2, AtOrder
<1>10. /\ \A i \in DOMAIN pinned : pinned[i] \in ToSet(pinned)
       /\ \A i \in DOMAIN rest : rest[i] \in ToSet(rest)
  BY DEF ToSet
<1> HIDE DEF pinned, named, rest
<1>11. PICK t : t = pinned \o named
  OBVIOUS
<1>12. t \in Seq(Prompts) /\ ToSet(t) = ToSet(pinned) \cup ToSet(named)
  BY <1>1, <1>3, <1>11, ConcatContents
<1>13. \/ s[a] \in ToSet(t) /\ s[b] \in ToSet(rest)
       \/ \E i, k \in DOMAIN t : i < k /\ s[a] = t[i] /\ s[b] = t[k]
       \/ \E i, k \in DOMAIN rest : i < k /\ s[a] = rest[i] /\ s[b] = rest[k]
  <2>1. s = t \o rest
    BY <1>6, <1>11
  <2>2. InParts(s, t, rest)
    BY <1>1, <1>12, <2>1, ConcatPositions
  <2> QED BY <2>2 DEF InParts
<1>14. CASE s[a] \in ToSet(t) /\ s[b] \in ToSet(rest)
  BY <1>4, <1>5, <1>12, <1>14
<1>15. CASE \E i, k \in DOMAIN rest : i < k /\ s[a] = rest[i] /\ s[b] = rest[k]
  <2>1. s[a] \in ToSet(rest) /\ s[b] \in ToSet(rest)
    BY <1>10, <1>15
  <2>2. \E x, y \in DOMAIN q : x < y /\ s[a] = q[x] /\ s[b] = q[y]
    BY <1>8, <1>15
  <2> QED BY <1>4, <2>1, <2>2
<1>16. CASE \E i, k \in DOMAIN t : i < k /\ s[a] = t[i] /\ s[b] = t[k]
  <2>1. \/ s[a] \in ToSet(pinned) /\ s[b] \in ToSet(named)
        \/ \E i, k \in DOMAIN pinned : i < k /\ s[a] = pinned[i] /\ s[b] = pinned[k]
        \/ \E i, k \in DOMAIN named : i < k /\ s[a] = named[i] /\ s[b] = named[k]
    <3>1. PICK i \in DOMAIN t, k \in DOMAIN t : i < k /\ s[a] = t[i] /\ s[b] = t[k]
      BY <1>16
    <3>2. InParts(t, pinned, named)
      BY <1>1, <1>3, <1>11, ConcatPositions
    <3> QED BY <3>1, <3>2 DEF InParts
  <2>2. CASE s[a] \in ToSet(pinned) /\ s[b] \in ToSet(named)
    BY <1>4, <1>5, <2>2
  <2>3. CASE \E i, k \in DOMAIN pinned : i < k /\ s[a] = pinned[i] /\ s[b] = pinned[k]
    <3>1. s[a] \in ToSet(pinned) /\ s[b] \in ToSet(pinned)
      BY <1>10, <2>3
    <3>2. \E x, y \in DOMAIN q : x < y /\ s[a] = q[x] /\ s[b] = q[y]
      BY <1>7, <2>3
    <3> QED BY <1>4, <3>1, <3>2
  <2>4. CASE \E i, k \in DOMAIN named : i < k /\ s[a] = named[i] /\ s[b] = named[k]
    <3>1. PICK i \in DOMAIN named, k \in DOMAIN named :
            i < k /\ s[a] = named[i] /\ s[b] = named[k]
      BY <2>4
    <3>2. \E x, y \in first : x < y /\ s[a] = order[x] /\ s[b] = order[y]
      BY <1>9, <3>1
    <3> QED BY <1>0, <3>2
  <2> QED BY <2>1, <2>2, <2>3, <2>4
<1> QED BY <1>13, <1>14, <1>15, <1>16

(* A send-now prompt goes behind the running front and the send-now rows   *)
(* that follow it, and ahead of every other row (queue_input and           *)
(* handle_interject_queued_prompt).                                        *)
THEOREM SendNowStacked ==
  ASSUME NEW q \in Seq(Prompts), NEW r, NEW ms, NEW p \in Prompts
  PROVE  \E at \in 1..(Len(q) + 1) :
           /\ InsertSendNow(q, r, ms, p) = InsertAt(q, at, p)
           /\ \A i \in 1..(at - 1) : q[i] \in ms \/ (i = 1 /\ q[i] = r)
           /\ at <= Len(q) => q[at] \notin ms
<1> DEFINE slot == SendNowSlot(q, r, ms)
<1>1. /\ slot \in FrontSlot(q, r)..(Len(q) + 1)
      /\ \A j \in FrontSlot(q, r)..(slot - 1) : q[j] \in ms
      /\ slot = Len(q) + 1 \/ q[slot] \notin ms
  BY SendNowSlotFacts
<1>2. FrontSlot(q, r) = 1 \/ (FrontSlot(q, r) = 2 /\ q[1] = r)
  BY DEF FrontSlot, IsFront
<1>3. InsertSendNow(q, r, ms, p) = InsertAt(q, slot, p)
  BY DEF InsertSendNow
<1> HIDE DEF slot
<1>4. Len(q) \in Nat
  OBVIOUS
<1>5. slot \in 1..(Len(q) + 1) /\ (slot <= Len(q) => q[slot] \notin ms)
  BY <1>1, <1>2, <1>4
<1>6. ASSUME NEW i \in 1..(slot - 1)
      PROVE  q[i] \in ms \/ (i = 1 /\ q[i] = r)
  <2>1. i \in FrontSlot(q, r)..(slot - 1) \/ (i = 1 /\ FrontSlot(q, r) = 2)
    BY <1>2, <1>5
  <2> QED BY <1>1, <1>2, <2>1
<1> QED BY <1>3, <1>5, <1>6
=============================================================================
