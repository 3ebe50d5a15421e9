------------------------ MODULE MCPromptQueueProofs ------------------------
(***************************************************************************)
(* The queue operators compute what MCPromptQueue declares, on queues and  *)
(* orders of any length.  The queue of that specification is one of        *)
(* distinct prompts and its order one of client prompts; everything else   *)
(* is about the operators.                                                 *)
(***************************************************************************)
EXTENDS MCPromptQueue, PromptQueueProofs, FunctionTheorems

(* Every case: a queue of distinct prompts, an order of at most MaxLen ids. *)
CaseTypes ==
  /\ queue \in Seq(Prompts) /\ IsInjective(queue)
  /\ order \in Seq(Client) /\ Len(order) <= MaxLen

LEMMA CasesTyped == Spec => []CaseTypes
<1>1. Init => CaseTypes
  BY EmptyContents, MaxLenAssumption DEF Init, CaseTypes
<1>2. CaseTypes /\ [Next]_Cases => CaseTypes'
  <2> SUFFICES ASSUME CaseTypes, [Next]_Cases PROVE CaseTypes'
    OBVIOUS
  <2> USE DEF CaseTypes
  <2>1. ASSUME NEW p \in Prompts, Enqueue(p)  PROVE CaseTypes'
    <3>1. queue' = Append(queue, p) /\ p \notin ToSet(queue) /\ order' = order
      BY <2>1 DEF Enqueue
    <3> QED BY <3>1, AppendContents
  <2>2. ASSUME NEW p \in Prompts, Run(p) \/ Mark(p)  PROVE CaseTypes'
    BY <2>2 DEF Run, Mark
  <2>3. ASSUME NEW p \in Client, Name(p)  PROVE CaseTypes'
    <3>1. order' = Append(order, p) /\ Len(order) < MaxLen /\ queue' = queue
      BY <2>3 DEF Name
    <3>2. Append(order, p) \in Seq(Client) /\ Len(Append(order, p)) = Len(order) + 1
      OBVIOUS
    <3>3. Len(order) + 1 <= MaxLen
      BY <3>1, MaxLenAssumption
    <3> QED BY <3>1, <3>2, <3>3
  <2>4. CASE UNCHANGED Cases
    BY <2>4 DEF Cases
  <2> QED BY <2>1, <2>2, <2>3, <2>4 DEF Next
<1> QED BY <1>1, <1>2, PTL DEF Spec

----------------------------------------------------------------------------
(* The loop: after n rows it has pushed what Keep keeps of those n.  The   *)
(* prefixes so kept satisfy the recursion, and two functions that do agree *)
(* on every number, for there would be a least one they differ at.         *)
LEMMA KeepPrefix ==
  ASSUME NEW S, NEW s \in Seq(S), NEW K, NEW m \in 1..Len(s)
  PROVE  Keep(SubSeq(s, 1, m), K)
           = IF s[m] \in K THEN Append(Keep(SubSeq(s, 1, m - 1), K), s[m])
                            ELSE Keep(SubSeq(s, 1, m - 1), K)
<1>1. s[m] \in S /\ SubSeq(s, 1, m - 1) \in Seq(S)
  OBVIOUS
<1>2. SubSeq(s, 1, m) = Append(SubSeq(s, 1, m - 1), s[m])
  OBVIOUS
<1>3. PICK t \in Seq(S), x \in S : t = SubSeq(s, 1, m - 1) /\ x = s[m]
  BY <1>1
<1>4. Keep(Append(t, x), K) = IF x \in K THEN Append(Keep(t, K), x) ELSE Keep(t, K)
  BY KeepAppend
<1> QED BY <1>2, <1>3, <1>4

LEMMA PushedIsKeep ==
  ASSUME NEW S, NEW s \in Seq(S), NEW K
  PROVE  Pushed(s, K) = Keep(s, K)
<1> DEFINE n == Len(s)
           Step(f) == [m \in 0..n |->
                         IF m = 0 THEN <<>>
                         ELSE IF s[m] \in K THEN Append(f[m - 1], s[m]) ELSE f[m - 1]]
           f == CHOOSE f : f = Step(f)
           g == [m \in 0..n |-> Keep(SubSeq(s, 1, m), K)]
<1>1. n \in Nat
  OBVIOUS
<1>2. Pushed(s, K) = f[n]
  BY DEF Pushed
<1>3. ASSUME NEW m \in 1..n
      PROVE  g[m] = IF s[m] \in K THEN Append(g[m - 1], s[m]) ELSE g[m - 1]
  <2>1. m - 1 \in 0..n /\ m \in 0..n
    BY <1>1
  <2>2. g[m] = Keep(SubSeq(s, 1, m), K) /\ g[m - 1] = Keep(SubSeq(s, 1, m - 1), K)
    BY <2>1
  <2> QED BY <2>2, KeepPrefix
<1>4. g[0] = <<>>
  <2>1. SubSeq(s, 1, 0) = <<>> /\ 0 \in 0..n
    BY <1>1
  <2> QED BY <2>1, KeepNothing
<1>5. g[n] = Keep(s, K)
  <2>1. SubSeq(s, 1, n) = s /\ n \in 0..n
    BY <1>1, SubSeqFull
  <2> QED BY <2>1
<1> HIDE DEF n
<1>6. DOMAIN g = 0..n /\ g = [m \in 0..n |-> g[m]]
  OBVIOUS
<1> HIDE DEF g
<1>7. g = Step(g)
  <2>1. \A m \in 0..n : m = 0 \/ m \in 1..n
    BY <1>1
  <2> QED BY <1>3, <1>4, <1>6, <2>1
<1>8. f = Step(f)
  BY <1>7
<1> HIDE DEF f
<1>9. \A m \in 0..n : f[m] = g[m]
  <2> DEFINE M == {m \in 0..n : f[m] # g[m]}
  <2> SUFFICES ASSUME M # {} PROVE FALSE
    OBVIOUS
  <2>1. M \in SUBSET Nat
    BY <1>1
  <2>2. PICK m \in M : \A k \in M : m <= k
    BY <2>1, LeastNatural
  <2>3. m \in 0..n /\ f[m] # g[m]
    BY <2>2
  <2>4. m # 0
    BY <1>4, <1>8, <2>3
  <2>5. m \in 1..n /\ m - 1 \in 0..n /\ ~(m <= m - 1)
    BY <1>1, <2>3, <2>4
  <2>6. f[m - 1] = g[m - 1]
    BY <2>2, <2>5
  <2>7. f[m] = IF s[m] \in K THEN Append(f[m - 1], s[m]) ELSE f[m - 1]
    BY <1>8, <2>3, <2>4
  <2> QED BY <1>3, <2>3, <2>5, <2>6, <2>7
<1> QED BY <1>1, <1>2, <1>5, <1>9

----------------------------------------------------------------------------
(* A sweep: SweepContents says which rows it holds, and the loop pushes    *)
(* the same, for the two sets to keep differ in no row of the queue.       *)
THEOREM SweepSparesTheRunning == Spec => []SweepSparesRunning
<1>1. CaseTypes => SweepSparesRunning
  <2> SUFFICES ASSUME CaseTypes, NEW drop \in {Synthetic, Wake}
               PROVE  /\ running \in ToSet(queue) => running \in ToSet(Sweep(queue, running, drop))
                      /\ ToSet(Sweep(queue, running, drop)) \cap drop \subseteq {running}
                      /\ Sweep(queue, running, drop)
                           = Pushed(queue, {p \in Prompts : p = running \/ p \notin drop})
    BY DEF SweepSparesRunning
  <2> DEFINE K == {p \in ToSet(queue) : p = running \/ p \notin drop}
             L == {p \in Prompts : p = running \/ p \notin drop}
  <2>1. queue \in Seq(Prompts)
    BY DEF CaseTypes
  <2>2. ToSet(Sweep(queue, running, drop)) = K
    BY <2>1, SweepContents
  <2>3. KeptAt(queue, K) = KeptAt(queue, L)
    <3>1. \A i \in DOMAIN queue : queue[i] \in ToSet(queue) /\ queue[i] \in Prompts
      BY <2>1 DEF ToSet
    <3>2. \A i \in DOMAIN queue : queue[i] \in K <=> queue[i] \in L
      BY <3>1
    <3> QED BY <3>2 DEF KeptAt
  <2>4. Sweep(queue, running, drop) = Keep(queue, L)
    BY <2>3 DEF Sweep, Keep
  <2>5. Keep(queue, L) = Pushed(queue, L)
    BY <2>1, PushedIsKeep
  <2> QED BY <2>2, <2>4, <2>5
<1> QED BY <1>1, CasesTyped, PTL

----------------------------------------------------------------------------
(* A prompt is where it is found, and nowhere else.                        *)
LEMMA IndexFound ==
  ASSUME NEW s, NEW i \in DOMAIN s, \A k \in DOMAIN s : s[k] = s[i] => k = i
  PROVE  IndexIn(s, s[i]) = i
BY DEF IndexIn

(* A send-now prompt: it goes in at the slot SendNowStacked describes, it  *)
(* is found there, and the rows at the other positions are the queue's.    *)
THEOREM SendNowsStack == Spec => []SendNowStacks
<1>1. CaseTypes => SendNowStacks
  <2> SUFFICES ASSUME CaseTypes, NEW p \in User \ ToSet(queue),
                      NEW s, s = InsertSendNow(queue, running, marked, p)
               PROVE  /\ Keep(s, ToSet(queue)) = queue
                      /\ IsFront(queue, running) => IsFront(s, running)
                      /\ \A i \in 1..(IndexIn(s, p) - 1) :
                           s[i] \in marked \/ (i = 1 /\ s[i] = running)
                      /\ IndexIn(s, p) < Len(s) => s[IndexIn(s, p) + 1] \notin marked
    BY DEF SendNowStacks
  <2>1. queue \in Seq(Prompts) /\ p \in Prompts /\ p \notin ToSet(queue)
    BY DEF CaseTypes, Prompts
  <2>2. s \in Seq(Prompts) /\ (IsFront(queue, running) => IsFront(s, running))
    BY <2>1, InsertSendNowSafe
  <2>3. PICK at \in 1..(Len(queue) + 1) :
          /\ s = InsertAt(queue, at, p)
          /\ \A i \in 1..(at - 1) : queue[i] \in marked \/ (i = 1 /\ queue[i] = running)
          /\ at <= Len(queue) => queue[at] \notin marked
    BY <2>1, SendNowStacked
  <2>4. /\ Len(s) = Len(queue) + 1 /\ DOMAIN s = 1..(Len(queue) + 1)
        /\ \A n \in DOMAIN s : s[n] = IF n = at THEN p ELSE queue[IF n < at THEN n ELSE n - 1]
    BY <2>1, <2>3, InsertAtPositions
  <2>5. Len(queue) \in Nat /\ \A n \in 1..Len(queue) : queue[n] \in ToSet(queue)
    BY <2>1 DEF ToSet
  <2>6. at \in DOMAIN s /\ s[at] = p
    BY <2>3, <2>4
  <2>7. \A n \in 1..(at - 1) : n \in DOMAIN s /\ s[n] = queue[n]
    BY <2>3, <2>4, <2>5
  <2>8. \A n \in at..Len(queue) : n + 1 \in DOMAIN s /\ s[n + 1] = queue[n]
    BY <2>3, <2>4, <2>5
  <2>9. \A n \in DOMAIN s : n # at => s[n] \in ToSet(queue)
    <3> SUFFICES ASSUME NEW n \in DOMAIN s, n # at  PROVE s[n] \in ToSet(queue)
      OBVIOUS
    <3>1. n \in 1..(at - 1) \/ n - 1 \in at..Len(queue)
      BY <2>3, <2>4, <2>5
    <3>2. CASE n \in 1..(at - 1)
      BY <2>3, <2>5, <2>7, <3>2
    <3>3. CASE n - 1 \in at..Len(queue)
      <4>1. n - 1 \in 1..Len(queue) /\ (n - 1) + 1 = n
        BY <2>3, <2>4, <2>5, <3>3
      <4> QED BY <2>5, <2>8, <3>3, <4>1
    <3> QED BY <3>1, <3>2, <3>3
  <2>10. IndexIn(s, p) = at
    BY <2>1, <2>6, <2>9, IndexFound
  <2>11. KeptAt(s, ToSet(queue)) = (1..Len(s)) \ {at}
    BY <2>1, <2>4, <2>6, <2>9 DEF KeptAt
  <2>12. At(s, (1..Len(s)) \ {at}) = queue
    <3>1. at \in 1..Len(s)
      BY <2>4, <2>6
    <3>2. /\ \A n \in 1..(at - 1) : s[n] = queue[n]
          /\ \A n \in at..Len(queue) : s[n + 1] = queue[n]
      BY <2>7, <2>8
    <3>3. s \in Seq(Prompts) /\ Len(s) = Len(queue) + 1
      BY <2>2, <2>4
    <3>4. \A q, t \in Seq(Prompts) : \A i \in 1..Len(t) :
            /\ Len(t) = Len(q) + 1
            /\ \A n \in 1..(i - 1) : t[n] = q[n]
            /\ \A n \in i..Len(q) : t[n + 1] = q[n]
            => At(t, (1..Len(t)) \ {i}) = q
      BY AtAllButOne
    <3> QED BY <2>1, <3>1, <3>2, <3>3, <3>4
  <2>13. \A i \in 1..(at - 1) : s[i] \in marked \/ (i = 1 /\ s[i] = running)
    BY <2>3, <2>7
  <2>14. at < Len(s) => s[at + 1] \notin marked
    <3> SUFFICES ASSUME at < Len(s)  PROVE s[at + 1] \notin marked
      OBVIOUS
    <3>1. at \in at..Len(queue) /\ at <= Len(queue)
      BY <2>3, <2>4, <2>5
    <3> QED BY <2>3, <2>8, <3>1
  <2> QED BY <2>2, <2>10, <2>11, <2>12, <2>13, <2>14 DEF Keep
<1> QED BY <1>1, CasesTyped, PTL

----------------------------------------------------------------------------
(* The sort.  Two sequences of the same distinct elements are as long.     *)
LEMMA InjectiveLength ==
  ASSUME NEW S, NEW s \in Seq(S), IsInjective(s)
  PROVE  Cardinality(ToSet(s)) = Len(s)
<1>1. Len(s) \in Nat /\ DOMAIN s = 1..Len(s)
  OBVIOUS
<1>2. IsFiniteSet(1..Len(s)) /\ Cardinality(1..Len(s)) = Len(s)
  BY <1>1, IntervalSize
<1>3. s \in Bijection(1..Len(s), ToSet(s))
  <2>1. s \in [1..Len(s) -> ToSet(s)]
    BY <1>1 DEF ToSet
  <2>2. \A a, b \in 1..Len(s) : s[a] = s[b] => a = b
    BY <1>1 DEF IsInjective
  <2>3. \A t \in ToSet(s) : \E a \in 1..Len(s) : s[a] = t
    BY <1>1 DEF ToSet
  <2> QED BY <2>1, <2>2, <2>3, Fun_IsBij
<1>4. ExistsBijection(1..Len(s), ToSet(s))
  BY <1>3 DEF ExistsBijection
<1> QED BY <1>2, <1>4, FS_Bijection

(* The keys of the sort: a pinned row's, the unnamed rows', and a named    *)
(* row's, which is the position that names it first.                       *)
LEMMA Keys ==
  ASSUME CaseTypes, NEW rows, rows = (ToSet(queue) \cap Client) \ {running}
  PROVE  /\ \A p \in ToSet(queue) \ rows : Key(p) = 0
         /\ \A p \in rows \ ToSet(order) : Key(p) = MaxLen + 1
         /\ \A i \in FirstAt(order, rows) :
              Key(order[i]) = i /\ i \in 1..MaxLen
         /\ \A p \in rows \cap ToSet(order) : \E i \in FirstAt(order, rows) : order[i] = p
<1>1. order \in Seq(Client) /\ Len(order) \in Nat /\ Len(order) <= MaxLen /\ MaxLen \in Nat
  BY MaxLenAssumption DEF CaseTypes
<1>2. ASSUME NEW p \in ToSet(queue) \ rows  PROVE Key(p) = 0
  BY <1>2 DEF Key
<1>3. ASSUME NEW p \in rows \ ToSet(order)  PROVE Key(p) = MaxLen + 1
  BY <1>3 DEF Key
<1>4. ASSUME NEW i \in FirstAt(order, rows)
      PROVE  Key(order[i]) = i /\ i \in 1..MaxLen
  <2>1. /\ i \in DOMAIN order /\ i \in 1..Len(order) /\ order[i] \in rows
        /\ \A k \in 1..(i - 1) : order[k] # order[i]
    BY <1>1 DEF FirstAt, KeptAt
  <2>2. order[i] \in ToSet(order) /\ order[i] \in Client /\ order[i] # running
    BY <2>1 DEF ToSet
  <2>3. ASSUME NEW j \in DOMAIN order, order[j] = order[i],
               \A k \in 1..(j - 1) : order[k] # order[i]
        PROVE  j = i
    <3>1. j \in 1..Len(order) /\ i \notin 1..(j - 1) /\ j \notin 1..(i - 1)
      BY <1>1, <2>1, <2>3
    <3> QED BY <1>1, <2>1, <3>1
  <2>4. Key(order[i]) = CHOOSE j \in DOMAIN order :
                          order[j] = order[i] /\ \A k \in 1..(j - 1) : order[k] # order[i]
    BY <2>2 DEF Key
  <2>5. Key(order[i]) = i
    BY <2>1, <2>3, <2>4
  <2> QED BY <1>1, <2>1, <2>5
<1>5. ASSUME NEW p \in rows \cap ToSet(order)
      PROVE  \E i \in FirstAt(order, rows) : order[i] = p
  <2> DEFINE M == {i \in DOMAIN order : order[i] = p}
  <2>1. M \in SUBSET Nat /\ M # {}
    BY <1>1, <1>5 DEF ToSet
  <2>2. PICK i \in M : \A k \in M : i <= k
    BY <2>1, LeastNatural
  <2>3. \A k \in 1..(i - 1) : k \in DOMAIN order /\ ~(i <= k)
    BY <1>1, <2>2
  <2>4. \A k \in 1..(i - 1) : order[k] # order[i]
    BY <2>2, <2>3
  <2>5. i \in FirstAt(order, rows)
    BY <1>5, <2>2, <2>4 DEF FirstAt, KeptAt
  <2> QED BY <2>2, <2>5
<1> QED BY <1>2, <1>3, <1>4, <1>5

(* Two rows with the same key come in the order of the queue, two others   *)
(* in that of their keys.                                                  *)
LEMMA KeysAscend ==
  ASSUME CaseTypes, NEW s, s = Reordered(queue, running, order),
         NEW a \in DOMAIN s, NEW b \in DOMAIN s, a < b
  PROVE  \/ Key(s[a]) < Key(s[b])
         \/ Key(s[a]) = Key(s[b]) /\ IndexIn(queue, s[a]) < IndexIn(queue, s[b])
<1>1. PICK rows : rows = (ToSet(queue) \cap Client) \ {running}
  OBVIOUS
<1>2. /\ queue \in Seq(Prompts) /\ IsInjective(queue)
      /\ order \in Seq(Client) /\ MaxLen \in Nat
  BY MaxLenAssumption DEF CaseTypes
<1>3. s[a] \in ToSet(queue) /\ s[b] \in ToSet(queue)
  <2>1. ToSet(s) = ToSet(queue)
    BY <1>2, ReorderedContents
  <2> QED BY <2>1 DEF ToSet
<1>4. /\ \A p \in ToSet(queue) \ rows : Key(p) = 0
      /\ \A p \in rows \ ToSet(order) : Key(p) = MaxLen + 1
      /\ \A i \in FirstAt(order, rows) : Key(order[i]) = i /\ i \in 1..MaxLen
      /\ \A p \in rows \cap ToSet(order) : \E i \in FirstAt(order, rows) : order[i] = p
  BY <1>1, Keys
<1>5. \A p \in rows \cap ToSet(order) : Key(p) \in 1..MaxLen
  BY <1>4
<1>6. \A p \in rows : Key(p) > 0
  BY <1>2, <1>4, <1>5
<1>7. Precedes(queue, rows, order, s[a], s[b])
  BY <1>1, <1>2, ReorderedSorted
<1>8. CASE s[a] \notin rows /\ s[b] \in rows
  BY <1>3, <1>4, <1>6, <1>8
<1>9. CASE s[a] \in rows \cap ToSet(order) /\ s[b] \in rows \ ToSet(order)
  BY <1>2, <1>4, <1>5, <1>9
<1>10. CASE \E i, k \in FirstAt(order, rows) : i < k /\ s[a] = order[i] /\ s[b] = order[k]
  BY <1>4, <1>10
<1>11. CASE /\ s[a] \in rows <=> s[b] \in rows
            /\ {s[a], s[b]} \cap rows \cap ToSet(order) = {}
            /\ \E i, k \in DOMAIN queue : i < k /\ s[a] = queue[i] /\ s[b] = queue[k]
  <2>1. Key(s[a]) = Key(s[b])
    BY <1>3, <1>4, <1>11
  <2>2. PICK i \in DOMAIN queue, k \in DOMAIN queue :
          i < k /\ s[a] = queue[i] /\ s[b] = queue[k]
    BY <1>11
  <2>3. IndexIn(queue, queue[i]) = i /\ IndexIn(queue, queue[k]) = k
    BY <1>2, IndexFound DEF IsInjective
  <2> QED BY <2>1, <2>2, <2>3
<1> QED BY <1>7, <1>8, <1>9, <1>10, <1>11 DEF Precedes

(* The reordered queue is the queue sorted by those keys, stably.          *)
THEOREM ReorderIsStableSort == Spec => []ReorderSorts
<1>1. CaseTypes => ReorderSorts
  <2> SUFFICES ASSUME CaseTypes, NEW s, s = Reordered(queue, running, order)
               PROVE  /\ Len(s) = Len(queue) /\ ToSet(s) = ToSet(queue)
                      /\ \A i, j \in DOMAIN s :
                           i < j => \/ Key(s[i]) < Key(s[j])
                                    \/ /\ Key(s[i]) = Key(s[j])
                                       /\ IndexIn(queue, s[i]) < IndexIn(queue, s[j])
                      /\ IsFront(queue, running) => IsFront(s, running)
    BY DEF ReorderSorts
  <2>1. queue \in Seq(Prompts) /\ IsInjective(queue) /\ order \in Seq(Client)
    BY DEF CaseTypes
  <2>2. ToSet(s) = ToSet(queue) /\ IsInjective(s)
    BY <2>1, ReorderedContents
  <2>3. s \in Seq(Prompts) /\ (IsFront(queue, running) => IsFront(s, running))
    BY <2>1, ReorderedSafe
  <2>4. Len(s) = Len(queue)
    <3>1. Cardinality(ToSet(s)) = Len(s)
      BY <2>2, <2>3, InjectiveLength
    <3>2. Cardinality(ToSet(queue)) = Len(queue)
      BY <2>1, InjectiveLength
    <3> QED BY <2>2, <3>1, <3>2
  <2> QED BY <2>2, <2>3, <2>4, KeysAscend
<1> QED BY <1>1, CasesTyped, PTL
=============================================================================
