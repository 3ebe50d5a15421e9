----------------------- MODULE CircuitBreakerProofs -----------------------
(***************************************************************************)
(* Proofs about CircuitBreaker, for every finite set of callers, number of *)
(* probes, width of the counter, cool-down and window.                     *)
(*                                                                         *)
(* Types are kept; on top of that, four inductive invariants that do not   *)
(* need one another: the window's count, the ledger of the probe slots,    *)
(* who may have left the mirror unsettled, and the age of a claim against  *)
(* the age of the last takeover.                                           *)
(***************************************************************************)
EXTENDS CircuitBreaker, FiniteSetTheorems, FunctionTheorems, SequenceTheorems, TLAPS

-----------------------------------------------------------------------------
(* Facts about the data.                                                   *)

(* The callers at some steps are finitely many, at most all of them.       *)
LEMMA AtFacts ==
  ASSUME NEW S
  PROVE  /\ IsFiniteSet(At(S)) /\ Cardinality(At(S)) \in Nat
         /\ Cardinality(Callers) \in Nat /\ Cardinality(At(S)) <= Cardinality(Callers)
BY CallersAssumption, FS_Subset, FS_CardinalityType DEF At

(* The steps, listed.                                                      *)
LEMMA StepsFacts ==
  Steps = {"idle", "calling", "sample", "log", "open", "swap", "reread", "unmirror",
           "probe", "admit", "unclaim", "lease", "takeover", "opening", "openTime",
           "openZero", "openMirror", "closing", "clearing", "closeZero", "closeMirror"}
BY DEF Steps, Checking, Tripping, Closing

(* An age that grows stays within its bound.                               *)
LEMMA OlderFacts ==
  ASSUME NEW b \in Nat, NEW age \in 0..b
  PROVE  Older(age, b) \in 0..b /\ Older(age, b) >= age
         /\ Older(age, b) <= age + 1 /\ (age < b => Older(age, b) = age + 1)
BY DEF Older

(* The bounds on ages are naturals.                                        *)
LEMMA BoundFacts ==
  /\ Horizon \in Nat /\ Horizon = OpenDuration + Stall
  /\ OpenDuration \in Nat /\ Stall \in Nat /\ OpenDuration > 2 * Stall
BY TimeAssumption DEF Horizon

(* The counter is wide enough for all slots and all callers.               *)
LEMMA WidthFacts ==
  /\ Modulus \in Nat /\ Modulus > 0 /\ MaxProbes \in Nat /\ MaxProbes > 0
  /\ Cardinality(Callers) \in Nat
  /\ Modulus > MaxProbes + 2 * Cardinality(Callers)
<1>1. Cardinality(Callers) \in Nat
  BY CallersAssumption, FS_CardinalityType
<1> QED
  BY <1>1, ModulusAssumption, ProbesAssumption

(* The number of failures among some samples is a natural.                 *)
LEMMA FailuresType ==
  ASSUME NEW s \in Seq(BOOLEAN)
  PROVE  Failures(s) \in Nat
<1>1. IsFiniteSet(1..Len(s))
  BY FS_Interval
<1> QED
  BY <1>1, FS_Subset, FS_CardinalityType DEF Failures

-----------------------------------------------------------------------------
(* Type correctness.                                                       *)

(* The initial state is well typed.                                        *)
LEMMA TypeInit == Init => TypeOK
<1> SUFFICES ASSUME Init PROVE TypeOK
  OBVIOUS
<1>1. window \in [fails : Seq(BOOLEAN), failures : Int]
  BY DEF Init
<1>2. openedAge \in 0..OpenDuration /\ claimedAge \in 0..Horizon
      /\ sinceTakeover \in 0..OpenDuration /\ probes \in 0..(Modulus - 1)
  BY BoundFacts, WidthFacts DEF Init
<1>3. stamp \in [Callers -> 0..Stall] /\ seen \in [Callers -> 0..Horizon]
  BY BoundFacts DEF Init
<1> QED
  BY <1>1, <1>2, <1>3, StepsFacts DEF Init, TypeOK

(* A caller moves to one of the steps.                                     *)
LEMMA GotoType ==
  ASSUME TypeOK, NEW c \in Callers, NEW from, NEW to \in Steps, Goto(c, from, to)
  PROVE  pc' \in [Callers -> Steps]
BY DEF TypeOK, Goto

(* Checking the breaker keeps the types.                                   *)
LEMMA TypeCheck ==
  ASSUME TypeOK, NEW c \in Callers,
         Check(c) \/ ReadOpened(c) \/ Swap(c) \/ Reread(c) \/ Unmirror(c)
  PROVE  TypeOK'
<1>1. CASE Check(c)
  BY <1>1, StepsFacts DEF TypeOK, Check, Goto, callerVars, stateVars, probeVars, leaseVars
<1>2. CASE ReadOpened(c)
  BY <1>2, StepsFacts DEF TypeOK, ReadOpened, Goto, callerVars, stateVars, probeVars, leaseVars
<1>3. CASE Swap(c)
  <2>1. pc' \in [Callers -> Steps]
    BY <1>3, StepsFacts DEF TypeOK, Swap, Goto
  <2>2. /\ state' \in {"Closed", "Open", "HalfOpen"} /\ raced' \in BOOLEAN
        /\ granted' \in Nat /\ rezeroed' \in BOOLEAN
    <3>1. CASE SetState(c, "HalfOpen")
      <4>1. (At(Unsettled) \ {c} # {}) \in BOOLEAN
        OBVIOUS
      <4> QED
        BY <3>1, <4>1 DEF SetState
    <3>2. CASE UNCHANGED stateVars
      BY <3>2 DEF TypeOK, stateVars
    <3> QED
      BY <1>3, <3>1, <3>2 DEF Swap
  <2> QED
    BY <1>3, <2>1, <2>2 DEF TypeOK, Swap, callerVars, probeVars, leaseVars
<1>4. CASE Reread(c)
  BY <1>4, StepsFacts DEF TypeOK, Reread, Goto, callerVars, stateVars, probeVars, leaseVars
<1>5. CASE Unmirror(c)
  BY <1>5, StepsFacts DEF TypeOK, Unmirror, Goto, callerVars, stateVars, probeVars, leaseVars
<1> QED
  BY <1>1, <1>2, <1>3, <1>4, <1>5

(* A residue is within the width of the counter.                           *)
LEMMA ResidueType ==
  ASSUME NEW x \in Int
  PROVE  x % Modulus \in 0..(Modulus - 1)
BY WidthFacts

(* Asking for a probe slot keeps the types.                                *)
LEMMA TypeProbe ==
  ASSUME TypeOK, NEW c \in Callers,
         Claim(c) \/ Admit(c) \/ Unclaim(c) \/ ReadLease(c) \/ Takeover(c)
  PROVE  TypeOK'
<1>1. CASE Claim(c)
  <2>1. (probes + 1) % Modulus \in 0..(Modulus - 1)
    <3>1. probes + 1 \in Int
      BY WidthFacts DEF TypeOK
    <3> QED
      BY <3>1, ResidueType
  <2> QED
    <3>1. pc' \in [Callers -> Steps]
      BY <1>1, StepsFacts DEF TypeOK, Claim, Goto
    <3>2. slots' \in Nat /\ crossed' \in Nat /\ granted' \in Nat
      <4>1. slots \in Nat /\ crossed \in Nat /\ granted \in Nat
        BY DEF TypeOK
      <4>2. /\ slots' = slots \/ slots' = slots + 1
            /\ granted' = granted \/ granted' = granted + 1
            /\ crossed' = crossed
        BY <1>1 DEF Claim
      <4> QED
        BY <4>1, <4>2
    <3>3. probes' \in 0..(Modulus - 1)
      BY <1>1, <2>1 DEF Claim
    <3> QED
      BY <1>1, <3>1, <3>2, <3>3 DEF TypeOK, Claim, callerVars, leaseVars
<1>2. CASE Admit(c)
  BY <1>2, StepsFacts, BoundFacts
     DEF TypeOK, Admit, Goto, Forget, callerVars, stateVars, probeVars, leaseVars
<1>3. CASE Unclaim(c)
  <2>1. (probes - 1) % Modulus \in 0..(Modulus - 1)
    <3>1. probes - 1 \in Int
      BY WidthFacts DEF TypeOK
    <3> QED
      BY <3>1, ResidueType
  <2> QED
    BY <1>3, <2>1, StepsFacts DEF TypeOK, Unclaim, Goto, callerVars, stateVars, probeVars, leaseVars
<1>4. CASE ReadLease(c)
  <2>1. pc' \in [Callers -> Steps]
    BY <1>4, StepsFacts DEF TypeOK, ReadLease, Goto
  <2>2. stamp' \in [Callers -> 0..Stall] /\ seen' \in [Callers -> 0..Horizon]
    <3>1. claimedAge \in 0..Horizon /\ 0 \in 0..Horizon /\ 0 \in 0..Stall
      BY BoundFacts DEF TypeOK
    <3> QED
      BY <1>4, <3>1 DEF TypeOK, ReadLease, Forget
  <2> QED
    BY <1>4, <2>1, <2>2 DEF TypeOK, ReadLease, Forget, stateVars, probeVars, leaseVars
<1>5. CASE Takeover(c)
  <2>1. pc' \in [Callers -> Steps]
    BY <1>5, StepsFacts DEF TypeOK, Takeover, Goto
  <2>2. claimedAge' \in 0..Horizon /\ sinceTakeover' \in 0..OpenDuration
    <3>1. /\ claimedAge \in 0..Horizon /\ stamp[c] \in 0..Stall
          /\ sinceTakeover \in 0..OpenDuration
      BY DEF TypeOK
    <3>2. \/ claimedAge' = stamp[c] /\ sinceTakeover' = 0
          \/ claimedAge' = claimedAge /\ sinceTakeover' = sinceTakeover
      BY <1>5 DEF Takeover, leaseVars
    <3> QED
      BY <3>1, <3>2, BoundFacts
  <2>3. stamp' \in [Callers -> 0..Stall] /\ seen' \in [Callers -> 0..Horizon]
    BY <1>5, BoundFacts DEF TypeOK, Takeover, Forget
  <2> QED
    BY <1>5, <2>1, <2>2, <2>3 DEF TypeOK, Takeover, Forget, stateVars, probeVars
<1> QED
  BY <1>1, <1>2, <1>3, <1>4, <1>5

(* Tripping and closing keep the types.                                    *)
LEMMA TypeStore ==
  ASSUME TypeOK, NEW c \in Callers,
         TripState(c) \/ TripTime(c) \/ TripMirror(c) \/ CloseState(c) \/ CloseMirror(c)
           \/ CloseClear(c) \/ Zero(c)
  PROVE  TypeOK'
<1>1. CASE TripState(c)
  BY <1>1, StepsFacts
     DEF TypeOK, TripState, Goto, SetState, callerVars, stateVars, probeVars, leaseVars
<1>2. CASE TripTime(c)
  <2>1. pc' \in [Callers -> Steps]
    BY <1>2, StepsFacts DEF TypeOK, TripTime, Goto
  <2>2. openedAge' \in 0..OpenDuration
    BY <1>2, BoundFacts DEF TripTime
  <2> QED
    BY <1>2, <2>1, <2>2 DEF TypeOK, TripTime, callerVars, stateVars, probeVars, leaseVars
<1>3. CASE TripMirror(c)
  BY <1>3, StepsFacts DEF TypeOK, TripMirror, Goto, callerVars, stateVars, probeVars, leaseVars
<1>4. CASE CloseState(c)
  BY <1>4, StepsFacts
     DEF TypeOK, CloseState, Goto, SetState, callerVars, stateVars, probeVars, leaseVars
<1>5. CASE CloseMirror(c)
  BY <1>5, StepsFacts DEF TypeOK, CloseMirror, Goto, callerVars, stateVars, probeVars, leaseVars
<1>6. CASE CloseClear(c)
  BY <1>6, StepsFacts DEF TypeOK, CloseClear, Goto, callerVars, stateVars, probeVars, leaseVars
<1>7. CASE Zero(c)
  <2>1. 0 \in 0..(Modulus - 1)
    BY WidthFacts
  <2>2. Cardinality(At({"unclaim"})) \in Nat
    BY AtFacts
  <2> QED
    BY <1>7, <2>1, <2>2, StepsFacts
       DEF TypeOK, Zero, ZeroProbes, Goto, callerVars, stateVars, probeVars, leaseVars
<1> QED
  BY <1>1, <1>2, <1>3, <1>4, <1>5, <1>6, <1>7

(* A sample counts for nothing or for one.                                 *)
LEMMA BitType ==
  ASSUME NEW e
  PROVE  Bit(e) \in {0, 1}
BY Zenon DEF Bit

(* A push keeps the shape of the window.                                   *)
LEMMA PushType ==
  ASSUME NEW w \in [fails : Seq(BOOLEAN), failures : Int], NEW failure \in BOOLEAN
  PROVE  Push(w, failure) \in [fails : Seq(BOOLEAN), failures : Int]
<1>1. w.fails \in Seq(BOOLEAN) /\ w.failures \in Int
  OBVIOUS
<1>2. Bit(failure) \in Int /\ Bit(Head(w.fails)) \in Int
  BY BitType
<1>3. CASE Len(w.fails) >= WindowCap
  <2>1. Tail(w.fails) \in Seq(BOOLEAN)
    BY <1>1, <1>3, WindowAssumption
  <2>2. Append(Tail(w.fails), failure) \in Seq(BOOLEAN)
    BY <2>1
  <2> QED
    BY <1>1, <1>2, <1>3, <2>2 DEF Push
<1>4. CASE ~(Len(w.fails) >= WindowCap)
  <2>1. Append(w.fails, failure) \in Seq(BOOLEAN)
    BY <1>1
  <2> QED
    BY <1>1, <1>2, <1>4, <2>1 DEF Push
<1> QED
  BY <1>3, <1>4

(* An eviction keeps the shape of the window.                              *)
LEMMA EvictType ==
  ASSUME NEW w \in [fails : Seq(BOOLEAN), failures : Int], NEW k \in 0..Len(w.fails)
  PROVE  Evict(w, k) \in [fails : Seq(BOOLEAN), failures : Int]
<1>1. w.fails \in Seq(BOOLEAN) /\ w.failures \in Int /\ Len(w.fails) \in Nat
  OBVIOUS
<1>2. SubSeq(w.fails, k + 1, Len(w.fails)) \in Seq(BOOLEAN)
  <2>1. \A i \in (k + 1)..Len(w.fails) : w.fails[i] \in BOOLEAN
    BY <1>1
  <2> QED
    BY <1>1, <2>1, SubSeqProperties
<1>3. Failures(SubSeq(w.fails, 1, k)) \in Nat
  <2>1. \A i \in 1..k : w.fails[i] \in BOOLEAN
    BY <1>1
  <2>2. SubSeq(w.fails, 1, k) \in Seq(BOOLEAN)
    BY <1>1, <2>1, SubSeqProperties
  <2> QED
    BY <2>2, FailuresType
<1> QED
  BY <1>1, <1>2, <1>3 DEF Evict

(* What the rest of a step changes: the window, the clock, who asks.       *)
LEMMA TypeRest ==
  ASSUME TypeOK,
         Tick \/ ErrorRate \/ \E c \in Callers : Ask(c) \/ Sample(c)
  PROVE  TypeOK'
<1>1. CASE Tick
  <2>1. openedAge' \in 0..OpenDuration /\ sinceTakeover' \in 0..OpenDuration
    BY <1>1, OlderFacts, BoundFacts DEF TypeOK, Tick
  <2>2. claimedAge' \in 0..Horizon
    BY <1>1, OlderFacts, BoundFacts DEF TypeOK, Tick
  <2>3. seen' \in [Callers -> 0..Horizon]
    <3>1. seen' = [c \in Callers |-> IF pc[c] = "takeover" THEN Older(seen[c], Horizon) ELSE 0]
      BY <1>1 DEF Tick
    <3>2. ASSUME NEW c \in Callers
          PROVE  Older(seen[c], Horizon) \in 0..Horizon
      BY OlderFacts, BoundFacts DEF TypeOK
    <3> QED
      BY <3>1, <3>2, BoundFacts
  <2>4. stamp' \in [Callers -> 0..Stall]
    BY <1>1, BoundFacts DEF TypeOK, Tick, At
  <2> QED
    BY <1>1, <2>1, <2>2, <2>3, <2>4 DEF TypeOK, Tick, stateVars, probeVars
<1>2. CASE ErrorRate
  <2>1. window' \in [fails : Seq(BOOLEAN), failures : Int]
    <3>1. PICK k \in 1..Len(window.fails) : window' = Evict(window, k)
      BY <1>2 DEF ErrorRate
    <3>2. k \in 0..Len(window.fails)
      OBVIOUS
    <3> QED
      BY <3>1, <3>2, EvictType DEF TypeOK
  <2> QED
    BY <1>2, <2>1 DEF TypeOK, ErrorRate, callerVars, stateVars, probeVars, leaseVars
<1>3. ASSUME NEW c \in Callers, Abandon(c) \/ \E failure \in BOOLEAN : Record(c, failure)
      PROVE  TypeOK'
  <2>1. CASE Abandon(c)
    BY <2>1, StepsFacts DEF TypeOK, Abandon, Goto, callerVars, stateVars, probeVars, leaseVars
  <2>2. ASSUME NEW failure \in BOOLEAN, Record(c, failure)
        PROVE  TypeOK'
    BY <2>2, StepsFacts DEF TypeOK, Record, Goto, stateVars, probeVars, leaseVars
  <2> QED
    BY <1>3, <2>1, <2>2
<1>4. ASSUME NEW c \in Callers, Check(c)
      PROVE  TypeOK'
  BY <1>4, TypeCheck
<1>5. ASSUME NEW c \in Callers, Sample(c)
      PROVE  TypeOK'
  <2>1. failed[c] \in BOOLEAN /\ window \in [fails : Seq(BOOLEAN), failures : Int]
    BY DEF TypeOK
  <2>2. PICK k \in 0..Len(Push(window, failed[c]).fails) :
          /\ window' = Evict(Push(window, failed[c]), k)
          /\ \/ Goto(c, "sample", IF ShouldTrip(window') THEN "opening" ELSE "idle")
             \/ Goto(c, "log", "idle")
    BY <1>5 DEF Sample
  <2>3. window' \in [fails : Seq(BOOLEAN), failures : Int]
    BY <2>1, <2>2, PushType, EvictType
  <2>4. pc' \in [Callers -> Steps]
    BY <2>2, StepsFacts DEF TypeOK, Goto
  <2> QED
    BY <1>5, <2>3, <2>4 DEF TypeOK, Sample, stateVars, probeVars, leaseVars
<1> QED
  BY <1>1, <1>2, <1>3, <1>4, <1>5 DEF Ask

(* Every step keeps the types.                                             *)
LEMMA TypeStep == TypeOK /\ [Next]_vars => TypeOK'
<1> SUFFICES ASSUME TypeOK, [Next]_vars PROVE TypeOK'
  OBVIOUS
<1>1. CASE UNCHANGED vars
  BY <1>1 DEF TypeOK, vars, callerVars, stateVars, probeVars, leaseVars
<1>2. CASE Next
  BY <1>2, TypeRest, TypeCheck, TypeProbe, TypeStore DEF Next, Advance
<1> QED
  BY <1>1, <1>2

(* Every variable keeps its type: in particular the probe counter stays    *)
(* within its width, and no age of the model leaves its cap.               *)
THEOREM TypeCorrect == Spec => []TypeOK
BY TypeInit, TypeStep, PTL DEF Spec

-----------------------------------------------------------------------------
(* Where the steps that look at the state lead.                            *)
LEMMA StateGoes ==
  ASSUME TypeOK, NEW c \in Callers
  PROVE  /\ Check(c) => \E to \in {"calling", "open", "probe"} : Goto(c, "idle", to)
         /\ Reread(c) => \E to \in {"calling", "idle", "probe"} : Goto(c, "reread", to)
         /\ \A failure \in BOOLEAN : Record(c, failure) =>
              \E to \in {"sample", "log", "opening", "closing"} : Goto(c, "calling", to)
<1>1. state \in {"Closed", "Open", "HalfOpen"}
  BY DEF TypeOK
<1> QED
  BY <1>1 DEF Check, Reread, Record

(* A caller that enters some steps is one more there.                      *)
LEMMA AtEnter ==
  ASSUME TypeOK, NEW S, NEW c \in Callers, NEW from, NEW to, Goto(c, from, to),
         from \notin S, to \in S
  PROVE  Cardinality(At(S))' = Cardinality(At(S)) + 1
<1>1. At(S)' = At(S) \cup {c} /\ c \notin At(S)
  BY DEF At, Goto, TypeOK
<1> QED
  BY <1>1, AtFacts, FS_AddElement

(* A caller that leaves them is one less.                                  *)
LEMMA AtLeave ==
  ASSUME TypeOK, NEW S, NEW c \in Callers, NEW from, NEW to, Goto(c, from, to),
         from \in S, to \notin S
  PROVE  Cardinality(At(S))' = Cardinality(At(S)) - 1
<1>1. At(S)' = At(S) \ {c} /\ c \in At(S)
  BY DEF At, Goto, TypeOK
<1> QED
  BY <1>1, AtFacts, FS_RemoveElement

(* A caller that stays inside, or outside, leaves them as they are.        *)
LEMMA AtStay ==
  ASSUME TypeOK, NEW S, NEW c \in Callers, NEW from, NEW to, Goto(c, from, to),
         from \in S <=> to \in S
  PROVE  At(S)' = At(S)
BY DEF At, Goto, TypeOK

-----------------------------------------------------------------------------
(* The ledger of the probe slots.  A zeroing crosses the losers it meets,  *)
(* who are callers; until one lands, what was granted since the last store *)
(* to state is among the slots.                                            *)

Losers == At({"unclaim"})
Ledger ==
  /\ probes = (slots + Cardinality(Losers) - crossed) % Modulus
  /\ slots <= MaxProbes + crossed
SlotsInv ==
  /\ Ledger
  /\ crossed <= Cardinality(Callers)
  /\ ~rezeroed => granted <= slots

(* The residue of a balance that is within the width of the counter.       *)
LEMMA ResidueAbove ==
  ASSUME NEW x \in Int, NEW M \in Nat, 0 <= x, x < M
  PROVE  x % M = x
OBVIOUS

(* The residue of a balance that a zeroing has made negative.              *)
LEMMA ResidueBelow ==
  ASSUME NEW x \in Int, NEW M \in Nat, -M <= x, x < 0
  PROVE  x % M = x + M
OBVIOUS

(* One more, on the residue as on the balance.                             *)
LEMMA ResidueUp ==
  ASSUME NEW x \in Int, NEW M \in Nat, -M < x, x < M - 1
  PROVE  ((x % M) + 1) % M = (x + 1) % M
<1>1. CASE x < -1
  <2>1. x % M = x + M
    BY <1>1
  <2> QED
    BY <2>1, <1>1
<1>2. CASE x = -1
  <2>1. x % M = M - 1
    BY <1>2
  <2>2. M % M = 0
    BY <1>2
  <2> QED
    BY <2>1, <2>2, <1>2
<1>3. CASE x >= 0
  <2>1. x % M = x
    BY <1>3
  <2> QED
    BY <2>1, <1>3
<1> QED
  BY <1>1, <1>2, <1>3

(* One less, on the residue as on the balance.                             *)
LEMMA ResidueDown ==
  ASSUME NEW x \in Int, NEW M \in Nat, -M < x, x < M - 1
  PROVE  ((x % M) - 1) % M = (x - 1) % M
<1>1. CASE x < 0
  <2>1. x % M = x + M
    BY <1>1
  <2>2. (x - 1) % M = x - 1 + M
    BY <1>1
  <2>3. (x + M - 1) % M = x + M - 1
    BY <1>1
  <2> QED
    BY <2>1, <2>2, <2>3
<1>2. CASE x >= 0
  <2>1. x % M = x
    BY <1>2
  <2> QED
    BY <2>1
<1> QED
  BY <1>1, <1>2

(* What the balance of the ledger is, and that it is far from the width.   *)
LEMMA Balance ==
  ASSUME TypeOK, SlotsInv, NEW c \in Callers
  PROVE  LET x == slots + Cardinality(Losers) - crossed
         IN  /\ x \in Int /\ probes = x % Modulus
             /\ -Modulus < x /\ x < Modulus - 1
             /\ Cardinality(Losers) \in Nat /\ slots \in Nat /\ crossed \in Nat
<1>1. Cardinality({c}) = 1 /\ Cardinality({c}) <= Cardinality(Callers)
  BY CallersAssumption, FS_Singleton, FS_Subset
<1>2. Cardinality(Losers) \in Nat /\ Cardinality(Losers) <= Cardinality(Callers)
  BY AtFacts DEF Losers
<1>3. slots \in Nat /\ crossed \in Nat /\ slots <= MaxProbes + crossed
      /\ crossed <= Cardinality(Callers)
  BY DEF TypeOK, SlotsInv, Ledger
<1>4. probes = (slots + Cardinality(Losers) - crossed) % Modulus
  BY DEF SlotsInv, Ledger, Losers
<1> QED
  BY <1>1, <1>2, <1>3, <1>4, WidthFacts

(* Steps elsewhere leave the ledger alone.                                 *)
LEMMA SlotsApart ==
  ASSUME TypeOK, SlotsInv, NEW c \in Callers, NEW from, NEW to, Goto(c, from, to),
         from # "unclaim", to # "unclaim", UNCHANGED probeVars,
         UNCHANGED <<granted, rezeroed>> \/ granted' = 0
  PROVE  SlotsInv'
<1>1. At({"unclaim"})' = At({"unclaim"})
  BY AtStay
<1>2. probes' = probes /\ slots' = slots /\ crossed' = crossed
  BY DEF probeVars
<1>3. (~rezeroed => granted <= slots)'
  BY <1>2 DEF TypeOK, SlotsInv
<1> QED
  BY <1>1, <1>2, <1>3 DEF SlotsInv, Ledger, Losers

(* A claim adds to the counter, and to the slots only while one is free.   *)
LEMMA SlotsClaim ==
  ASSUME TypeOK, SlotsInv, NEW c \in Callers, Claim(c)
  PROVE  SlotsInv'
<1> DEFINE U == Cardinality(Losers)
           x == slots + U - crossed
<1>1. /\ x \in Int /\ probes = x % Modulus /\ -Modulus < x /\ x < Modulus - 1
      /\ U \in Nat /\ slots \in Nat /\ crossed \in Nat
  BY Balance
<1>2. probes' = (x + 1) % Modulus /\ crossed' = crossed
  <2>1. probes' = (probes + 1) % Modulus
    BY DEF Claim
  <2>2. ((x % Modulus) + 1) % Modulus = (x + 1) % Modulus
    BY <1>1, WidthFacts, ResidueUp
  <2> QED
    BY <1>1, <2>1, <2>2 DEF Claim
<1>3. CASE probes < MaxProbes /\ Goto(c, "probe", "admit") /\ slots' = slots + 1
             /\ granted' = granted + 1
  <2>1. At({"unclaim"})' = At({"unclaim"})
    BY <1>3, AtStay
  <2>2. slots + 1 <= MaxProbes + crossed
    <3>1. CASE x >= 0
      <4>1. x % Modulus = x
        BY <1>1, <3>1, WidthFacts, ResidueAbove
      <4> HIDE DEF x
      <4>2. x < MaxProbes
        BY <1>1, <1>3, <4>1
      <4> QED
        BY <1>1, <4>2, WidthFacts DEF x
    <3>2. CASE x < 0
      BY <1>1, <3>2, WidthFacts
    <3> QED
      BY <1>1, <3>1, <3>2
  <2>3. slots' + Cardinality(At({"unclaim"}))' - crossed' = x + 1
    BY <1>1, <1>2, <1>3, <2>1 DEF Losers
  <2>4. (~rezeroed => granted <= slots)'
    <3>1. granted \in Nat /\ rezeroed' = rezeroed
      BY DEF TypeOK, Claim
    <3> QED
      BY <1>1, <1>3, <3>1 DEF SlotsInv
  <2>5. Ledger'
    BY <1>2, <1>3, <2>2, <2>3 DEF Ledger, Losers
  <2> QED
    BY <1>2, <2>4, <2>5 DEF SlotsInv
<1>4. CASE Goto(c, "probe", "unclaim") /\ slots' = slots /\ granted' = granted
  <2>1. Cardinality(At({"unclaim"}))' = U + 1
    BY <1>4, AtEnter DEF Losers
  <2>2. slots' + Cardinality(At({"unclaim"}))' - crossed' = x + 1
    BY <1>1, <1>2, <1>4, <2>1
  <2>3. Ledger'
    BY <1>2, <1>4, <2>2 DEF SlotsInv, Ledger, Losers
  <2>4. rezeroed' = rezeroed
    BY DEF Claim
  <2> QED
    BY <1>2, <1>4, <2>3, <2>4 DEF SlotsInv
<1> QED
  BY <1>3, <1>4 DEF Claim

(* A loser gives back what it added.                                       *)
LEMMA SlotsUnclaim ==
  ASSUME TypeOK, SlotsInv, NEW c \in Callers, Unclaim(c)
  PROVE  SlotsInv'
<1> DEFINE U == Cardinality(Losers)
           x == slots + U - crossed
<1>1. /\ x \in Int /\ probes = x % Modulus /\ -Modulus < x /\ x < Modulus - 1
      /\ U \in Nat /\ slots \in Nat /\ crossed \in Nat
  BY Balance
<1>2. probes' = (x - 1) % Modulus /\ slots' = slots /\ crossed' = crossed
  <2>1. probes' = (probes - 1) % Modulus /\ slots' = slots /\ crossed' = crossed
    BY DEF Unclaim
  <2>2. ((x % Modulus) - 1) % Modulus = (x - 1) % Modulus
    BY <1>1, WidthFacts, ResidueDown
  <2> QED
    BY <1>1, <2>1, <2>2
<1>3. Cardinality(At({"unclaim"}))' = U - 1
  BY AtLeave DEF Unclaim, Losers
<1>4. slots' + Cardinality(At({"unclaim"}))' - crossed' = x - 1
  BY <1>1, <1>2, <1>3
<1>5. Ledger'
  BY <1>2, <1>4 DEF SlotsInv, Ledger, Losers
<1>6. granted' = granted /\ rezeroed' = rezeroed
  BY DEF Unclaim, stateVars
<1> QED
  BY <1>2, <1>5, <1>6 DEF SlotsInv

(* A zeroing settles the ledger: the losers it meets are what it crossed.  *)
LEMMA SlotsZero ==
  ASSUME TypeOK, SlotsInv, NEW c \in Callers, Zero(c)
  PROVE  SlotsInv'
<1>1. At({"unclaim"})' = At({"unclaim"})
  BY AtStay DEF Zero
<1>2. probes' = 0 /\ slots' = 0 /\ crossed' = Cardinality(At({"unclaim"})) /\ rezeroed' = TRUE
  BY DEF Zero, ZeroProbes
<1>3. Cardinality(At({"unclaim"})) \in Nat /\ Cardinality(At({"unclaim"})) <= Cardinality(Callers)
  BY AtFacts
<1>4. 0 % Modulus = 0
  BY WidthFacts
<1>5. Ledger'
  BY <1>1, <1>2, <1>3, <1>4, WidthFacts DEF Ledger, Losers
<1> QED
  BY <1>2, <1>3, <1>5 DEF SlotsInv

(* No other step of a caller touches the ledger.                           *)
LEMMA SlotsOthers ==
  ASSUME TypeOK, SlotsInv, NEW c \in Callers,
         Ask(c) \/ (Advance(c) /\ ~Claim(c) /\ ~Unclaim(c) /\ ~Zero(c))
  PROVE  SlotsInv'
<1>1. CASE Check(c)
  <2>1. PICK to \in {"calling", "open", "idle", "probe"} : Goto(c, "idle", to)
    BY <1>1, StateGoes
  <2> QED
    BY <1>1, <2>1, SlotsApart DEF Check, stateVars
<1>2. CASE ReadOpened(c)
  BY <1>2, SlotsApart DEF ReadOpened, stateVars
<1>3. CASE Swap(c)
  BY <1>3, SlotsApart DEF Swap, SetState, stateVars
<1>4. CASE Reread(c)
  <2>1. PICK to \in {"calling", "open", "idle", "probe"} : Goto(c, "reread", to)
    BY <1>4, StateGoes
  <2> QED
    BY <1>4, <2>1, SlotsApart DEF Reread, stateVars
<1>5. CASE Unmirror(c)
  BY <1>5, SlotsApart DEF Unmirror, stateVars
<1>6. CASE Admit(c)
  BY <1>6, SlotsApart DEF Admit, stateVars
<1>7. CASE ReadLease(c)
  BY <1>7, SlotsApart DEF ReadLease, stateVars
<1>8. CASE Takeover(c)
  BY <1>8, SlotsApart DEF Takeover, stateVars
<1>9. CASE Sample(c)
  BY <1>9, SlotsApart DEF Sample, stateVars
<1>10. CASE TripState(c)
  BY <1>10, SlotsApart DEF TripState, SetState
<1>11. CASE TripTime(c)
  BY <1>11, SlotsApart DEF TripTime, stateVars
<1>12. CASE TripMirror(c)
  BY <1>12, SlotsApart DEF TripMirror, stateVars
<1>13. CASE CloseState(c)
  BY <1>13, SlotsApart DEF CloseState, SetState
<1>14. CASE CloseClear(c)
  BY <1>14, SlotsApart DEF CloseClear, stateVars
<1>15. CASE CloseMirror(c)
  BY <1>15, SlotsApart DEF CloseMirror, stateVars
<1>16. CASE Abandon(c)
  BY <1>16, SlotsApart DEF Abandon, stateVars
<1>17. ASSUME NEW failure \in BOOLEAN, Record(c, failure)
       PROVE  SlotsInv'
  <2>1. PICK to \in {"sample", "log", "opening", "closing"} : Goto(c, "calling", to)
    BY <1>17, StateGoes
  <2> QED
    BY <1>17, <2>1, SlotsApart DEF Record, stateVars
<1> QED
  BY <1>1, <1>2, <1>3, <1>4, <1>5, <1>6, <1>7, <1>8, <1>9, <1>10, <1>11, <1>12, <1>13, <1>14, <1>15, <1>16, <1>17 DEF Ask, Advance

(* Every step keeps the ledger.                                            *)
LEMMA SlotsStep == TypeOK /\ SlotsInv /\ [Next]_vars => SlotsInv'
<1> SUFFICES ASSUME TypeOK, SlotsInv, [Next]_vars PROVE SlotsInv'
  OBVIOUS
<1>1. CASE UNCHANGED <<pc, stateVars, probeVars>>
  <2>1. At({"unclaim"})' = At({"unclaim"})
    BY <1>1 DEF At
  <2> QED
    BY <1>1, <2>1 DEF SlotsInv, Ledger, Losers, stateVars, probeVars
<1>2. CASE UNCHANGED vars \/ Tick \/ ErrorRate
  BY <1>1, <1>2 DEF vars, Tick, ErrorRate
<1>3. ASSUME NEW c \in Callers, Ask(c) \/ Advance(c)
      PROVE  SlotsInv'
  BY <1>3, SlotsOthers, SlotsClaim, SlotsUnclaim, SlotsZero
<1> QED
  BY <1>2, <1>3 DEF Next

(* The probe counter is the slots granted since the last zeroing and the   *)
(* losers still to give theirs back, less those a zeroing overtook.  A     *)
(* HalfOpen that no late zeroing lands in grants at most                   *)
(* half_open_max_probes slots, and one more for each overtaken loser.      *)
THEOREM SlotsHold == Spec => []SlotsAccounted
<1>1. Init => SlotsInv
  <2> SUFFICES ASSUME Init PROVE SlotsInv
    OBVIOUS
  <2>1. At({"unclaim"}) = {}
    BY DEF Init, At
  <2>2. Cardinality(At({"unclaim"})) = 0
    BY <2>1, FS_EmptySet
  <2>3. 0 % Modulus = 0
    BY WidthFacts
  <2> QED
    BY <2>2, <2>3, WidthFacts DEF Init, SlotsInv, Ledger, Losers
<1>2. TypeOK /\ SlotsInv => SlotsAccounted
  <2> SUFFICES ASSUME TypeOK, SlotsInv, ~rezeroed PROVE granted <= MaxProbes + crossed
    BY DEF SlotsInv, Ledger, Losers, SlotsAccounted
  <2>1. granted \in Nat /\ slots \in Nat /\ crossed \in Nat
    BY DEF TypeOK
  <2>2. granted <= slots /\ slots <= MaxProbes + crossed
    BY DEF SlotsInv, Ledger
  <2> QED
    BY <2>1, <2>2, WidthFacts
<1> QED
  BY <1>1, <1>2, SlotsStep, TypeCorrect, PTL DEF Spec

-----------------------------------------------------------------------------
(* The mirror.                                                             *)

OpenLate  == {"openTime", "openZero", "openMirror"}
ShutLate  == {"unmirror", "clearing", "closeZero", "closeMirror"}

(* While no store to state overlaps another, at most one caller is between *)
(* its stores, and it is on its way to publish what state already says.    *)
OneLate   == \A c, d \in At(Unsettled) : c = d
LateTells == \A c \in Callers : /\ pc[c] \in OpenLate => state = "Open"
                                /\ pc[c] \in ShutLate => state # "Open"
NoneLate  == At(Unsettled) = {} => fast = (state = "Open")
MirrorInv == raced \/ (OneLate /\ LateTells /\ NoneLate)

(* The steps between two stores, listed by what they will publish.         *)
LEMMA LateFacts ==
  /\ Unsettled = OpenLate \cup ShutLate /\ OpenLate \cap ShutLate = {}
  /\ Unsettled = {"unmirror", "openTime", "openZero", "openMirror",
                  "clearing", "closeZero", "closeMirror"}
BY DEF Unsettled, OpenLate, ShutLate

(* A store to state: either it overlaps another, or the caller is alone.   *)
LEMMA MirrorBegin ==
  ASSUME TypeOK, MirrorInv, NEW c \in Callers, NEW from, NEW to, NEW s,
         Goto(c, from, to), SetState(c, s),
         \/ to = "openTime" /\ s = "Open"
         \/ to \in {"unmirror", "clearing"} /\ s # "Open"
  PROVE  MirrorInv'
<1>1. raced' = (At(Unsettled) \ {c} # {}) /\ state' = s
  BY DEF SetState
<1>2. CASE At(Unsettled) \ {c} = {}
  <2>1. At(Unsettled)' = {c}
    BY <1>2, LateFacts DEF At, Goto, TypeOK
  <2>2. \A d \in Callers : d # c => pc'[d] \notin OpenLate \cup ShutLate
    BY <2>1, LateFacts DEF At
  <2>3. pc'[c] = to
    BY DEF Goto, TypeOK
  <2>4. OneLate' /\ NoneLate'
    BY <2>1 DEF OneLate, NoneLate
  <2>5. LateTells'
    BY <1>1, <2>2, <2>3 DEF LateTells, OpenLate, ShutLate
  <2> QED
    BY <2>4, <2>5 DEF MirrorInv
<1>3. CASE At(Unsettled) \ {c} # {}
  BY <1>1, <1>3 DEF MirrorInv
<1> QED
  BY <1>2, <1>3

(* A step between two stores.                                              *)
LEMMA MirrorWithin ==
  ASSUME TypeOK, MirrorInv, NEW c \in Callers, NEW from, NEW to,
         Goto(c, from, to), UNCHANGED <<state, raced, fast>>,
         \/ from \in OpenLate /\ to \in OpenLate
         \/ from \in ShutLate /\ to \in ShutLate
         \/ from \notin Unsettled /\ to \notin Unsettled
  PROVE  MirrorInv'
<1>1. At(Unsettled)' = At(Unsettled)
  BY LateFacts, AtStay
<1>2. ASSUME NEW d \in Callers
      PROVE  /\ pc'[d] \in OpenLate <=> pc[d] \in OpenLate
             /\ pc'[d] \in ShutLate <=> pc[d] \in ShutLate
  BY LateFacts DEF Goto, TypeOK
<1>3. OneLate => OneLate'
  BY <1>1 DEF OneLate
<1>4. LateTells => LateTells'
  BY <1>2 DEF LateTells
<1>5. NoneLate => NoneLate'
  <2>1. state' = state /\ fast' = fast
    OBVIOUS
  <2> QED
    BY <1>1, <2>1, Zenon DEF NoneLate
<1>6. raced => raced'
  OBVIOUS
<1> QED
  BY <1>3, <1>4, <1>5, <1>6, Zenon DEF MirrorInv

(* The store to the mirror.                                                *)
LEMMA MirrorEnd ==
  ASSUME TypeOK, MirrorInv, NEW c \in Callers, NEW from, NEW to,
         Goto(c, from, to), UNCHANGED <<state, raced>>, to \notin Unsettled,
         \/ from \in OpenLate /\ fast' = TRUE
         \/ from \in ShutLate /\ fast' = FALSE
  PROVE  MirrorInv'
<1>1. raced' = raced /\ state' = state
  OBVIOUS
<1>2. ASSUME OneLate, LateTells
      PROVE  OneLate' /\ LateTells' /\ NoneLate'
  <2>1. At(Unsettled) = {c}
    BY <1>2, LateFacts DEF OneLate, At, Goto
  <2>2. At(Unsettled)' = {}
    BY <2>1 DEF At, Goto, TypeOK
  <2>3. OneLate' /\ LateTells'
    BY <2>2, LateFacts DEF OneLate, LateTells, At
  <2>4. fast' = (state' = "Open")
    <3>1. CASE from \in OpenLate /\ fast' = TRUE
      <4>1. state' = "Open"
        BY <1>1, <1>2, <3>1 DEF LateTells, Goto
      <4> QED
        BY <3>1, <4>1, Zenon
    <3>2. CASE from \in ShutLate /\ fast' = FALSE
      <4>1. state' # "Open"
        BY <1>1, <1>2, <3>2 DEF LateTells, Goto
      <4> QED
        BY <3>2, <4>1, Zenon
    <3> QED
      BY <3>1, <3>2
  <2> QED
    BY <2>3, <2>4, Zenon DEF NoneLate
<1>3. raced => raced'
  BY <1>1
<1> QED
  BY <1>2, <1>3, Zenon DEF MirrorInv

(* Every step of a caller keeps the relation.                              *)
LEMMA MirrorCaller ==
  ASSUME TypeOK, MirrorInv, NEW c \in Callers, Ask(c) \/ Advance(c)
  PROVE  MirrorInv'
<1>1. CASE Check(c)
  <2>1. PICK to \in {"calling", "open", "idle", "probe"} : Goto(c, "idle", to)
    BY <1>1, StateGoes
  <2> QED
    BY <1>1, <2>1, MirrorWithin, LateFacts DEF Check, stateVars
<1>2. CASE ReadOpened(c)
  BY <1>2, MirrorWithin, LateFacts DEF ReadOpened, OpenLate, ShutLate, stateVars
<1>3. CASE Reread(c)
  <2>1. PICK to \in {"calling", "open", "idle", "probe"} : Goto(c, "reread", to)
    BY <1>3, StateGoes
  <2> QED
    BY <1>3, <2>1, MirrorWithin, LateFacts DEF Reread, stateVars
<1>4. CASE Claim(c)
  BY <1>4, MirrorWithin, LateFacts DEF Claim, OpenLate, ShutLate, stateVars
<1>5. CASE Admit(c)
  BY <1>5, MirrorWithin, LateFacts DEF Admit, OpenLate, ShutLate, stateVars
<1>6. CASE Unclaim(c)
  BY <1>6, MirrorWithin, LateFacts DEF Unclaim, OpenLate, ShutLate, stateVars
<1>7. CASE ReadLease(c)
  BY <1>7, MirrorWithin, LateFacts DEF ReadLease, OpenLate, ShutLate, stateVars
<1>8. CASE Takeover(c)
  BY <1>8, MirrorWithin, LateFacts DEF Takeover, OpenLate, ShutLate, stateVars
<1>9. CASE Sample(c)
  BY <1>9, MirrorWithin, LateFacts DEF Sample, OpenLate, ShutLate, stateVars
<1>10. CASE TripTime(c)
  BY <1>10, MirrorWithin, LateFacts DEF TripTime, OpenLate, ShutLate, stateVars
<1>11. CASE CloseClear(c)
  BY <1>11, MirrorWithin, LateFacts DEF CloseClear, OpenLate, ShutLate, stateVars
<1>12. CASE Zero(c)
  BY <1>12, MirrorWithin, LateFacts DEF Zero, ZeroProbes, OpenLate, ShutLate, stateVars
<1>13. CASE Abandon(c)
  BY <1>13, MirrorWithin, LateFacts DEF Abandon, OpenLate, ShutLate, stateVars
<1>14. ASSUME NEW failure \in BOOLEAN, Record(c, failure)
      PROVE  MirrorInv'
  <2>1. PICK to \in {"sample", "log", "opening", "closing"} : Goto(c, "calling", to)
    BY <1>14, StateGoes
  <2> QED
    BY <1>14, <2>1, MirrorWithin, LateFacts DEF Record, stateVars
<1>15. CASE Unmirror(c)
  <2>1. Goto(c, "unmirror", "probe") /\ fast' = FALSE /\ UNCHANGED <<state, raced>>
    BY <1>15 DEF Unmirror, stateVars
  <2>2. "unmirror" \in ShutLate /\ "probe" \notin Unsettled
    BY LateFacts DEF ShutLate
  <2> QED
    BY <2>1, <2>2, MirrorEnd
<1>16. CASE TripMirror(c)
  BY <1>16, MirrorEnd, LateFacts DEF TripMirror, OpenLate, ShutLate, stateVars
<1>17. CASE CloseMirror(c)
  <2>1. Goto(c, "closeMirror", "idle") /\ fast' = FALSE /\ UNCHANGED <<state, raced>>
    BY <1>17 DEF CloseMirror, stateVars
  <2>2. "closeMirror" \in ShutLate /\ "idle" \notin Unsettled
    BY LateFacts DEF ShutLate
  <2> QED
    BY <2>1, <2>2, MirrorEnd
<1>18. CASE TripState(c)
  BY <1>18, MirrorBegin DEF TripState
<1>19. CASE CloseState(c)
  BY <1>19, MirrorBegin DEF CloseState
<1>20. CASE Swap(c)
  <2>1. CASE Goto(c, "swap", "unmirror") /\ SetState(c, "HalfOpen")
    BY <2>1, MirrorBegin
  <2>2. CASE Goto(c, "swap", "reread") /\ UNCHANGED stateVars
    BY <1>20, <2>2, MirrorWithin, LateFacts DEF Swap, stateVars
  <2> QED
    BY <1>20, <2>1, <2>2 DEF Swap
<1> QED
  BY <1>1, <1>2, <1>3, <1>4, <1>5, <1>6, <1>7, <1>8, <1>9, <1>10,
     <1>11, <1>12, <1>13, <1>14, <1>15, <1>16, <1>17, <1>18, <1>19, <1>20 DEF Ask, Advance

(* Every step keeps the relation.                                          *)
LEMMA MirrorStep == TypeOK /\ MirrorInv /\ [Next]_vars => MirrorInv'
<1> SUFFICES ASSUME TypeOK, MirrorInv, [Next]_vars PROVE MirrorInv'
  OBVIOUS
<1>1. CASE UNCHANGED <<pc, stateVars, fast>>
  <2>1. At(Unsettled)' = At(Unsettled)
    BY <1>1 DEF At
  <2>2. pc' = pc /\ state' = state /\ raced' = raced /\ fast' = fast
    BY <1>1 DEF stateVars
  <2> QED
    BY <2>1, <2>2, Zenon DEF MirrorInv, OneLate, LateTells, NoneLate
<1>2. CASE UNCHANGED vars \/ Tick \/ ErrorRate
  BY <1>1, <1>2 DEF vars, Tick, ErrorRate
<1> QED
  BY <1>2, MirrorCaller DEF Next

(* Whenever no caller is between its stores and the last store to state    *)
(* met no other, is_open() answers for the state.                          *)
THEOREM MirrorHolds == Spec => []MirrorSettles
<1>1. Init => MirrorInv
  <2> SUFFICES ASSUME Init PROVE OneLate /\ LateTells /\ NoneLate
    BY DEF MirrorInv
  <2>1. At(Unsettled) = {}
    BY LateFacts DEF Init, At
  <2>2. OneLate /\ LateTells
    BY <2>1, LateFacts DEF Init, OneLate, LateTells, At
  <2>3. fast = FALSE /\ state # "Open"
    BY DEF Init
  <2> QED
    BY <2>2, <2>3, Zenon DEF NoneLate
<1>2. MirrorInv => MirrorSettles
  BY Zenon DEF MirrorInv, MirrorSettles, NoneLate
<1> QED
  BY <1>1, <1>2, MirrorStep, TypeCorrect, PTL DEF Spec

-----------------------------------------------------------------------------
(* Takeovers of a lease.                                                   *)

(* A claim is hardly older than the last takeover, and who is about to     *)
(* take one over has seen it a cool-down old.                              *)
LeaseInv ==
  /\ claimedAge <= sinceTakeover + Stall
  /\ \A c \in Callers : pc[c] = "takeover" => seen[c] >= OpenDuration

(* A step of a caller that neither stores a claim nor goes for one.        *)
LEMMA LeaseApart ==
  ASSUME TypeOK, LeaseInv, NEW c \in Callers, NEW from, NEW to, Goto(c, from, to),
         to # "takeover", UNCHANGED leaseVars,
         UNCHANGED seen \/ seen' = [seen EXCEPT ![c] = 0]
  PROVE  LeaseInv'
<1>1. \A d \in Callers : pc'[d] = "takeover" => d # c /\ pc[d] = "takeover"
  BY DEF Goto, TypeOK
<1>2. \A d \in Callers : d # c => seen'[d] = seen[d]
  BY DEF TypeOK
<1> QED
  BY <1>1, <1>2 DEF LeaseInv, leaseVars

(* Storing a claim, whoever sees one old enough, and taking one over.      *)
LEMMA LeaseClaim ==
  ASSUME TypeOK, LeaseInv, NEW c \in Callers, Admit(c) \/ ReadLease(c) \/ Takeover(c)
  PROVE  LeaseInv'
<1>1. stamp[c] \in 0..Stall /\ seen[c] \in 0..Horizon /\ claimedAge \in 0..Horizon
      /\ sinceTakeover \in 0..OpenDuration
  BY DEF TypeOK
<1>2. ASSUME NEW to, NEW from, Goto(c, from, to), to # "takeover", Forget(c)
      PROVE  \A d \in Callers : pc'[d] = "takeover" => seen'[d] >= OpenDuration
  <2>1. \A d \in Callers : pc'[d] = "takeover" => d # c /\ pc[d] = "takeover"
    BY <1>2 DEF Goto, TypeOK
  <2>2. \A d \in Callers : d # c => seen'[d] = seen[d]
    BY <1>2 DEF Forget, TypeOK
  <2> QED
    BY <2>1, <2>2 DEF LeaseInv
<1>3. CASE Admit(c)
  <2>1. claimedAge' <= sinceTakeover' + Stall
    BY <1>1, <1>3, BoundFacts DEF Admit
  <2> QED
    BY <1>2, <1>3, <2>1 DEF Admit, LeaseInv
<1>4. CASE Takeover(c)
  <2>1. CASE Goto(c, "takeover", "calling") /\ claimedAge' = stamp[c] /\ sinceTakeover' = 0
    <3>1. claimedAge' <= sinceTakeover' + Stall
      BY <1>1, <2>1, BoundFacts
    <3> QED
      BY <1>2, <1>4, <2>1, <3>1 DEF Takeover, LeaseInv
  <2>2. CASE Goto(c, "takeover", "idle") /\ UNCHANGED leaseVars
    BY <1>4, <2>2, LeaseApart DEF Takeover, Forget
  <2> QED
    BY <1>4, <2>1, <2>2 DEF Takeover
<1>5. CASE ReadLease(c)
  <2>1. CASE claimedAge - stamp[c] >= OpenDuration /\ Goto(c, "lease", "takeover")
             /\ seen' = [seen EXCEPT ![c] = claimedAge]
    <3>1. seen'[c] >= OpenDuration
      BY <1>1, <2>1, BoundFacts DEF TypeOK
    <3>2. \A d \in Callers : d # c => seen'[d] = seen[d] /\ pc'[d] = pc[d]
      BY <2>1 DEF TypeOK, Goto
    <3>3. UNCHANGED leaseVars
      BY <1>5 DEF ReadLease
    <3> QED
      BY <3>1, <3>2, <3>3 DEF LeaseInv, leaseVars
  <2>2. CASE Goto(c, "lease", "idle") /\ Forget(c)
    BY <1>5, <2>2, LeaseApart DEF ReadLease, Forget
  <2> QED
    BY <1>5, <2>1, <2>2 DEF ReadLease
<1> QED
  BY <1>3, <1>4, <1>5

(* As time passes, the two ages grow together, and what was seen with them.*)
LEMMA LeaseTick ==
  ASSUME TypeOK, LeaseInv, Tick
  PROVE  LeaseInv'
<1>1. claimedAge \in 0..Horizon /\ sinceTakeover \in 0..OpenDuration
  BY DEF TypeOK
<1>2. claimedAge' = Older(claimedAge, Horizon)
      /\ sinceTakeover' = Older(sinceTakeover, OpenDuration)
  BY DEF Tick
<1>3. claimedAge' <= sinceTakeover' + Stall
  BY <1>1, <1>2, BoundFacts DEF LeaseInv, Older
<1>4. ASSUME NEW c \in Callers, pc'[c] = "takeover"
      PROVE  seen'[c] >= OpenDuration
  <2>1. pc[c] = "takeover" /\ seen'[c] = Older(seen[c], Horizon)
    BY <1>4 DEF Tick
  <2>2. seen[c] >= OpenDuration /\ seen[c] \in 0..Horizon
    BY <2>1 DEF LeaseInv, TypeOK
  <2>3. Older(seen[c], Horizon) >= seen[c] /\ Older(seen[c], Horizon) \in 0..Horizon
    BY <2>2, OlderFacts, BoundFacts
  <2> QED
    BY <2>1, <2>2, <2>3, BoundFacts
<1> QED
  BY <1>3, <1>4 DEF LeaseInv

(* Every step keeps the relation.                                          *)
LEMMA LeaseStep == TypeOK /\ LeaseInv /\ [Next]_vars => LeaseInv'
<1> SUFFICES ASSUME TypeOK, LeaseInv, [Next]_vars PROVE LeaseInv'
  OBVIOUS
<1>1. CASE UNCHANGED vars \/ ErrorRate
  BY <1>1 DEF vars, callerVars, leaseVars, ErrorRate, LeaseInv
<1>2. ASSUME NEW c \in Callers, Ask(c) \/ Advance(c)
      PROVE  LeaseInv'
  <2>1. CASE ReadOpened(c)
    BY <2>1, LeaseApart DEF ReadOpened, callerVars
  <2>2. CASE Swap(c)
    BY <2>2, LeaseApart DEF Swap, callerVars
  <2>3. CASE Unmirror(c)
    BY <2>3, LeaseApart DEF Unmirror, callerVars
  <2>4. CASE Claim(c)
    BY <2>4, LeaseApart DEF Claim, callerVars
  <2>5. CASE Unclaim(c)
    BY <2>5, LeaseApart DEF Unclaim, callerVars
  <2>6. CASE Sample(c)
    BY <2>6, LeaseApart DEF Sample, callerVars
  <2>7. CASE TripState(c)
    BY <2>7, LeaseApart DEF TripState, callerVars
  <2>8. CASE TripTime(c)
    BY <2>8, LeaseApart DEF TripTime, callerVars
  <2>9. CASE TripMirror(c)
    BY <2>9, LeaseApart DEF TripMirror, callerVars
  <2>10. CASE CloseState(c)
    BY <2>10, LeaseApart DEF CloseState, callerVars
  <2>11. CASE CloseClear(c)
    BY <2>11, LeaseApart DEF CloseClear, callerVars
  <2>12. CASE CloseMirror(c)
    BY <2>12, LeaseApart DEF CloseMirror, callerVars
  <2>13. CASE Zero(c)
    BY <2>13, LeaseApart DEF Zero, callerVars
  <2>14. CASE Abandon(c)
    BY <2>14, LeaseApart DEF Abandon, callerVars
  <2>15. CASE Check(c)
    <3>1. PICK to \in {"calling", "open", "idle", "probe"} : Goto(c, "idle", to)
      BY <2>15, StateGoes
    <3> QED
      BY <2>15, <3>1, LeaseApart DEF Check, callerVars
  <2>16. CASE Reread(c)
    <3>1. PICK to \in {"calling", "open", "idle", "probe"} : Goto(c, "reread", to)
      BY <2>16, StateGoes
    <3> QED
      BY <2>16, <3>1, LeaseApart DEF Reread, callerVars
  <2>17. ASSUME NEW failure \in BOOLEAN, Record(c, failure)
         PROVE  LeaseInv'
    <3>1. PICK to \in {"sample", "log", "opening", "closing"} : Goto(c, "calling", to)
      BY <2>17, StateGoes
    <3> QED
      BY <2>17, <3>1, LeaseApart DEF Record
  <2> QED
    BY <1>2, LeaseClaim, <2>1, <2>2, <2>3, <2>4, <2>5, <2>6, <2>7, <2>8, <2>9,
       <2>10, <2>11, <2>12, <2>13, <2>14, <2>15, <2>16, <2>17 DEF Ask, Advance
<1> QED
  BY <1>1, <1>2, LeaseTick DEF Next

(* Only Takeover leads a caller out of the step "takeover".                *)
LEMMA TakeoverOnly ==
  ASSUME TypeOK, NEW c \in Callers, Ask(c) \/ Advance(c)
  PROVE  /\ \A d \in Callers : d # c => pc'[d] = pc[d]
         /\ pc[c] = "takeover" => Takeover(c)
<1>1. CASE Advance(c) /\ ~Takeover(c) /\ ~Reread(c)
  BY <1>1 DEF Advance, ReadOpened, Swap, Unmirror, Claim, Admit, Unclaim, ReadLease, Sample,
              TripState, TripTime, TripMirror, CloseState, CloseClear, CloseMirror, Zero,
              Goto, TypeOK
<1>2. CASE Takeover(c)
  BY <1>2 DEF Takeover, Goto, TypeOK
<1>3. CASE Reread(c)
  BY <1>3, StateGoes DEF Goto, TypeOK
<1>4. CASE Ask(c)
  <2>1. CASE Check(c) \/ \E failure \in BOOLEAN : Record(c, failure)
    BY <2>1, StateGoes DEF Goto, TypeOK
  <2>2. CASE Abandon(c)
    BY <2>2 DEF Abandon, Goto, TypeOK
  <2> QED
    BY <1>4, <2>1, <2>2 DEF Ask
<1> QED
  BY <1>1, <1>2, <1>3, <1>4

(* Two takeovers of a lease are a cool-down apart, but for the ticks a     *)
(* caller may lose between its reading of the clock and its store: one     *)
(* abandoned probe is replaced by one caller, however many find it expired.*)
THEOREM TakeoversHold == Spec => TakeoversApart
<1>1. Init => LeaseInv
  BY BoundFacts DEF Init, LeaseInv
<1>2. ASSUME TypeOK, LeaseInv, [Next]_vars, NEW c \in Callers,
             pc[c] = "takeover", pc'[c] = "calling"
      PROVE  sinceTakeover >= OpenDuration - Stall
  <2>1. \E d \in Callers : Ask(d) \/ Advance(d)
    BY <1>2 DEF Next, Tick, ErrorRate, vars
  <2>2. PICK d \in Callers : Ask(d) \/ Advance(d)
    BY <2>1
  <2>3. Takeover(c)
    BY <1>2, <2>2, TakeoverOnly
  <2>4. claimedAge = seen[c]
    BY <1>2, <2>3 DEF Takeover, Goto, TypeOK
  <2>5. seen[c] >= OpenDuration /\ seen[c] \in 0..Horizon
    BY <1>2 DEF LeaseInv, TypeOK
  <2> QED
    BY <1>2, <2>4, <2>5, BoundFacts DEF LeaseInv, TypeOK
<1>3. TypeOK /\ LeaseInv /\ [Next]_vars =>
        [\A c \in Callers : pc[c] = "takeover" /\ pc'[c] = "calling" =>
                             sinceTakeover >= OpenDuration - Stall]_vars
  BY <1>2
<1> QED
  BY <1>1, <1>3, LeaseStep, TypeCorrect, PTL DEF Spec, TakeoversApart

-----------------------------------------------------------------------------
(* The sliding window.                                                     *)

(* The failures among the samples from a on and up to b.                   *)
Marks(s, a, b) == {i \in a..b : s[i]}

(* They are finitely many.                                                 *)
LEMMA MarksFinite ==
  ASSUME NEW s, NEW a \in Int, NEW b \in Int
  PROVE  IsFiniteSet(Marks(s, a, b)) /\ Cardinality(Marks(s, a, b)) \in Nat
<1>1. IsFiniteSet(a..b)
  BY FS_Interval
<1> QED
  BY <1>1, FS_Subset, FS_CardinalityType DEF Marks

(* A range of samples splits anywhere.                                     *)
LEMMA MarksSplit ==
  ASSUME NEW s, NEW n \in Nat, NEW k \in 0..n
  PROVE  Cardinality(Marks(s, 1, n)) =
           Cardinality(Marks(s, 1, k)) + Cardinality(Marks(s, k + 1, n))
<1>1. Marks(s, 1, n) = Marks(s, 1, k) \cup Marks(s, k + 1, n)
  BY DEF Marks
<1>2. Marks(s, 1, k) \cap Marks(s, k + 1, n) = {}
  BY DEF Marks
<1>3. Cardinality(Marks(s, 1, k) \cap Marks(s, k + 1, n)) = 0
  BY <1>2, FS_EmptySet
<1>4. IsFiniteSet(Marks(s, 1, k)) /\ IsFiniteSet(Marks(s, k + 1, n))
      /\ Cardinality(Marks(s, 1, k)) \in Nat /\ Cardinality(Marks(s, k + 1, n)) \in Nat
  BY MarksFinite
<1>5. Cardinality(Marks(s, 1, k) \cup Marks(s, k + 1, n)) =
        Cardinality(Marks(s, 1, k)) + Cardinality(Marks(s, k + 1, n))
          - Cardinality(Marks(s, 1, k) \cap Marks(s, k + 1, n))
  BY <1>4, FS_Union
<1> QED
  BY <1>1, <1>3, <1>4, <1>5

(* Samples count the same wherever they stand.                             *)
LEMMA MarksShift ==
  ASSUME NEW s, NEW t, NEW k \in Nat, NEW m \in Nat, \A i \in 1..m : t[i] = s[k + i]
  PROVE  Cardinality(Marks(s, k + 1, k + m)) = Cardinality(Marks(t, 1, m))
<1> DEFINE A == Marks(t, 1, m)
           B == Marks(s, k + 1, k + m)
           f == [i \in A |-> k + i]
<1>1. f \in [A -> B]
  BY DEF Marks
<1>2. \A i, j \in A : f[i] = f[j] => i = j
  BY DEF Marks
<1>3. ASSUME NEW j \in B
      PROVE  \E i \in A : f[i] = j
  <2>1. j - k \in A /\ f[j - k] = j
    BY DEF Marks
  <2> QED
    BY <2>1
<1>4. ExistsBijection(A, B)
  <2>1. f \in Bijection(A, B)
    BY <1>1, <1>2, <1>3, Fun_IsBij
  <2> QED
    BY <2>1 DEF ExistsBijection
<1>5. IsFiniteSet(A)
  BY MarksFinite
<1> QED
  BY <1>4, <1>5, FS_Bijection

(* One sample counts for its bit.                                          *)
LEMMA MarksOne ==
  ASSUME NEW s, NEW k \in Int
  PROVE  Cardinality(Marks(s, k, k)) = Bit(s[k])
<1>1. CASE s[k]
  <2>1. Marks(s, k, k) = {k}
    BY <1>1 DEF Marks
  <2>2. Bit(s[k]) = 1
    BY <1>1, Zenon DEF Bit
  <2> QED
    BY <2>1, <2>2, FS_Singleton
<1>2. CASE ~s[k]
  <2>1. Marks(s, k, k) = {}
    BY <1>2 DEF Marks
  <2>2. Bit(s[k]) = 0
    BY <1>2, Zenon DEF Bit
  <2> QED
    BY <2>1, <2>2, FS_EmptySet
<1> QED
  BY <1>1, <1>2

(* Dropping the first k samples of a sequence uncounts the failures among  *)
(* them.                                                                   *)
LEMMA FailuresSplit ==
  ASSUME NEW s \in Seq(BOOLEAN), NEW k \in 0..Len(s)
  PROVE  Failures(s) = Failures(SubSeq(s, 1, k)) + Failures(SubSeq(s, k + 1, Len(s)))
<1> DEFINE t == SubSeq(s, 1, k)
           u == SubSeq(s, k + 1, Len(s))
<1>1. Len(t) = k /\ \A i \in 1..k : t[i] = s[0 + i]
  OBVIOUS
<1>2. Len(u) = Len(s) - k /\ \A i \in 1..(Len(s) - k) : u[i] = s[k + i]
  OBVIOUS
<1>3. Len(s) \in Nat /\ Len(s) - k \in Nat /\ k + (Len(s) - k) = Len(s) /\ 0 + k = k
  OBVIOUS
<1> HIDE DEF t, u
<1>4. Cardinality(Marks(s, k + 1, Len(s))) = Cardinality(Marks(u, 1, Len(s) - k))
  <2>1. PICK m \in Nat : m = Len(s) - k
    BY <1>3
  <2>2. \A i \in 1..m : u[i] = s[k + i]
    BY <1>2, <2>1
  <2>3. Cardinality(Marks(s, k + 1, k + m)) = Cardinality(Marks(u, 1, m))
    BY <2>2, MarksShift
  <2> QED
    BY <1>3, <2>1, <2>3
<1>5. Cardinality(Marks(s, 1, k)) = Cardinality(Marks(t, 1, k))
  <2>1. Marks(s, 1, k) = Marks(t, 1, k)
    BY <1>1 DEF Marks
  <2> QED
    BY <2>1
<1>6. Failures(s) = Cardinality(Marks(s, 1, Len(s))) /\ Failures(t) = Cardinality(Marks(t, 1, k))
      /\ Failures(u) = Cardinality(Marks(u, 1, Len(s) - k))
  BY <1>1, <1>2 DEF Failures, Marks
<1> QED
  BY <1>3, <1>4, <1>5, <1>6, MarksSplit DEF t, u

(* A sample at the end counts for its bit.                                 *)
LEMMA FailuresAppend ==
  ASSUME NEW s \in Seq(BOOLEAN), NEW e \in BOOLEAN
  PROVE  Failures(Append(s, e)) = Failures(s) + Bit(e)
<1> DEFINE t == Append(s, e)
<1>1. Len(s) \in Nat /\ Len(t) = Len(s) + 1 /\ t[Len(s) + 1] = e
      /\ \A i \in 1..Len(s) : t[i] = s[i]
  OBVIOUS
<1> HIDE DEF t
<1>2. Marks(t, 1, Len(s)) = Marks(s, 1, Len(s))
  BY <1>1 DEF Marks
<1>3. Cardinality(Marks(t, Len(s) + 1, Len(s) + 1)) = Bit(t[Len(s) + 1])
  BY <1>1, MarksOne
<1>4. Failures(t) = Cardinality(Marks(t, 1, Len(s) + 1))
      /\ Failures(s) = Cardinality(Marks(s, 1, Len(s)))
  BY <1>1 DEF Failures, Marks
<1>5. Cardinality(Marks(t, 1, Len(s) + 1)) =
        Cardinality(Marks(t, 1, Len(s))) + Cardinality(Marks(t, Len(s) + 1, Len(s) + 1))
  BY <1>1, MarksSplit
<1> QED
  BY <1>1, <1>2, <1>3, <1>4, <1>5 DEF t

(* Without its head a sequence counts as much less as the head's bit.      *)
LEMMA FailuresTail ==
  ASSUME NEW s \in Seq(BOOLEAN), s # <<>>
  PROVE  Failures(Tail(s)) = Failures(s) - Bit(Head(s))
<1> DEFINE t == Tail(s)
<1>1. Len(t) = Len(s) - 1 /\ \A i \in 1..(Len(s) - 1) : t[i] = s[1 + i]
  OBVIOUS
<1>2. Len(s) \in Nat /\ Len(s) - 1 \in Nat /\ 1 + (Len(s) - 1) = Len(s) /\ Head(s) = s[1]
  OBVIOUS
<1> HIDE DEF t
<1>3. Cardinality(Marks(s, 1, 1)) = Bit(s[1])
  BY MarksOne
<1>4. Cardinality(Marks(s, 1, Len(s))) =
        Cardinality(Marks(s, 1, 1)) + Cardinality(Marks(s, 1 + 1, Len(s)))
  BY <1>2, MarksSplit
<1>5. Cardinality(Marks(s, 1 + 1, Len(s))) = Cardinality(Marks(t, 1, Len(s) - 1))
  <2>1. PICK m \in Nat : m = Len(s) - 1
    BY <1>2
  <2>2. PICK k \in Nat : k = 1
    OBVIOUS
  <2>3. \A i \in 1..m : t[i] = s[k + i]
    BY <1>1, <2>1, <2>2
  <2>4. Cardinality(Marks(s, k + 1, k + m)) = Cardinality(Marks(t, 1, m))
    BY ONLY m \in Nat, k \in Nat, <2>3, MarksShift
  <2> QED
    BY <1>2, <2>1, <2>2, <2>4
<1>6. Failures(s) = Cardinality(Marks(s, 1, Len(s)))
      /\ Failures(t) = Cardinality(Marks(t, 1, Len(s) - 1))
  BY <1>1, <1>2 DEF Failures, Marks
<1>7. Cardinality(Marks(s, 1 + 1, Len(s))) \in Nat /\ Bit(s[1]) \in {0, 1}
  BY <1>2, MarksFinite, BitType
<1> QED
  BY <1>2, <1>3, <1>4, <1>5, <1>6, <1>7 DEF t

(* What WindowCounts says of the window.                                   *)
WindowRight(w) == Len(w.fails) <= WindowCap /\ w.failures = Failures(w.fails)

(* A push keeps the count and the cap.                                     *)
LEMMA PushRight ==
  ASSUME NEW w \in [fails : Seq(BOOLEAN), failures : Int], NEW e \in BOOLEAN, WindowRight(w)
  PROVE  WindowRight(Push(w, e))
<1>1. w.fails \in Seq(BOOLEAN) /\ Len(w.fails) \in Nat /\ Len(w.fails) <= WindowCap
      /\ w.failures = Failures(w.fails) /\ WindowCap \in Nat /\ WindowCap > 0
  BY WindowAssumption DEF WindowRight
<1>2. Bit(e) \in {0, 1} /\ Bit(Head(w.fails)) \in {0, 1} /\ Failures(w.fails) \in Nat
  BY <1>1, BitType, FailuresType
<1>3. CASE Len(w.fails) >= WindowCap
  <2>1. w.fails # <<>> /\ Tail(w.fails) \in Seq(BOOLEAN) /\ Len(Tail(w.fails)) = Len(w.fails) - 1
    BY <1>1, <1>3
  <2>2. Push(w, e).fails = Append(Tail(w.fails), e)
        /\ Push(w, e).failures = w.failures + Bit(e) - Bit(Head(w.fails))
    BY <1>3 DEF Push
  <2>3. Failures(Append(Tail(w.fails), e)) = Failures(w.fails) - Bit(Head(w.fails)) + Bit(e)
    BY <1>1, <2>1, FailuresAppend, FailuresTail
  <2>4. Len(Append(Tail(w.fails), e)) = Len(w.fails)
    BY <1>1, <2>1
  <2> QED
    BY <1>1, <1>2, <2>2, <2>3, <2>4 DEF WindowRight
<1>4. CASE ~(Len(w.fails) >= WindowCap)
  <2>1. Push(w, e).fails = Append(w.fails, e) /\ Push(w, e).failures = w.failures + Bit(e) - 0
    BY <1>4 DEF Push
  <2>2. Failures(Append(w.fails, e)) = Failures(w.fails) + Bit(e)
    BY <1>1, FailuresAppend
  <2>3. Len(Append(w.fails, e)) = Len(w.fails) + 1
    BY <1>1
  <2> QED
    BY <1>1, <1>2, <1>4, <2>1, <2>2, <2>3 DEF WindowRight
<1> QED
  BY <1>3, <1>4

(* An eviction of any prefix keeps them too.                               *)
LEMMA EvictRight ==
  ASSUME NEW w \in [fails : Seq(BOOLEAN), failures : Int], NEW k \in 0..Len(w.fails),
         WindowRight(w)
  PROVE  WindowRight(Evict(w, k))
<1>1. w.fails \in Seq(BOOLEAN) /\ Len(w.fails) \in Nat /\ Len(w.fails) <= WindowCap
      /\ w.failures = Failures(w.fails) /\ WindowCap \in Nat
  BY WindowAssumption DEF WindowRight
<1>2. Evict(w, k).fails = SubSeq(w.fails, k + 1, Len(w.fails))
      /\ Evict(w, k).failures = w.failures - Failures(SubSeq(w.fails, 1, k))
  BY DEF Evict
<1>3. SubSeq(w.fails, k + 1, Len(w.fails)) \in Seq(BOOLEAN) /\ SubSeq(w.fails, 1, k) \in Seq(BOOLEAN)
      /\ Len(SubSeq(w.fails, k + 1, Len(w.fails))) = Len(w.fails) - k
  BY <1>1
<1>4. Failures(w.fails) =
        Failures(SubSeq(w.fails, 1, k)) + Failures(SubSeq(w.fails, k + 1, Len(w.fails)))
  BY <1>1, FailuresSplit
<1>5. Failures(SubSeq(w.fails, 1, k)) \in Nat
      /\ Failures(SubSeq(w.fails, k + 1, Len(w.fails))) \in Nat
  BY <1>3, FailuresType
<1> QED
  BY <1>1, <1>2, <1>3, <1>4, <1>5 DEF WindowRight

(* The count of failures is exact and the window within its cap, whatever  *)
(* is pushed, evicted or cleared in whichever order.                       *)
THEOREM WindowHolds == Spec => []WindowCounts
<1>1. Init => WindowCounts
  <2> SUFFICES ASSUME Init PROVE WindowCounts
    OBVIOUS
  <2>1. Failures(<<>>) = 0
    <3>1. {i \in 1..Len(<<>>) : <<>>[i]} = {}
      OBVIOUS
    <3> QED
      BY <3>1, FS_EmptySet DEF Failures
  <2> QED
    BY <2>1, WindowAssumption DEF Init, WindowCounts
<1>2. TypeOK /\ WindowCounts /\ [Next]_vars => WindowCounts'
  <2> SUFFICES ASSUME TypeOK, WindowCounts, [Next]_vars PROVE WindowCounts'
    OBVIOUS
  <2>1. WindowRight(window) /\ window \in [fails : Seq(BOOLEAN), failures : Int]
    BY DEF WindowCounts, WindowRight, TypeOK
  <2>2. CASE window' = window
    BY <2>2 DEF WindowCounts
  <2>3. CASE ErrorRate
    <3>1. PICK k \in 1..Len(window.fails) : window' = Evict(window, k)
      BY <2>3 DEF ErrorRate
    <3>2. k \in 0..Len(window.fails)
      OBVIOUS
    <3> QED
      BY <2>1, <3>1, <3>2, EvictRight DEF WindowCounts, WindowRight
  <2>4. ASSUME NEW c \in Callers, Sample(c)
        PROVE  WindowCounts'
    <3>1. failed[c] \in BOOLEAN
      BY DEF TypeOK
    <3>2. PICK k \in 0..Len(Push(window, failed[c]).fails) :
            window' = Evict(Push(window, failed[c]), k)
      BY <2>4 DEF Sample
    <3>3. WindowRight(Push(window, failed[c]))
          /\ Push(window, failed[c]) \in [fails : Seq(BOOLEAN), failures : Int]
      BY <2>1, <3>1, PushRight, PushType
    <3>4. WindowRight(window')
      BY <3>2, <3>3, EvictRight
    <3> QED
      BY <3>4 DEF WindowCounts, WindowRight
  <2>5. ASSUME NEW c \in Callers, CloseClear(c)
        PROVE  WindowCounts'
    <3>1. window' = [fails |-> <<>>, failures |-> 0]
      BY <2>5 DEF CloseClear
    <3>2. Failures(<<>>) = 0
      <4>1. {i \in 1..Len(<<>>) : <<>>[i]} = {}
        OBVIOUS
      <4> QED
        BY <4>1, FS_EmptySet DEF Failures
    <3> QED
      BY <3>1, <3>2, WindowAssumption DEF WindowCounts
  <2>6. ASSUME NEW c \in Callers, Ask(c) \/ (Advance(c) /\ ~Sample(c) /\ ~CloseClear(c))
        PROVE  window' = window
    BY <2>6 DEF Ask, Advance, Check, Abandon, Record, ReadOpened, Swap, Reread, Unmirror, Claim,
         Admit, Unclaim, ReadLease, Takeover, TripState, TripTime, TripMirror, CloseState,
         CloseMirror, Zero
  <2> QED
    BY <2>2, <2>3, <2>4, <2>5, <2>6 DEF Next, Tick, vars
<1> QED
  BY <1>1, <1>2, TypeCorrect, PTL DEF Spec
=============================================================================
