-------------------------- MODULE CircuitBreaker --------------------------
(***************************************************************************)
(* The circuit breaker shared by the clones of a storage client            *)
(* (cf-circuit-breaker), under callers on several threads.                 *)
(*                                                                         *)
(* A caller checks the breaker, sends its request, and records how it went *)
(* -- or records nothing: its future is dropped, or the answer is one the  *)
(* client does not count.  Breaker state is a handful of atomics and a     *)
(* mutex; an action is one atomic operation, or one critical section, of   *)
(* one caller.  A reading of the clock is taken together with the atomic   *)
(* operation next to it.                                                   *)
(*                                                                         *)
(* Time is kept as ages in ticks.  An age stops growing where no           *)
(* comparison of the code can tell it from a greater one, which keeps the  *)
(* clock unbounded; Stall bounds the ticks that pass between two steps of  *)
(* one try_half_open_probe.  The samples of the window have no age: an     *)
(* eviction drops some prefix.                                             *)
(*                                                                         *)
(* ProbesRezeroed, TakeoverUnchecked, CloseUnmirrored, PushForgetful and   *)
(* LeaseEternal are faulty variants of the definitions that follow them;   *)
(* nothing uses them.                                                      *)
(***************************************************************************)
EXTENDS Integers, Sequences, FiniteSets

CONSTANTS
  Callers,        \* threads with a clone of the breaker
  MaxProbes,      \* half_open_max_probes, clamped to at least 1
  Modulus,        \* 2^width of the AtomicUsize half_open_probes
  OpenDuration,   \* open_duration: the cool-down and the lease of a probe
  Stall,          \* ticks a caller may lose inside try_half_open_probe
  MinSamples,     \* min_samples
  Percent,        \* error_rate_threshold, in percent
  WindowCap       \* MAX_WINDOW_ENTRIES (10 000)

ASSUME CallersAssumption == IsFiniteSet(Callers)
ASSUME ProbesAssumption  == MaxProbes \in Nat \ {0}
ASSUME ModulusAssumption ==
  Modulus \in Nat /\ Modulus > 2 * (MaxProbes + 2 * Cardinality(Callers))
ASSUME TimeAssumption ==
  Stall \in Nat /\ OpenDuration \in Nat /\ OpenDuration > 2 * Stall
ASSUME WindowAssumption ==
  MinSamples \in Nat /\ Percent \in Nat /\ WindowCap \in Nat \ {0}

VARIABLES
  pc,             \* where each caller is; "idle" outside the breaker
  failed,         \* whether the outcome a caller records is a failure
  stamp,          \* age of the clock reading of try_half_open_probe
  seen,           \* age of the claim a caller compares against
  state,          \* BreakerState
  openedAge,      \* age of opened_at_millis
  probes,         \* half_open_probes
  claimedAge,     \* age of probe_claimed_at_millis
  fast,           \* is_open_fast
  window,         \* SlidingWindow: which samples failed, and the count
  slots,          \* history: slots granted since probes was last zeroed
  crossed,        \* history: losers whose fetch_add that zeroing undid
  sinceTakeover,  \* history: age of the last takeover of a lease
  raced,          \* history: the last store to state overlapped another
  granted,        \* history: slots granted since the last store to state
  rezeroed        \* history: probes has been zeroed since that store

callerVars == <<failed, stamp, seen>>
probeVars  == <<probes, slots, crossed>>
leaseVars  == <<claimedAge, sinceTakeover>>
stateVars  == <<state, raced, granted, rezeroed>>
vars == <<pc, callerVars, stateVars, openedAge, probeVars, leaseVars, fast, window>>

Checking == {"open", "swap", "reread", "unmirror", "probe", "admit", "unclaim",
             "lease", "takeover"}
Tripping == {"opening", "openTime", "openZero", "openMirror"}
Closing  == {"closing", "clearing", "closeZero", "closeMirror"}
Steps    == {"idle", "calling", "sample", "log"} \cup Checking \cup Tripping \cup Closing

(* Callers that hold a clock reading of try_half_open_probe.                *)
Timed == {"admit", "unclaim", "lease", "takeover"}
(* Callers between their store to state and their store to the mirror.     *)
Unsettled == {"unmirror", "openTime", "openZero", "openMirror",
              "clearing", "closeZero", "closeMirror"}

Horizon == OpenDuration + Stall
Older(age, bound) == IF age < bound THEN age + 1 ELSE bound

At(steps) == {c \in Callers : pc[c] \in steps}

TypeOK ==
  /\ pc \in [Callers -> Steps]
  /\ failed \in [Callers -> BOOLEAN]
  /\ stamp \in [Callers -> 0..Stall]
  /\ seen \in [Callers -> 0..Horizon]
  /\ state \in {"Closed", "Open", "HalfOpen"}
  /\ openedAge \in 0..OpenDuration
  /\ probes \in 0..(Modulus - 1)
  /\ claimedAge \in 0..Horizon
  /\ fast \in BOOLEAN
  /\ window \in [fails : Seq(BOOLEAN), failures : Int]
  /\ slots \in Nat /\ crossed \in Nat
  /\ sinceTakeover \in 0..OpenDuration
  /\ raced \in BOOLEAN
  /\ granted \in Nat /\ rezeroed \in BOOLEAN

Init ==
  /\ pc = [c \in Callers |-> "idle"]
  /\ failed = [c \in Callers |-> FALSE]
  /\ stamp = [c \in Callers |-> 0]
  /\ seen = [c \in Callers |-> 0]
  /\ state = "Closed" /\ openedAge = 0
  /\ probes = 0 /\ claimedAge = 0
  /\ fast = FALSE
  /\ window = [fails |-> <<>>, failures |-> 0]
  /\ slots = 0 /\ crossed = 0
  /\ sinceTakeover = OpenDuration
  /\ raced = FALSE
  /\ granted = 0 /\ rezeroed = FALSE

-----------------------------------------------------------------------------
(* The sliding window (window.rs), always used under its mutex.             *)

Failures(fails) == Cardinality({i \in 1..Len(fails) : fails[i]})
Bit(failure) == IF failure THEN 1 ELSE 0

(* Faulty: the entry that makes room is popped without being uncounted.     *)
PushForgetful(w, failure) ==
  LET full == Len(w.fails) >= WindowCap
  IN  [fails    |-> Append(IF full THEN Tail(w.fails) ELSE w.fails, failure),
       failures |-> w.failures + Bit(failure)]

(* A full window drops its oldest sample first.                             *)
Push(w, failure) ==
  LET full == Len(w.fails) >= WindowCap
  IN  [fails    |-> Append(IF full THEN Tail(w.fails) ELSE w.fails, failure),
       failures |-> w.failures + Bit(failure) -
                      (IF full THEN Bit(Head(w.fails)) ELSE 0)]

(* Pops the k oldest samples, uncounting those that failed.                 *)
Evict(w, k) ==
  [fails    |-> SubSeq(w.fails, k + 1, Len(w.fails)),
   failures |-> w.failures - Failures(SubSeq(w.fails, 1, k))]

ShouldTrip(w) ==
  /\ Len(w.fails) >= MinSamples /\ Len(w.fails) > 0
  /\ 100 * w.failures >= Percent * Len(w.fails)

-----------------------------------------------------------------------------
(* Stores shared by several operations.                                     *)

Goto(c, from, to) == pc[c] = from /\ pc' = [pc EXCEPT ![c] = to]

(* A caller leaves try_half_open_probe: its locals go out of scope.          *)
Forget(c) ==
  /\ stamp' = [stamp EXCEPT ![c] = 0] /\ seen' = [seen EXCEPT ![c] = 0]
  /\ UNCHANGED failed

SetState(c, s) ==
  /\ state' = s
  /\ raced' = (At(Unsettled) \ {c} # {})
  /\ granted' = 0 /\ rezeroed' = FALSE

ZeroProbes ==
  /\ probes' = 0 /\ slots' = 0
  /\ crossed' = Cardinality(At({"unclaim"}))

-----------------------------------------------------------------------------
(* check, check_open                                                        *)

Check(c) ==
  /\ Goto(c, "idle", CASE state = "Closed"   -> "calling"
                       [] state = "Open"     -> "open"
                       [] state = "HalfOpen" -> "probe")
  /\ UNCHANGED <<callerVars, stateVars, openedAge, probeVars, leaseVars, fast, window>>

ReadOpened(c) ==
  /\ Goto(c, "open", IF openedAge >= OpenDuration THEN "swap" ELSE "idle")
  /\ UNCHANGED <<callerVars, stateVars, openedAge, probeVars, leaseVars, fast, window>>

(* cas_state(Open, HalfOpen)                                                *)
Swap(c) ==
  /\ \/ /\ state = "Open"
        /\ Goto(c, "swap", "unmirror") /\ SetState(c, "HalfOpen")
     \/ /\ state # "Open"
        /\ Goto(c, "swap", "reread") /\ UNCHANGED stateVars
  /\ UNCHANGED <<callerVars, openedAge, probeVars, leaseVars, fast, window>>

Reread(c) ==
  /\ Goto(c, "reread", CASE state = "Closed"   -> "calling"
                         [] state = "Open"     -> "idle"
                         [] state = "HalfOpen" -> "probe")
  /\ UNCHANGED <<callerVars, stateVars, openedAge, probeVars, leaseVars, fast, window>>

(* Faulty: the winner of the swap clears the probe slots it publishes.       *)
ProbesRezeroed(c) ==
  /\ Goto(c, "unmirror", "probe") /\ fast' = FALSE /\ probes' = 0
  /\ UNCHANGED <<callerVars, stateVars, openedAge, slots, crossed, leaseVars, window>>

Unmirror(c) ==
  /\ Goto(c, "unmirror", "probe") /\ fast' = FALSE
  /\ UNCHANGED <<callerVars, stateVars, openedAge, probeVars, leaseVars, window>>

-----------------------------------------------------------------------------
(* try_half_open_probe                                                      *)

Claim(c) ==
  /\ probes' = (probes + 1) % Modulus
  /\ \/ /\ probes < MaxProbes
        /\ Goto(c, "probe", "admit") /\ slots' = slots + 1 /\ granted' = granted + 1
     \/ /\ probes >= MaxProbes
        /\ Goto(c, "probe", "unclaim") /\ UNCHANGED <<slots, granted>>
  /\ UNCHANGED <<callerVars, state, raced, rezeroed, openedAge, crossed, leaseVars,
                 fast, window>>

Admit(c) ==
  /\ Goto(c, "admit", "calling") /\ Forget(c)
  /\ claimedAge' = stamp[c]
  /\ UNCHANGED <<stateVars, openedAge, probeVars, sinceTakeover, fast, window>>

Unclaim(c) ==
  /\ Goto(c, "unclaim", "lease")
  /\ probes' = (probes - 1) % Modulus
  /\ UNCHANGED <<callerVars, stateVars, openedAge, slots, crossed, leaseVars, fast, window>>

(* Faulty: a claim is held until its owner records.                          *)
LeaseEternal(c) ==
  /\ Goto(c, "lease", "idle") /\ Forget(c)
  /\ UNCHANGED <<stateVars, openedAge, probeVars, leaseVars, fast, window>>

(* A claim older than open_duration, by the caller's clock, is abandoned.     *)
ReadLease(c) ==
  /\ \/ /\ claimedAge - stamp[c] >= OpenDuration
        /\ Goto(c, "lease", "takeover")
        /\ seen' = [seen EXCEPT ![c] = claimedAge] /\ UNCHANGED <<failed, stamp>>
     \/ /\ claimedAge - stamp[c] < OpenDuration
        /\ Goto(c, "lease", "idle") /\ Forget(c)
  /\ UNCHANGED <<stateVars, openedAge, probeVars, leaseVars, fast, window>>

(* Faulty: the claim is overwritten, not exchanged.                          *)
TakeoverUnchecked(c) ==
  /\ Goto(c, "takeover", "calling") /\ claimedAge' = stamp[c] /\ sinceTakeover' = 0
  /\ Forget(c)
  /\ UNCHANGED <<stateVars, openedAge, probeVars, fast, window>>

(* compare_exchange of the claim the caller saw                              *)
Takeover(c) ==
  /\ \/ /\ claimedAge = seen[c] /\ Goto(c, "takeover", "calling")
        /\ claimedAge' = stamp[c] /\ sinceTakeover' = 0
     \/ /\ claimedAge # seen[c] /\ Goto(c, "takeover", "idle")
        /\ UNCHANGED leaseVars
  /\ Forget(c)
  /\ UNCHANGED <<stateVars, openedAge, probeVars, fast, window>>

-----------------------------------------------------------------------------
(* record, trip, close                                                      *)

(* The request ends without record(): dropped, or an answer not counted.     *)
Abandon(c) ==
  /\ Goto(c, "calling", "idle")
  /\ UNCHANGED <<callerVars, stateVars, openedAge, probeVars, leaseVars, fast, window>>

(* The request is answered and record() reads the state.                     *)
Record(c, failure) ==
  /\ Goto(c, "calling", CASE state = "Closed"   -> "sample"
                          [] state = "Open"     -> "log"
                          [] state = "HalfOpen" -> IF failure THEN "opening" ELSE "closing")
  /\ failed' = [failed EXCEPT ![c] = failure /\ state # "HalfOpen"]
  /\ UNCHANGED <<stamp, seen, stateVars, openedAge, probeVars, leaseVars, fast, window>>

(* The critical section of record(); only a Closed breaker may trip.          *)
Sample(c) ==
  LET pushed == Push(window, failed[c])
  IN /\ \E k \in 0..Len(pushed.fails) :
          /\ window' = Evict(pushed, k)
          /\ \/ Goto(c, "sample", IF ShouldTrip(window') THEN "opening" ELSE "idle")
             \/ Goto(c, "log", "idle")
     /\ failed' = [failed EXCEPT ![c] = FALSE]
     /\ UNCHANGED <<stamp, seen, stateVars, openedAge, probeVars, leaseVars, fast>>

TripState(c) ==
  /\ Goto(c, "opening", "openTime") /\ SetState(c, "Open")
  /\ UNCHANGED <<callerVars, openedAge, probeVars, leaseVars, fast, window>>

TripTime(c) ==
  /\ Goto(c, "openTime", "openZero") /\ openedAge' = 0
  /\ UNCHANGED <<callerVars, stateVars, probeVars, leaseVars, fast, window>>

TripMirror(c) ==
  /\ Goto(c, "openMirror", "idle") /\ fast' = TRUE
  /\ UNCHANGED <<callerVars, stateVars, openedAge, probeVars, leaseVars, window>>

CloseState(c) ==
  /\ Goto(c, "closing", "clearing") /\ SetState(c, "Closed")
  /\ UNCHANGED <<callerVars, openedAge, probeVars, leaseVars, fast, window>>

CloseClear(c) ==
  /\ Goto(c, "clearing", "closeZero")
  /\ window' = [fails |-> <<>>, failures |-> 0]
  /\ UNCHANGED <<callerVars, stateVars, openedAge, probeVars, leaseVars, fast>>

(* Faulty: a closing breaker leaves the mirror as it is.                      *)
CloseUnmirrored(c) ==
  /\ Goto(c, "closeMirror", "idle")
  /\ UNCHANGED <<callerVars, stateVars, openedAge, probeVars, leaseVars, fast, window>>

CloseMirror(c) ==
  /\ Goto(c, "closeMirror", "idle") /\ fast' = FALSE
  /\ UNCHANGED <<callerVars, stateVars, openedAge, probeVars, leaseVars, window>>

Zero(c) ==
  /\ Goto(c, "openZero", "openMirror") \/ Goto(c, "closeZero", "closeMirror")
  /\ ZeroProbes /\ rezeroed' = TRUE
  /\ UNCHANGED <<callerVars, state, raced, granted, openedAge, leaseVars, fast, window>>

-----------------------------------------------------------------------------
(* error_rate(): a reader evicts what has aged.                              *)
ErrorRate ==
  /\ \E k \in 1..Len(window.fails) : window' = Evict(window, k)
  /\ UNCHANGED <<pc, callerVars, stateVars, openedAge, probeVars, leaseVars, fast>>

(* The clock.                                                               *)
Tick ==
  /\ \A c \in At(Timed) : stamp[c] < Stall
  /\ openedAge' = Older(openedAge, OpenDuration)
  /\ claimedAge' = Older(claimedAge, Horizon)
  /\ sinceTakeover' = Older(sinceTakeover, OpenDuration)
  /\ stamp' = [c \in Callers |-> IF pc[c] \in Timed THEN stamp[c] + 1 ELSE 0]
  /\ seen' = [c \in Callers |-> IF pc[c] = "takeover" THEN Older(seen[c], Horizon) ELSE 0]
  /\ UNCHANGED <<pc, failed, stateVars, probeVars, fast, window>>

(* What a caller does on its own once it is inside the breaker.               *)
Advance(c) ==
  \/ ReadOpened(c) \/ Swap(c) \/ Reread(c) \/ Unmirror(c)
  \/ Claim(c) \/ Admit(c) \/ Unclaim(c) \/ ReadLease(c) \/ Takeover(c)
  \/ Sample(c) \/ TripState(c) \/ TripTime(c) \/ TripMirror(c)
  \/ CloseState(c) \/ CloseClear(c) \/ CloseMirror(c) \/ Zero(c)

Ask(c) == Check(c) \/ Abandon(c) \/ \E failure \in BOOLEAN : Record(c, failure)

Next == Tick \/ ErrorRate \/ \E c \in Callers : Ask(c) \/ Advance(c)

Spec == Init /\ [][Next]_vars

(* Threads run, time passes, and callers keep coming; no request need ever   *)
(* be recorded.                                                              *)
FairSpec ==
  /\ Spec
  /\ SF_vars(Tick)
  /\ \A c \in Callers : WF_vars(Advance(c)) /\ WF_vars(Ask(c))

-----------------------------------------------------------------------------
(* The incremental failure count is the number of failures in the window,    *)
(* which never outgrows its cap: an eviction cannot underflow the count.      *)
WindowCounts ==
  Len(window.fails) <= WindowCap /\ window.failures = Failures(window.fails)

(* half_open_probes counts the slots granted since it was zeroed and the     *)
(* losers about to give theirs back, less the losers a zeroing overtook.     *)
(* So a HalfOpen grants at most half_open_max_probes slots, and one more for *)
(* each loser overtaken -- as long as no late zeroing, of the trip or the    *)
(* close that came before it, lands inside it.                               *)
SlotsAccounted ==
  /\ probes = (slots + Cardinality(At({"unclaim"})) - crossed) % Modulus
  /\ slots <= MaxProbes + crossed
  /\ ~rezeroed => granted <= MaxProbes + crossed

(* What breaker.rs:211 takes for granted: half_open_probes is zero when      *)
(* HalfOpen is entered and nobody zeroes it then, so that one HalfOpen never *)
(* admits two probes instead of one, overtaken losers apart.  The zeroing of *)
(* a trip comes after its store to state, and may land inside the HalfOpen   *)
(* another caller has entered on the old opened_at.                          *)
HalfOpenBounded == state = "HalfOpen" => granted <= MaxProbes + crossed

(* An expired lease is taken over once: two takeovers are a cool-down apart, *)
(* but for the ticks a caller may lose between its clock and its store.       *)
TakeoversApart ==
  [][\A c \in Callers :
       pc[c] = "takeover" /\ pc'[c] = "calling" => sinceTakeover >= OpenDuration - Stall]_vars

(* When no store to state is half done, and the last one met no other, the   *)
(* mirror read by is_open() tells whether the breaker is open.                *)
MirrorSettles ==
  At(Unsettled) = {} /\ ~raced => fast = (state = "Open")

(* The breaker never sheds for ever: whatever probes are lost, some request  *)
(* goes through again and again.                                             *)
Recovers == []<>(\E c \in Callers : pc[c] = "calling")
=============================================================================
