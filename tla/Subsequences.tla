---------------------------- MODULE Subsequences ----------------------------
(***************************************************************************)
(* The subsequence of s at the indices I, which is what every loop of the  *)
(* form "take the list, push the items to keep" builds: its j-th element   *)
(* is the one whose index has rank j in I.  Keep selects by element.       *)
(*                                                                         *)
(* SelectSeq computes the same by recursion; nothing here is recursive, so *)
(* that what is kept, and in which order, can be proved (SubsequenceFacts) *)
(* as well as checked (MCPromptQueue).                                     *)
(***************************************************************************)
EXTENDS Naturals, Sequences, FiniteSets

Rank(I, i)   == Cardinality({k \in I : k <= i})
At(s, I)     == [j \in 1..Cardinality(I) |-> s[CHOOSE i \in I : Rank(I, i) = j]]
KeptAt(s, K) == {i \in DOMAIN s : s[i] \in K}
Keep(s, K)   == At(s, KeptAt(s, K))
=============================================================================
