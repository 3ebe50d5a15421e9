----------------------------- MODULE MCSession -----------------------------
(***************************************************************************)
(* Small sessions for TLC.  The prompts are model values given by each     *)
(* configuration; the definitions below relate them.                       *)
(***************************************************************************)
EXTENDS SessionLedger

CONSTANTS SourceTask  \* the background task every notice comes from

(* Every client prompt is submitted, and owned, by a client of its own.     *)
MCOwners   == Client
MCOwnerOf  == [c \in Client |-> c]
MCSourceOf == [n \in Notice |-> SourceTask]
(* Every order a client may ask for: of all its rows, or of one only.       *)
MCOrders   == {s \in UNION {[1..n -> Client] : n \in {1, Cardinality(Client)}} :
                 IsInjective(s)}
(* The client prompts are interchangeable when no order names them.         *)
MCSymmetry == Permutations(Client)
=============================================================================
