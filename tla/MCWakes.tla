------------------------------ MODULE MCWakes ------------------------------
(***************************************************************************)
(* A small session with background tasks for TLC.                          *)
(***************************************************************************)
EXTENDS WakeDelivery

CONSTANTS SourceTask  \* the background task every notice comes from

(* Every client prompt is submitted, and owned, by a client of its own.     *)
MCOwners   == Client
MCOwnerOf  == [c \in Client |-> c]
MCSourceOf == [n \in Notice |-> SourceTask]
=============================================================================
