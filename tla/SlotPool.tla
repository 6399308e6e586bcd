------------------------------ MODULE SlotPool ------------------------------
(***************************************************************************)
(* What the concurrency limiter of the diagnose engine promises: at most   *)
(* Capacity clients (local diagnoses and remote sessions) hold a slot, a   *)
(* client holds at most one, and only a holder gives one back.             *)
(*                                                                         *)
(* The engine keeps a counter, the fill of a buffered channel (sem in      *)
(* diagnose/engine.go).  DiagnoseScheduler implements this specification   *)
(* with the set of clients which, by their position in the code, own one   *)
(* of the channel's elements.                                              *)
(***************************************************************************)
EXTENDS Naturals, FiniteSets

CONSTANTS Client, Capacity

VARIABLE holders

Init == holders = {}

Acquire(c) ==
    /\ c \in Client \ holders
    /\ Cardinality(holders) < Capacity
    /\ holders' = holders \cup {c}

Release(c) ==
    /\ c \in holders
    /\ holders' = holders \ {c}

Next == \E c \in Client : Acquire(c) \/ Release(c)

Spec == Init /\ [][Next]_holders
=============================================================================
