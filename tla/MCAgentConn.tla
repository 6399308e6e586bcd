---------------------------- MODULE MCAgentConn ----------------------------
(***************************************************************************)
(* Instances of AgentConn.  Capacities of one or two stand for 64 messages *)
(* and 100 events: a full channel, a full ring and a batch that does not   *)
(* take everything all occur.                                              *)
(***************************************************************************)
EXTENDS AgentConn, TLC

Symmetry == Permutations(SessionId) \cup Permutations(Routine)
=============================================================================
