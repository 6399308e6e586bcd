---------------------------- MODULE MCStateStore ----------------------------
(***************************************************************************)
(* Instances of StateStore: two savers, who may be at it at the same time. *)
(***************************************************************************)
EXTENDS StateStore, TLC

Symmetry == Permutations(Saver) \cup Permutations(Inode)
=============================================================================
