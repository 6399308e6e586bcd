------------------------ MODULE MCDiagnoseScheduler ------------------------
(***************************************************************************)
(* Instances of DiagnoseScheduler for TLC.  Requests, keys and sessions    *)
(* are interchangeable; the runs without a liveness property use that.     *)
(***************************************************************************)
EXTENDS DiagnoseScheduler, TLC

Symmetry == Permutations(Req) \cup Permutations(Key) \cup Permutations(Session)
=============================================================================
