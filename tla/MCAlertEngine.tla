---------------------------- MODULE MCAlertEngine ----------------------------
(***************************************************************************)
(* Instances of AlertEngine.  The configurations switch each gate on and   *)
(* off; time is long enough for for_duration and two repeat intervals.     *)
(***************************************************************************)
EXTENDS AlertEngine, TLC

Config(for, interval, number, noRecovery) ==
    [for |-> for, interval |-> interval, number |-> number, noRecovery |-> noRecovery]

Configs == {Config(0, 0, 2, FALSE), Config(2, 0, 1, FALSE), Config(0, 2, 0, TRUE),
            Config(2, 2, 2, FALSE)}

Symmetry == Permutations(Key) \cup Permutations(Notifier)
=============================================================================
