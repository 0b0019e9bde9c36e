------------------------------ MODULE MCFailover ------------------------------
(* Small instances of Failover for TLC. *)
EXTENDS Failover

CONSTANTS a, b, c     \* three servers, b behind a naive sidecar

Base == [Profiles |-> <<a, b, c>>, primary |-> a, backup |-> b,
         FailuresRequired |-> 2, RecoverySuccessesRequired |-> 2,
         CooldownCycles |-> 1, RollbackBackoff |-> 2]

\* No cooldown and no patience, and the primary behind the sidecar.
Hasty == [Base EXCEPT !.primary = b, !.backup = c, !.FailuresRequired = 1,
                      !.RecoverySuccessesRequired = 1, !.CooldownCycles = 0,
                      !.RollbackBackoff = 0]
Single == [Base EXCEPT !.backup = None]
Empty == [Base EXCEPT !.Profiles = <<>>, !.primary = None, !.backup = None]

MCProfile == {a, b, c}
MCNaiveProfile == {b}
OneConfig == {Base}
AllConfigs == {Base, Hasty, Single, Empty}
=============================================================================
