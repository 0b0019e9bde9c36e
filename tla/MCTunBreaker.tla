---------------------------- MODULE MCTunBreaker ----------------------------
(* Small instances of TunBreaker for TLC. *)
EXTENDS TunBreaker

CONSTANTS l1, l2

Loops == {l1, l2}
Contents == {"with", "without", "torn"}
=============================================================================
