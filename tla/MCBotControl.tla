----------------------------- MODULE MCBotControl -----------------------------
(* Small instances of BotControl for TLC. *)
EXTENDS BotControl, TLC

CONSTANTS c1, c2, k1, k2

TwoCommands == {c1, c2}
TwoConns == {k1, k2}
LongResult == {c2}
Symmetric == Permutations(TwoConns)
=============================================================================
