---- MODULE MCRouterUpkeep ----
(* Small instances of RouterUpkeep: two passes, the timer's and the signal's, or one. *)
EXTENDS RouterUpkeep

CONSTANTS p1, p2
TwoPasses == {p1, p2}
OnePass == {p1}
BothOperators == {"cli", "bot"}
BotOnly == {"bot"}
Objects == {"redirect", "wg", "proxy0"}
RuleAndWG == {"redirect", "wg"}
====
