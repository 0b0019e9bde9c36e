--------------------------- MODULE MCAdaptiveRoute ---------------------------
(* Two addresses with traffic in one network, and a third that lies in the   *)
(* wider known range only.                                                   *)
EXTENDS AdaptiveRoute

MCProto == {"tcp", "udp"}
MCAddr == {"a1", "a2", "a3"}
MCRange == {"block", "far", "known"}
MCBlockOf == [a \in MCAddr |-> IF a = "a3" THEN "far" ELSE "block"]
MCKnown == [r \in MCRange |-> IF r = "far" THEN "far" ELSE "known"]
MCCovers == [r \in MCRange |-> CASE r = "block" -> {"a1", "a2"}
                                 [] r = "far" -> {"a3"}
                                 [] OTHER -> MCAddr]
\* The same address by both protocols, and two addresses of one network.
MCActive == {{<<"tcp", "a1">>, <<"udp", "a1">>}, {<<"tcp", "a1">>, <<"tcp", "a2">>}}

Ev(si, so, v) == [silent |-> si, soft |-> so, verdicts |-> v]
MCEvidence == {NoFlow, Ev(TRUE, "none", {"good", "failed"}),
               Ev(FALSE, "quiet", {"weak"}), Ev(FALSE, "talksThenQuiet", {"failed"})}
=============================================================================
