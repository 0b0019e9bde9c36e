------------------------------ MODULE MCRoutes ------------------------------
(* A small instance of Routes: one ready-made list with its companion of addresses. *)
EXTENDS Routes

CONSTANTS yt, ytip, a, b, bad, proxy, wg

MCPreset == {yt, ytip}
MCEntry == {a, b, bad}
MCMalformed == {bad}
MCCompanion == yt :> ytip
MCEmbed == yt :> {a} @@ ytip :> {b}
MCRepo == << yt :> {a, b, bad} @@ ytip :> {b}, yt :> {b} @@ ytip :> None >>
MCTyped == {b}
MCIface == {proxy, wg}

Bound == [NoList EXCEPT !.there = TRUE, !.bound = TRUE, !.entries = {a}]

(* Pushes to the router without the daily loop, with the conntrack tool and without; the daily
   loop where there is no router, with an agent to tell and without. *)
MCSites ==
    {[ndmc |-> TRUE, auto |-> FALSE, agent |-> TRUE, conntrack |-> TRUE, lists |-> l] :
        l \in {NoLists, [NoLists EXCEPT ![yt] = Bound]}}
    \cup {[ndmc |-> TRUE, auto |-> FALSE, agent |-> TRUE, conntrack |-> FALSE, lists |-> [NoLists EXCEPT ![yt] = Bound]]}
    \cup {[ndmc |-> FALSE, auto |-> TRUE, agent |-> g, conntrack |-> FALSE, lists |-> [NoLists EXCEPT ![yt] = Bound]] :
            g \in BOOLEAN}
=============================================================================
