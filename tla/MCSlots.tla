---- MODULE MCSlots ----
(* Small instances of Slots: what a provider may do to a list between two fetches. *)
EXTENDS Slots

CONSTANTS a, b, c
P(server, name) == [server |-> server, name |-> name, valid |-> TRUE]
Broken(server, name) == [server |-> server, name |-> name, valid |-> FALSE]

Servers == {a, b, c}
Names == {"x", "y"}
(* two nodes; their names exchanged; one gone and another come; one left;
   one that parses and does not validate; no answer *)
Lists == {<<P(a, "x"), P(b, "y")>>, <<P(b, "x"), P(a, "y")>>, <<P(b, "y"), P(c, "y")>>,
          <<P(c, "x")>>, <<Broken(c, "x")>>, <<>>}
OneLink == {P(a, "y")}
Selectors == {"second", "y"}
Shared == SetupFrom(Empty, <<P(a, "x"), P(b, "y")>>, TRUE, 1, 2)
(* nothing yet; two shared slots; the backup with a source of its own *)
Starts == {Empty, Shared,
           SetSource(Shared, "backup", [NoSource EXCEPT !.pick = "second"], P(b, "y"))}
====
