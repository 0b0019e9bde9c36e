-------------------------------- MODULE MCMenus --------------------------------
(* Small instances of Menus. *)
EXTENDS Menus

AllKinds == {"routes", "presets", "redirected", "excluded", "dns"}
ListKinds == {"routes"}

(* Rows that may go away, change places or be joined by others. *)
Rows == [k \in Kind |-> CASE k = "excluded" -> {<<>>, <<"a", "b">>}
                          [] k = "redirected" -> {<<"a", "b">>, <<"b">>}
                          [] k = "routes" -> {<<"a", "b">>, <<"b", "a">>}
                          [] OTHER -> {<<"a">>, <<"b">>}]
(* One router's route lists, its other plain lists, or the lists that share a snapshot, of
   one router and of another. *)
Visit(l, n) == [lists |-> l, asides |-> n]
RouteVisits == {Visit({<<"routes", "r1">>}, 2)}
SomeVisits ==
    RouteVisits \cup {Visit({<<"presets", "r1">>, <<"dns", "r1">>}, 1),
                     Visit({<<"redirected", "r1">>, <<"excluded", "r1">>, <<"excluded", "r2">>}, 0)}
SomeDrifts == (Kind \cap {"routes", "redirected"}) \X {"r1"}
FirstRows == [k \in Kind |-> IF k \in {"presets", "dns"} THEN <<"a">> ELSE <<"a", "b">>]
=============================================================================
