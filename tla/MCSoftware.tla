---- MODULE MCSoftware ----
(* A first version that works, and a second one of each kind. *)
EXTENDS Software, TLC

CONSTANTS t1, t2, p, q
With(h) == [v \in Version |-> IF v = 1 THEN "works" ELSE h]
Runnable == {With("works"), With("mute"), With("dies")}
Unrunnable == {With("norun")}
Procs == {p, q}
Alike == Permutations(Procs)
Tags == {t1, t2}
RunnableTags == {t1, Entware}
====
