--------------------------- MODULE MCProxy0Health ---------------------------
(* A small instance of Proxy0Health: two interfaces and one reconcile pass at a time. *)
EXTENDS Proxy0Health

CONSTANTS p0, p1, loop

MCIface == {p0, p1}
MCReconciler == {loop}

(* Managed by the daemon from a bare router; set up by hand; by hand on an old firmware. *)
Site(e, u, t) == [enabled |-> e, off |-> FALSE, used |-> u, tls |-> t]
MCSites == {Site(TRUE, FALSE, TRUE), Site(FALSE, TRUE, TRUE), Site(FALSE, TRUE, FALSE)}
=============================================================================
