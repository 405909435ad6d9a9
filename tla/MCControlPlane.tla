--------------------------- MODULE MCControlPlane ---------------------------
(* One handler, one source, and an upstream with an item of two versions.   *)
EXTENDS ControlPlane

CONSTANTS b, k1

Ev(item, version) == [id |-> <<item, version>>, subject |-> item, key |-> k1]

\* Two versions of one item.
OneItem == {Ev(b, 1), Ev(b, 2)}
=============================================================================
