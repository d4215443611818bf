---------------------------- MODULE MCLiveSocket ----------------------------
(* Two dashboards, so that one may be slow or gone while the other is served*)
EXTENDS LiveSocket

CONSTANTS d1, d2

MCClients == {d1, d2}
=============================================================================
