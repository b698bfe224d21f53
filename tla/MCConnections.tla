--------------------------- MODULE MCConnections ----------------------------
(***************************************************************************)
(* Model checking of Connections.                                          *)
(***************************************************************************)
EXTENDS Connections

(* Only node 2 may dial the bootstrap node anew while a link to it closes. *)
MCDoubled == {<<2, Bootstrap>>}

=============================================================================
