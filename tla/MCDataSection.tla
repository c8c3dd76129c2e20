--------------------------- MODULE MCDataSection ---------------------------
(* Bytes of two values, and registers with two addresses.                   *)
EXTENDS DataSection

CONSTANTS x, y

MCBuses == {<<x, x>>, <<y, x>>}

=============================================================================
