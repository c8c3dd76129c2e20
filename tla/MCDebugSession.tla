--------------------------- MODULE MCDebugSession ---------------------------
(* A small instance of DebugSession: up to two handlers on the stack, and    *)
(* call depths from one below to one above the starting one.                 *)
EXTENDS DebugSession

MCMinDepth == -1

=============================================================================
