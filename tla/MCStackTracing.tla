--------------------------- MODULE MCStackTracing ---------------------------
(* A small instance of StackTracing.                                         *)
EXTENDS StackTracing

MCTagLists == {<<>>, <<1>>, <<2>>, <<1, 2>>}

=============================================================================
