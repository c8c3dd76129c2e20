---------------------------- MODULE MCArithmetic ----------------------------
(* A small instance of Arithmetic: bytes of three bits and words of six.     *)
EXTENDS Arithmetic

MCOp == Unary \cup Nonunary

=============================================================================
