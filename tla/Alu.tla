-------------------------------- MODULE Alu --------------------------------
(***************************************************************************)
(* The ALU of the microcoded CPU, CPUDataSection::calculateALUOutput, and  *)
(* the adder that it shares with the instruction set simulator.            *)
(*                                                                         *)
(* A byte is a number below ByteValues, which is 256 in the program.  The  *)
(* functions that combine two operands bit by bit (and, or, xor and their  *)
(* negations) are left out: no bit of theirs depends on another.           *)
(***************************************************************************)
EXTENDS Integers

CONSTANT ByteValues   \* how many values a byte has

ASSUME ByteAssumption ==
    /\ ByteValues \in Nat \ {0}
    /\ ByteValues % 2 = 0

Byte == 0..ByteValues - 1

\* The high order bit of a number below m.
High(n, m) == 2 * n >= m

Bit(b) == IF b THEN 1 ELSE 0

\* "Carry out if result is unsigned less than a or b."
CarryOut(res, a, b) == res < a \/ res < b

\* "There is a signed overflow iff the high order bits of the input are the
\* same, and the inputs & output differ in sign."
Overflow(res, a, b, m) == High(a, m) = High(b, m) /\ High(a, m) # High(res, m)

\* Addition modulo m and its flags.
Sum(a, b, cin, m) ==
    LET res == (a + b + cin) % m
    IN  [res |-> res, n |-> High(res, m), z |-> res = 0,
         v |-> Overflow(res, a, b, m), c |-> CarryOut(res, a, b)]

Not(n, m) == m - 1 - n

AluFunction == {"ApB", "ApBpCin", "ApnBp1", "ApnBpCin", "nA",
                "ASLA", "ROLA", "ASRA", "RORA"}

\* A result without carry and overflow.
Logical(res) == [res |-> res, n |-> High(res, ByteValues), z |-> res = 0,
                 v |-> FALSE, c |-> FALSE]

\* V is computed in nine bits and multiplied by its mask, so that the high
\* order bit of the operand lands on the mask of Z.
ShiftLeft(a, bit) ==
    LET out == Logical((2 * a + bit) % ByteValues)
    IN  [out EXCEPT !.c = High(a, ByteValues),
                    !.z = @ \/ High(a, ByteValues),
                    !.v = High(a, ByteValues) # High((2 * a) % ByteValues, ByteValues)]

ShiftRight(a, bit) ==
    [Logical(a \div 2 + bit * (ByteValues \div 2)) EXCEPT !.c = a % 2 = 1]

\* calculateALUOutput for inputs that are all present.
ALU(f, a, b, cin) ==
    CASE f = "ApB"      -> Sum(a, b, 0, ByteValues)
      [] f = "ApBpCin"  -> Sum(a, b, cin, ByteValues)
      [] f = "ApnBp1"   -> Sum(a, Not(b, ByteValues), 1, ByteValues)
      [] f = "ApnBpCin" -> Sum(a, Not(b, ByteValues), cin, ByteValues)
      [] f = "nA"       -> Logical(Not(a, ByteValues))
      [] f = "ASLA"     -> ShiftLeft(a, 0)
      [] f = "ROLA"     -> ShiftLeft(a, cin)
      [] f = "ASRA"     -> ShiftRight(a, Bit(High(a, ByteValues)))
      [] f = "RORA"     -> ShiftRight(a, cin)

=============================================================================
