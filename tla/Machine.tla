------------------------------ MODULE Machine ------------------------------
(***************************************************************************)
(* What the two CPUs of the program share: bytes, words, addresses that    *)
(* wrap around, and memory read and written a word at a time at any        *)
(* address, AMemoryDevice::readWord and writeWord.  Memory is RAM here; the *)
(* input port is the subject of MemoryIO.                                  *)
(*                                                                         *)
(* An instruction is its mnemonic, the register it names and its           *)
(* addressing mode; Decode is the decoder table.                           *)
(***************************************************************************)
EXTENDS Alu

CONSTANT Decode   \* the instruction of each specifier

Addresses == ByteValues * ByteValues
Word == 0..Addresses - 1

Unary == {"STOP", "MOVSPA", "MOVFLGA", "MOVAFLG", "RET", "RETTR"}
UnaryTraps == {"NOP1"}
NonunaryTraps == {"NOP", "DECI", "DECO", "HEXO", "STRO"}
Traps == UnaryTraps \cup NonunaryTraps
Stores == {"STW", "STB"}
Conditionals == {"BRLE", "BRLT", "BREQ", "BRNE", "BRGE", "BRGT", "BRV", "BRC"}
Nonunary ==
    {"BR", "CALL", "ADDSP", "SUBSP", "LDW", "LDB"} \cup Stores \cup Conditionals
Mode == {"i", "d", "n", "s", "sf", "x", "sx", "sfx"}
Instruction ==
    [op : Unary \cup Traps \cup Nonunary, reg : {"A", "X"}, mode : Mode]

\* The assembler accepts no store with an immediate operand.  A byte holds the
\* four status bits.
ASSUME MachineAssumption ==
    /\ ByteValues > 15
    /\ Decode \in [Byte -> Instruction]
    /\ \A b \in Byte : Decode[b].op \in Stores => Decode[b].mode # "i"

Odd(n) == n % 2 = 1

\* Sums and differences of words drop what does not fit.
Plus(n, k) == IF n + k < Addresses THEN n + k ELSE n + k - Addresses
Minus(n, k) == IF n >= k THEN n - k ELSE n - k + Addresses

Hi(w) == w \div ByteValues
Lo(w) == w % ByteValues
Join(hi, lo) == hi * ByteValues + lo

\* The status bits, and the byte that holds them.  S is left out: it is scratch
\* of the microprogram, and no instruction of either CPU depends on it.
Status == [n : BOOLEAN, z : BOOLEAN, v : BOOLEAN, c : BOOLEAN]

StatusByte(s) == 8 * Bit(s.n) + 4 * Bit(s.z) + 2 * Bit(s.v) + Bit(s.c)

StatusOf(b) == [n |-> Odd(b \div 8), z |-> Odd(b \div 4), v |-> Odd(b \div 2), c |-> Odd(b)]

WordAt(m, n) == Join(m[n], m[Plus(n, 1)])
Stored(m, n, w) == [m EXCEPT ![n] = Hi(w), ![Plus(n, 1)] = Lo(w)]

=============================================================================
