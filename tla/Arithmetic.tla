----------------------------- MODULE Arithmetic -----------------------------
(***************************************************************************)
(* The same instruction on the program's two CPUs: IsaCpu computes it on   *)
(* whole words, the microcoded CPU on the two bytes of a register, one     *)
(* line of pep9micro.pepmicro after the other, with the carry of the first *)
(* byte kept in the status bit S.                                          *)
(*                                                                         *)
(* A behaviour is one instruction, from any contents of the registers and  *)
(* the flags.  `start` is that state; the other variables are what the     *)
(* microprogram makes of it.                                               *)
(***************************************************************************)
EXTENDS Alu, FiniteSets

CONSTANTS
    Op,      \* the instructions, without the register they name
    Others   \* bound: values of the register that the instruction does not name

WordValues == ByteValues * ByteValues
Word == 0..WordValues - 1

Unary == {"NOT", "NEG", "ASL", "ASR", "ROL", "ROR"}
Nonunary == {"ADD", "SUB", "CPW"}

\* The shifts look at the two high order bits of a byte.
ASSUME ArithmeticAssumption ==
    /\ ByteValues % 4 = 0
    /\ Op \subseteq Unary \cup Nonunary
    /\ Others \subseteq Word

VARIABLES
    start,   \* the instruction, its operands and the flags before it
    hi, lo,  \* the bytes of the register
    flags,   \* the status bits N, Z, V and C
    s,       \* the status bit S
    line     \* the line of the microprogram; "done" when it goes to start

vars == <<start, hi, lo, flags, s, line>>

Flags == [n : BOOLEAN, z : BOOLEAN, v : BOOLEAN, c : BOOLEAN]
Line == {"first", "second", "cpw_n_fix", "done"}

TypeOk ==
    /\ start \in [op : Op, reg : {"A", "X"}, value : Word, other : Word,
                  operand : Word, flags : Flags]
    /\ hi \in Byte /\ lo \in Byte
    /\ flags \in Flags
    /\ s \in BOOLEAN
    /\ line \in Line

\* Flags an instruction must not touch are all set or all clear.
Init ==
    /\ start \in {i \in [op : Op, reg : {"A", "X"}, value : Word, other : Others,
                         operand : Word,
                         flags : {f \in Flags : f.n = f.z /\ f.z = f.v}] :
                     i.op \in Unary => i.operand = 0}
    /\ hi = start.value \div ByteValues
    /\ lo = start.value % ByteValues
    /\ flags = start.flags
    /\ s = FALSE
    /\ line = "first"

-----------------------------------------------------------------------------
(* The instruction set simulator.                                          *)

\* `~tempWord + 1`
Negated(n) == (Not(n, WordValues) + 1) % WordValues

NZ(f, res) == [f EXCEPT !.n = High(res, WordValues), !.z = res = 0]

AllFlags(sum) == [n |-> sum.n, z |-> sum.z, v |-> sum.v, c |-> sum.c]

\* ROLX shifts the accumulator instead of the index register.
RolSource(i) == IF i.reg = "X" THEN i.other ELSE i.value

\* CPWX compares the result with the accumulator instead of the index register.
CpwCarry(i, res) ==
    CarryOut(res, IF i.reg = "X" THEN i.other ELSE i.value, Negated(i.operand))

\* IsaCpu::executeUnary and executeNonunary: the register and the flags after
\* instruction i.  A subtraction adds the negated operand, and takes the flags
\* of that addition.
Executed(i) ==
    LET a == i.value
        f == i.flags
        Result(res, fl) == [value |-> res, flags |-> fl]
        left == (2 * a) % WordValues
        difference == Sum(a, Negated(i.operand), 0, WordValues)
        top == WordValues \div 2
    IN  CASE i.op = "NOT" -> Result(Not(a, WordValues), NZ(f, Not(a, WordValues)))
          [] i.op = "NEG" -> Result(Negated(a), [NZ(f, Negated(a)) EXCEPT !.v = Negated(a) = top])
          [] i.op = "ASL" ->
                Result(left, [NZ(f, left) EXCEPT !.v = High(a, WordValues) # High(left, WordValues),
                                                 !.c = High(a, WordValues)])
          [] i.op = "ASR" ->
                LET res == a \div 2 + Bit(High(a, WordValues)) * top
                IN  Result(res, [NZ(f, res) EXCEPT !.c = a % 2 = 1])
          [] i.op = "ROR" ->
                Result(a \div 2 + Bit(f.c) * top, [f EXCEPT !.c = a % 2 = 1])
          [] i.op = "ROL" ->
                Result((2 * RolSource(i) + Bit(f.c)) % WordValues,
                       [f EXCEPT !.c = High(a, WordValues)])
          [] i.op = "ADD" ->
                LET sum == Sum(a, i.operand, 0, WordValues)
                IN  Result(sum.res, AllFlags(sum))
          [] i.op = "SUB" -> Result(difference.res, AllFlags(difference))
          [] i.op = "CPW" ->
                Result(a, [AllFlags(difference) EXCEPT
                               !.n = difference.n # difference.v,
                               !.c = CpwCarry(i, difference.res)])

-----------------------------------------------------------------------------
(* The microprogram.                                                       *)

MicroLine(half, f, carry, andZ, clocks) ==
    [half |-> half, f |-> f, carry |-> carry, andZ |-> andZ, clocks |-> clocks]

\* Mutant: the high byte takes its carry from C.
SecondByteTakesC(f, clocks) == MicroLine("hi", f, "C", TRUE, clocks)

\* The line for the high byte of a sum or a left shift.
HighByte(f, clocks) == MicroLine("hi", f, "S", TRUE, clocks)

\* The two lines of each instruction.  NEG subtracts the register from 0.
Microprogram(op) ==
    CASE op = "NOT" -> <<MicroLine("lo", "nA", "S", FALSE, {"Z"}), HighByte("nA", {"N", "Z"})>>
      [] op = "NEG" -> <<MicroLine("lo", "ApnBp1", "S", FALSE, {"Z", "S"}),
                         HighByte("ApnBpCin", {"N", "Z", "V"})>>
      [] op = "ASL" -> <<MicroLine("lo", "ASLA", "S", FALSE, {"Z", "S"}),
                         HighByte("ROLA", {"N", "Z", "V", "C"})>>
      [] op = "ASR" -> <<MicroLine("hi", "ASRA", "S", FALSE, {"N", "Z", "S"}),
                         MicroLine("lo", "RORA", "S", TRUE, {"Z", "C"})>>
      [] op = "ROL" -> <<MicroLine("lo", "ROLA", "C", FALSE, {"S"}), HighByte("ROLA", {"C"})>>
      [] op = "ROR" -> <<MicroLine("hi", "RORA", "C", FALSE, {"S"}),
                         MicroLine("lo", "RORA", "S", FALSE, {"C"})>>
      [] op = "ADD" -> <<MicroLine("lo", "ApB", "S", FALSE, {"Z", "S"}),
                         HighByte("ApBpCin", {"N", "Z", "V", "C"})>>
      [] op \in {"SUB", "CPW"} -> <<MicroLine("lo", "ApnBp1", "S", FALSE, {"Z", "S"}),
                                    HighByte("ApnBpCin", {"N", "Z", "V", "C"})>>

Half(n, half) == IF half = "hi" THEN n \div ByteValues ELSE n % ByteValues
RegisterByte(half) == IF half = "hi" THEN hi ELSE lo

\* What the ALU computes on line l.
AluOutput(l) ==
    LET reg == RegisterByte(l.half)
        cin == Bit(IF l.carry = "S" THEN s ELSE flags.c)
    IN  IF start.op = "NEG"
        THEN ALU(l.f, 0, reg, cin)
        ELSE ALU(l.f, reg, Half(start.operand, l.half), cin)

\* Mutant: AndZ is ignored.
ClockedWithoutAndZ(l, out) ==
    [n |-> IF "N" \in l.clocks THEN out.n ELSE flags.n,
     z |-> IF "Z" \in l.clocks THEN out.z ELSE flags.z,
     v |-> IF "V" \in l.clocks THEN out.v ELSE flags.v,
     c |-> IF "C" \in l.clocks THEN out.c ELSE flags.c]

\* NCk, ZCk with AndZ, VCk and CCk.
Clocked(l, out) ==
    [n |-> IF "N" \in l.clocks THEN out.n ELSE flags.n,
     z |-> IF "Z" \in l.clocks THEN out.z /\ (l.andZ => flags.z) ELSE flags.z,
     v |-> IF "V" \in l.clocks THEN out.v ELSE flags.v,
     c |-> IF "C" \in l.clocks THEN out.c ELSE flags.c]

\* One clock of the data section.  CPW loads its difference into T3.
Clock(l) ==
    LET out == AluOutput(l)
        loads == start.op # "CPW"
    IN  /\ lo' = IF loads /\ l.half = "lo" THEN out.res ELSE lo
        /\ hi' = IF loads /\ l.half = "hi" THEN out.res ELSE hi
        /\ flags' = Clocked(l, out)
        /\ s' = IF "S" \in l.clocks THEN out.c ELSE s
        /\ UNCHANGED start

FirstLine ==
    /\ line = "first"
    /\ Clock(Microprogram(start.op)[1])
    /\ line' = "second"

\* "if VBit cpw_n_fix else start" tests V after the line has clocked it.
SecondLine ==
    /\ line = "second"
    /\ Clock(Microprogram(start.op)[2])
    /\ line' = IF start.op = "CPW" /\ flags'.v THEN "cpw_n_fix" ELSE "done"

\* Mutant: the fix clears N.
NFixClears ==
    /\ line = "cpw_n_fix"
    /\ flags' = [flags EXCEPT !.n = FALSE]
    /\ line' = "done"
    /\ UNCHANGED <<start, hi, lo, s>>

\* The three lines at cpw_n_fix move NZVC to T4, invert N there and move the
\* result back.
CpwNFix ==
    /\ line = "cpw_n_fix"
    /\ flags' = [flags EXCEPT !.n = ~@]
    /\ line' = "done"
    /\ UNCHANGED <<start, hi, lo, s>>

Next == FirstLine \/ SecondLine \/ CpwNFix

Spec == Init /\ [][Next]_vars

-----------------------------------------------------------------------------
(* What the instructions mean.                                             *)

Signed(n) == IF High(n, WordValues) THEN n - WordValues ELSE n

Done == line = "done"
Register == hi * ByteValues + lo
Low(n) == n % ByteValues
Upper(n) == n \div ByteValues
Subtracts == start.op \in {"SUB", "CPW"}

\* The one sum with a carry in whose carry out the comparison misses: both
\* operands all ones.  A subtraction complements its second operand.
LowCarryLost ==
    Subtracts /\ Low(start.value) = ByteValues - 1 /\ Low(start.operand) = 0

HighCarryLost ==
    \/ /\ start.op = "ADD"
       /\ Upper(start.value) = ByteValues - 1 /\ Upper(start.operand) = ByteValues - 1
       /\ Low(start.value) + Low(start.operand) >= ByteValues
    \/ /\ Subtracts
       /\ Upper(start.value) = ByteValues - 1 /\ Upper(start.operand) = 0
       /\ Low(start.value) >= Low(start.operand)

\* Negating the operand first loses the carry of a subtraction of 0 and turns
\* the overflow of a subtraction of the least number around.
NegationLosesCarry == Subtracts /\ start.operand = 0
NegationTurnsSign == Subtracts /\ 2 * start.operand = WordValues

-----------------------------------------------------------------------------
(* Safety.                                                                 *)

\* The two CPUs leave the same word in the register, whatever it held, except
\* for the subtractions whose borrow the ALU gets wrong and for ROLX, which
\* IsaCpu computes from the accumulator.
RegistersAgree ==
    Done /\ ~LowCarryLost /\ ~(start.op = "ROL" /\ start.reg = "X")
        => Register = Executed(start).value

\* They leave the same flags too, touched or not, outside the cases in which
\* one of them departs from the arithmetic: Z after ASL, and C and V (from
\* which CPW computes N) where a carry is lost or a sign turned around.
FlagsAgree ==
    Done /\ ~LowCarryLost =>
        LET isa == Executed(start).flags
        IN  /\ NegationTurnsSign \/ (flags.n = isa.n /\ flags.v = isa.v)
            /\ start.op = "ASL" \/ flags.z = isa.z
            /\ \/ HighCarryLost \/ NegationLosesCarry
               \/ start.op = "CPW" /\ start.reg = "X"
               \/ flags.c = isa.c

\* After a comparison N is set exactly when the register is less than the
\* operand as signed numbers, and Z when they are equal, so that BRLT, BREQ
\* and BRGE branch as they should (the N fix of the microprogram).
ComparisonIsSigned ==
    Done /\ start.op = "CPW" /\ ~LowCarryLost =>
        /\ flags.n <=> Signed(start.value) < Signed(start.operand)
        /\ flags.z <=> start.value = start.operand

\* Violated: "A <- A minus T6" (pep9micro.pepmicro:414).
SubtractionIsExact ==
    Done /\ start.op = "SUB" => Register = (start.value - start.operand) % WordValues

=============================================================================
