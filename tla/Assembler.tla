----------------------------- MODULE Assembler -----------------------------
(***************************************************************************)
(* IsaAsm: one pass over the source gives each line an address and each    *)
(* symbol a value; what is wrong with the whole program is found at its    *)
(* end; and an operating system is moved so that its last byte has the     *)
(* address that .BURN names, the .ALIGNs before the .BURN being redone     *)
(* from the .BURN upwards.                                                 *)
(*                                                                         *)
(* Operands are evaluated when object code is asked for, so that forward   *)
(* references need no second pass.  The lexer and the texts of messages    *)
(* are left out: a line is what the parser makes of it, and a behaviour is *)
(* the assembly of one source, chosen line by line.                        *)
(***************************************************************************)
EXTENDS Integers, Sequences

CONSTANTS
    ByteBase,   \* the number of values of a byte
    Symbols,    \* names a source may define and use
    Imports,    \* the names a user program takes from the operating system: charIn, charOut
    NoSymbol    \* no name

MemSize == ByteBase * ByteBase
Address == 0..MemSize - 1

\* A line: its command, the symbol it defines, the symbol it refers to, and
\* its number: the size of "data" and "block", the boundary of "align", the
\* value of "equate" and "burn".
Instructions == {"unary", "nonunary"}
Commands == Instructions \cup
    {"none", "addrss", "data", "block", "align", "equate", "burn", "end"}
SourceLine ==
    {line \in [command : Commands, label : Symbols \cup {NoSymbol},
               operand : Symbols \cup {NoSymbol}, number : Nat] :
        /\ line.command = "addrss" => line.operand # NoSymbol
        /\ line.operand # NoSymbol => line.command \in {"nonunary", "addrss"}
        /\ line.command = "align" => line.number \in {2, 4, 8}
        /\ line.command \in {"burn", "equate", "block"} => line.number \in Address}

ASSUME AssemblerAssumption ==
    /\ ByteBase \in Nat \ {0}
    /\ NoSymbol \notin Symbols
    /\ Imports \subseteq Symbols

-----------------------------------------------------------------------------
(* Symbols. *)

\* A symbol that was only referred to has the value of SymbolValueEmpty.
Absent == [state |-> "absent", type |-> "empty", base |-> 0, offset |-> 0]
Undefined == [Absent EXCEPT !.state = "undefined"]
Location(n) == [state |-> "single", type |-> "location", base |-> n % MemSize, offset |-> 0]
Number(n) == [state |-> "single", type |-> "number", base |-> n % MemSize, offset |-> 0]

ValueOf(entry) == entry.base + entry.offset

SetOffsetOfAll(symbols, delta) == [s \in DOMAIN symbols |-> [symbols[s] EXCEPT !.offset = delta]]
SetOffset(symbols, delta) ==
    [s \in DOMAIN symbols |->
        IF symbols[s].type = "location" THEN [symbols[s] EXCEPT !.offset = delta]
                                        ELSE symbols[s]]

-----------------------------------------------------------------------------
(* One line: processSourceLine. *)

EmptyAssembly ==
    [lines |-> <<>>, symbols |-> [s \in Symbols |-> Absent], byteCount |-> 0,
     burnCount |-> 0, burnValue |-> 0, burnAddress |-> 0, ended |-> FALSE]

SizeAtRemainder(line, n) ==
    CASE line.command = "unary" -> 1
      [] line.command = "nonunary" -> 3
      [] line.command = "addrss" -> 2
      [] line.command \in {"data", "block"} -> line.number
      [] line.command = "align" -> n % line.number
      [] OTHER -> 0

\* The bytes a line takes when it starts at byte n of the program.
SizeAt(line, n) ==
    CASE line.command = "unary" -> 1
      [] line.command = "nonunary" -> 3
      [] line.command = "addrss" -> 2
      [] line.command \in {"data", "block"} -> line.number
      [] line.command = "align" -> (line.number - (n % line.number)) % line.number
      [] OTHER -> 0

\* A line that is refused ends the assembly.
Refused(asm, line) ==
    \/ line.label # NoSymbol /\ asm.symbols[line.label].state = "single"
    \/ line.label # NoSymbol /\ line.command \in {"none", "align"}
    \/ line.label = NoSymbol /\ line.command = "equate"

\* The symbol table after a line: its label has the address of the line,
\* unless the line is an .EQUATE, and its operand is in the table.
Entered(asm, line) ==
    LET named == IF line.command = "equate" THEN Number(line.number)
                                            ELSE Location(asm.byteCount)
    IN [s \in Symbols |->
            IF s = line.label THEN named
            ELSE IF s = line.operand /\ asm.symbols[s].state = "absent" THEN Undefined
            ELSE asm.symbols[s]]

\* Comments and blank lines have the address -1.
Placed(asm, line) ==
    [command |-> line.command, label |-> line.label, operand |-> line.operand,
     number |-> line.number, emit |-> TRUE, size |-> SizeAt(line, asm.byteCount),
     address |-> IF line.command = "none" THEN -1 ELSE asm.byteCount]

ProcessSourceLine(asm, line) ==
    LET burns == line.command = "burn"
    IN [lines |-> Append(asm.lines, Placed(asm, line)),
        symbols |-> Entered(asm, line),
        byteCount |-> asm.byteCount + SizeAt(line, asm.byteCount),
        burnCount |-> asm.burnCount + IF burns THEN 1 ELSE 0,
        burnValue |-> IF burns THEN line.number ELSE asm.burnValue,
        burnAddress |-> IF burns THEN asm.byteCount ELSE asm.burnAddress,
        ended |-> line.command = "end"]

-----------------------------------------------------------------------------
(* The end of a source. *)

TooLarge(asm) == asm.byteCount > MemSize - 1
HasUndefined(symbols) == \E s \in Symbols : symbols[s].state = "undefined"

\* charIn and charOut come from the operating system if the program uses
\* them and does not define them.
WithImports(symbols, imported) ==
    [s \in Symbols |->
        IF s \in Imports /\ symbols[s].state = "undefined"
        THEN Number(imported[s]) ELSE symbols[s]]

UserAccepted(asm, imported) ==
    /\ asm.ended
    /\ ~TooLarge(asm)
    /\ asm.burnCount = 0
    /\ ~HasUndefined(WithImports(asm.symbols, imported))

OsAccepted(asm, forceBurn) ==
    /\ asm.ended
    /\ ~TooLarge(asm)
    /\ ~HasUndefined(asm.symbols)
    /\ asm.burnCount = 1
    /\ forceBurn => asm.burnValue = MemSize - 1

\* adjustMemAddress
Moved(address, delta) == IF address >= 0 THEN address + delta ELSE address

Relocated(lines, delta) ==
    [i \in DOMAIN lines |-> [lines[i] EXCEPT !.address = Moved(@, delta)]]

\* The remainder of C++, which has the sign of the dividend.
Remainder(n, m) == IF n >= 0 THEN n % m ELSE -((-n) % m)

\* One line of the pass from the .BURN upwards: line i moves by what the
\* .ALIGNs below it moved, and an .ALIGN is made to begin on its boundary.
AlignLine(pass, i) ==
    LET line == pass.lines[i]
        start == Moved(line.address, pass.rolling)
        end == start + line.size
        blockStart == end - Remainder(end, line.number)
        aligns == line.command = "align"
        relocates == /\ line.label # NoSymbol
                     /\ pass.symbols[line.label].type = "location"
    IN [lines |-> [pass.lines EXCEPT
                     ![i].address = IF aligns THEN blockStart ELSE start,
                     ![i].size = IF aligns THEN blockStart - end ELSE @],
        symbols |-> IF relocates
                    THEN [pass.symbols EXCEPT ![line.label] = Location(start)]
                    ELSE pass.symbols,
        rolling |-> IF aligns THEN pass.rolling + (blockStart - start) ELSE pass.rolling]

\* The pass over the lines that order names, one after the other.
Aligned(lines, symbols, order) ==
    LET pass[k \in 0..Len(order)] ==
            IF k = 0 THEN [lines |-> lines, symbols |-> symbols, rolling |-> 0]
                     ELSE AlignLine(pass[k - 1], order[k])
    IN pass[Len(order)]

AlignDownwards(lines, symbols, burnLine) ==
    Aligned(lines, symbols, [k \in 1..burnLine - 1 |-> k + 1])

\* The lines from the .BURN up to the second, in that order.  (The loop of
\* the source ends before line 0.)
AlignUpwards(lines, symbols, burnLine) ==
    Aligned(lines, symbols, [k \in 1..burnLine - 1 |-> burnLine + 1 - k])

BurnLine(lines) == CHOOSE i \in DOMAIN lines : lines[i].command = "burn"

-----------------------------------------------------------------------------
(* Programs: AsmProgram. *)

UserProgram(asm, imported) ==
    [lines |-> asm.lines, symbols |-> WithImports(asm.symbols, imported),
     burn |-> FALSE, burnAddress |-> 0, burnValue |-> 0]

OperatingSystemStartsLow(asm) ==
    LET delta == (asm.burnValue - asm.byteCount + 1) % MemSize
        pass == AlignUpwards(Relocated(asm.lines, delta), SetOffset(asm.symbols, delta),
                             BurnLine(asm.lines))
    IN [lines |-> pass.lines, symbols |-> pass.symbols, burn |-> TRUE,
        burnAddress |-> (asm.burnValue - (asm.byteCount - asm.burnAddress)) % MemSize,
        burnValue |-> asm.burnValue]

OperatingSystem(asm) ==
    LET delta == (asm.burnValue - asm.byteCount + 1) % MemSize
        silenced == [i \in DOMAIN asm.lines |->
                        [asm.lines[i] EXCEPT !.emit = @ /\ asm.lines[i].address >= asm.burnAddress]]
        pass == AlignUpwards(Relocated(silenced, delta), SetOffset(asm.symbols, delta),
                             BurnLine(asm.lines))
    IN [lines |-> pass.lines, symbols |-> pass.symbols, burn |-> TRUE,
        burnAddress |-> (asm.burnValue - (asm.byteCount - asm.burnAddress) + 1) % MemSize,
        burnValue |-> asm.burnValue]

\* A byte of object code, and the line it comes from.  Operation codes and
\* data are ones.
Cell(i, v) == [line |-> i, value |-> v % ByteBase]

OperandBytes(program, i) ==
    LET line == program.lines[i]
        value == IF line.operand = NoSymbol THEN 0 ELSE ValueOf(program.symbols[line.operand])
    IN <<Cell(i, value \div ByteBase), Cell(i, value % ByteBase)>>

LineCode(program, i) ==
    LET line == program.lines[i]
    IN IF ~line.emit \/ (program.burn /\ line.address < program.burnAddress) THEN <<>>
       ELSE CASE line.command = "nonunary" -> <<Cell(i, 1)>> \o OperandBytes(program, i)
              [] line.command = "addrss" -> OperandBytes(program, i)
              [] line.command \in {"unary", "data"} -> [k \in 1..line.size |-> Cell(i, 1)]
              [] OTHER -> [k \in 1..line.size |-> Cell(i, 0)]

ObjectCode(program) ==
    LET code[i \in 0..Len(program.lines)] ==
            IF i = 0 THEN <<>> ELSE code[i - 1] \o LineCode(program, i)
    IN code[Len(program.lines)]

\* memAddressToIndex, which only the constructor for user programs fills: an
\* operating system finds no line by any address.
LinesAt(program, a) ==
    IF program.burn THEN {} ELSE {i \in DOMAIN program.lines : program.lines[i].address % MemSize = a}

NoLine == 0

\* Mutant: the first line entered at an address is kept.
FirstCodeAt(program, a) ==
    IF LinesAt(program, a) = {} THEN NoLine
    ELSE CHOOSE i \in LinesAt(program, a) : \A j \in LinesAt(program, a) : i <= j

\* memAddressToCode: a line replaces an earlier one at its address.
CodeAt(program, a) ==
    IF LinesAt(program, a) = {} THEN NoLine
    ELSE CHOOSE i \in LinesAt(program, a) : \A j \in LinesAt(program, a) : j <= i

=============================================================================
