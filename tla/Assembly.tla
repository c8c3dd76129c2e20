------------------------------ MODULE Assembly ------------------------------
(***************************************************************************)
(* The assembly of one source by IsaAsm::assembleUserProgram or            *)
(* assembleOperatingSystem, one action per source line.                    *)
(***************************************************************************)
EXTENDS Assembler

CONSTANTS
    Sources,   \* the lines a source may be made of
    Imported,  \* the values of the imported names in the installed operating system
    MaxLines   \* bound: the lines of a source

ASSUME AssemblyAssumption ==
    /\ Sources \subseteq SourceLine
    /\ Imported \in [Imports -> Address]
    /\ MaxLines \in Nat

VARIABLES
    asm,      \* the lines so far, the symbol table, the count of bytes, the .BURN
    outcome,  \* "scanning", "refused", "user", "os" or "failed"
    program   \* the program that was made, when there is one

assemblyVars == <<asm, outcome, program>>

NoProgram == [lines |-> <<>>, symbols |-> EmptyAssembly.symbols, burn |-> FALSE,
              burnAddress |-> 0, burnValue |-> 0]

AssemblyInit ==
    /\ asm = EmptyAssembly
    /\ outcome = "scanning"
    /\ program = NoProgram

Scan(line) ==
    /\ outcome = "scanning" /\ ~asm.ended /\ Len(asm.lines) < MaxLines
    /\ ~Refused(asm, line)
    /\ asm' = ProcessSourceLine(asm, line)
    /\ UNCHANGED <<outcome, program>>

Refuse(line) ==
    /\ outcome = "scanning" /\ ~asm.ended /\ Len(asm.lines) < MaxLines
    /\ Refused(asm, line)
    /\ outcome' = "refused"
    /\ UNCHANGED <<asm, program>>

\* The source may end at any line.
AssembleUserProgram ==
    /\ outcome = "scanning"
    /\ outcome' = IF UserAccepted(asm, Imported) THEN "user" ELSE "failed"
    /\ program' = IF UserAccepted(asm, Imported) THEN UserProgram(asm, Imported) ELSE program
    /\ UNCHANGED asm

AssembleOperatingSystem(forceBurn) ==
    /\ outcome = "scanning"
    /\ outcome' = IF OsAccepted(asm, forceBurn) THEN "os" ELSE "failed"
    /\ program' = IF OsAccepted(asm, forceBurn) THEN OperatingSystem(asm) ELSE program
    /\ UNCHANGED asm

AssemblyNext ==
    \/ \E line \in Sources : Scan(line) \/ Refuse(line)
    \/ AssembleUserProgram
    \/ \E force \in BOOLEAN : AssembleOperatingSystem(force)

AssemblySpec == AssemblyInit /\ [][AssemblyNext]_assemblyVars

-----------------------------------------------------------------------------
(* What holds of an accepted program. *)

Entry == [state : {"absent", "undefined", "single"}, type : {"empty", "location", "number"},
          base : Address, offset : Address]
SymbolTable == [Symbols -> Entry]
CodeLine ==
    [command : Commands, label : Symbols \cup {NoSymbol}, operand : Symbols \cup {NoSymbol},
     number : Nat, emit : BOOLEAN, size : Int, address : Int]
Program ==
    [lines : Seq(CodeLine), symbols : SymbolTable, burn : BOOLEAN,
     burnAddress : Address, burnValue : Address]
PartialAssembly ==
    [lines : Seq(CodeLine), symbols : SymbolTable, byteCount : Nat, burnCount : Nat,
     burnValue : Address, burnAddress : Nat, ended : BOOLEAN]

\* Every variable has its type; a program exists exactly when it was accepted.
AssemblyTypeOk ==
    /\ asm \in PartialAssembly
    /\ program \in Program
    /\ outcome \in {"scanning", "refused", "user", "os", "failed"}
    /\ outcome \notin {"user", "os"} => program = NoProgram

Accepted == outcome \in {"user", "os"}
Lines == DOMAIN program.lines
Line(i) == program.lines[i]

\* An .ALIGN that was redone has the negative of its size.
Width(i) == IF Line(i).size >= 0 THEN Line(i).size ELSE -Line(i).size

\* The pass that redoes the .ALIGNs does not reach the first line, although
\* "Every line of assembly code before a .BURN must be moved upward by the
\* size of all preceding .ALIGN directives" (isaasm.cpp:269).
Reached(i) == program.burn => i > 1

\* Line j is the first after i that has an address.
Follows(i, j) ==
    /\ i < j /\ Line(i).address # -1 /\ Line(j).address # -1
    /\ \A k \in i + 1..j - 1 : Line(k).address = -1

\* The bytes of a line are followed by those of the next line that has an
\* address, whatever was moved by the .BURN and by the .ALIGNs above it:
\* nothing overlaps and nothing is left out.
LinesAbut ==
    Accepted => \A i, j \in Lines :
        Follows(i, j) /\ Reached(i) => Line(j).address = Line(i).address + Width(i)

\* Object code finds a symbol where its line ended up, or as the number of
\* its .EQUATE, in whatever order it was defined, used, relocated and aligned.
SymbolsNameTheirLines ==
    Accepted => \A i \in Lines :
        Line(i).label # NoSymbol =>
            LET value == ValueOf(program.symbols[Line(i).label])
            IN IF Line(i).command = "equate" THEN value = Line(i).number
               ELSE Reached(i) => value % MemSize = Line(i).address % MemSize

\* The byte after an .ALIGN is on its boundary in a user program; in an
\* operating system the first byte of an .ALIGN before the .BURN is, which is
\* what lets ports be placed there.
AlignmentsHold ==
    Accepted => \A i \in Lines :
        Line(i).command = "align" =>
            IF ~program.burn THEN (Line(i).address + Line(i).size) % Line(i).number = 0
            ELSE (i < BurnLine(program.lines) /\ Reached(i)) => Line(i).address % Line(i).number = 0

\* Object code loaded at the start of a program puts every byte inside the
\* line that it was generated for, and the last byte of an operating system
\* at the address of its .BURN.
BytesLandOnTheirLines ==
    Accepted =>
        LET code == ObjectCode(program)
            first == program.burnAddress
        IN /\ program.burn => (first + Len(code) - 1) % MemSize = program.burnValue
           /\ \A k \in DOMAIN code :
                LET line == Line(code[k].line)
                IN (first + k - 1 - line.address) % MemSize < line.size

\* In a user program an instruction is found by its address, as the stack
\* trace needs it (interfaceisacpu.cpp:138), though several lines are entered
\* at one address: labels, .EQUATEs and empty .BLOCKs at that of the line after
\* them, comments and blank lines at -1, which is the last address as a
\* quint16.
InstructionsFoundByAddress ==
    outcome = "user" => \A i \in Lines :
        Line(i).command \in Instructions => CodeAt(program, Line(i).address) = i

=============================================================================
