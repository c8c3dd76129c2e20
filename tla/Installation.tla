---------------------------- MODULE Installation ----------------------------
(***************************************************************************)
(* How an operating system gets from the editor into memory, and what can  *)
(* happen to it there: the commands of the main window that assemble,      *)
(* install and load, the chips of the memory that they rebuild, the ports  *)
(* that the I/O widget listens to, and a running program that reads and    *)
(* writes.  Composes the assembler with the memory map.                    *)
(*                                                                         *)
(* Excluded are the operating systems that the loading does not survive    *)
(* (see the hazards): without charIn or charOut, with a port on the first  *)
(* byte of a chip, starting at address 0, or too large for the address of  *)
(* their .BURN.                                                            *)
(***************************************************************************)
EXTENDS Assembler
INSTANCE MemoryMap

CONSTANTS
    OsSources,      \* the sources that may be in the editor, as operating systems
    DefaultOs,      \* the one that is built in
    ProgramSources, \* the sources that may be in the editor, as user programs
    Touched,        \* bound: the addresses that programs use
    Values          \* bound: the bytes that programs write and users type

VARIABLES
    memory,    \* chips and the error flag
    os,        \* the operating system of the program manager
    ports,     \* the addresses that the I/O widget listens to
    pane,      \* the object code pane
    pristine,  \* history: nothing but programs touched memory since the last loading
    emitted,   \* the characters that the last use of memory sent to the output
    bus        \* the value that it read

vars == <<memory, os, ports, pane, pristine, emitted, bus>>

-----------------------------------------------------------------------------
(* Assembling. *)

\* The lines up to .END, or up to one that is refused.
ReadNext(scan, line) ==
    IF scan.asm.ended \/ ~scan.ok THEN scan
    ELSE IF Refused(scan.asm, line) THEN [scan EXCEPT !.ok = FALSE]
    ELSE [scan EXCEPT !.asm = ProcessSourceLine(@, line)]

Read(source) ==
    LET scan[k \in 0..Len(source)] ==
            IF k = 0 THEN [asm |-> EmptyAssembly, ok |-> TRUE]
                     ELSE ReadNext(scan[k - 1], source[k])
    IN scan[Len(source)]

Assembles(source, forceBurn) == Read(source).ok /\ OsAccepted(Read(source).asm, forceBurn)
Installable == {source \in OsSources : Assembles(source, FALSE)}
Built == [source \in Installable |-> OperatingSystem(Read(source).asm)]
CodeOf == [source \in Installable |-> [k \in DOMAIN ObjectCode(Built[source]) |->
                                          ObjectCode(Built[source])[k].value]]

PortOf(source, name) == ValueOf(Built[source].symbols[name]) % MemSize

ASSUME InstallationAssumption ==
    /\ OsSources \cup ProgramSources \subseteq Seq(SourceLine)
    /\ DefaultOs \in OsSources /\ Assembles(DefaultOs, TRUE)
    /\ {"charIn", "charOut"} \subseteq Symbols
    /\ Touched \subseteq Address /\ Values \subseteq Byte
    /\ \A source \in Installable :
        LET bases == {0, Built[source].burnAddress}
        IN /\ Built[source].burnAddress # 0
           /\ PortOf(source, "charIn") # PortOf(source, "charOut")
           /\ {PortOf(source, "charIn"), PortOf(source, "charOut")} \cap bases = {}
           /\ Read(source).asm.byteCount <= Built[source].burnValue + 1

\* A user program may import the ports of the operating system.
ProgramCode(source, system) ==
    LET scan == Read(source)
        imported == [s \in Imports |-> PortOf(system, s)]
        code == ObjectCode(UserProgram(scan.asm, imported))
    IN IF scan.ok /\ UserAccepted(scan.asm, imported)
       THEN [k \in DOMAIN code |-> code[k].value] ELSE <<>>

-----------------------------------------------------------------------------
(* Loading. *)

Specs(source) ==
    << [type |-> "RAM", start |-> 0, size |-> Built[source].burnAddress],
       [type |-> "ROM", start |-> Built[source].burnAddress, size |-> Len(CodeOf[source])],
       [type |-> "IDEV", start |-> PortOf(source, "charIn"), size |-> 1],
       [type |-> "ODEV", start |-> PortOf(source, "charOut"), size |-> 1] >>

PortsOf(source) == [in |-> PortOf(source, "charIn"), out |-> PortOf(source, "charOut")]

\* loadOperatingSystem
Loaded(chips, source) ==
    LoadValues(ClearMemory([chips |-> ConstructMemoryDevice(chips, Specs(source)), error |-> FALSE]),
               Built[source].burnAddress, CodeOf[source])

LoadOperatingSystem(source) ==
    /\ memory' = Loaded(memory.chips, source)
    /\ ports' = PortsOf(source)
    /\ pristine' = TRUE
    /\ emitted' = <<>> /\ bus' = 0

\* The window builds a memory of RAM, assembles the default operating system
\* and loads it.
Init ==
    /\ os = DefaultOs
    /\ memory = Loaded(InsertChip(<<>>, NewChip("RAM", MemSize), 0), DefaultOs)
    /\ ports = PortsOf(DefaultOs)
    /\ pane = <<>>
    /\ pristine = TRUE
    /\ emitted = <<>> /\ bus = 0

\* An operating system that does not assemble leaves the previous one, which
\* is loaded again all the same.
InstallNewOs(source) ==
    /\ os' = IF source \in Installable THEN source ELSE os
    /\ pane' = IF source \in Installable THEN CodeOf[source] ELSE <<>>
    /\ LoadOperatingSystem(os')

ReinstallDefaultOs ==
    /\ os' = DefaultOs
    /\ LoadOperatingSystem(os')
    /\ UNCHANGED pane

\* A program that does not assemble clears the pane; what is loaded then is
\* the empty pane.
AssembleUser(source) ==
    /\ pane' = ProgramCode(source, os)
    /\ UNCHANGED <<memory, os, ports, pristine, emitted, bus>>

FileNew ==
    /\ pane' = <<>>
    /\ UNCHANGED <<memory, os, ports, pristine, emitted, bus>>

\* The object code in the pane is loaded at address 0 over a memory that is
\* built anew.
LoadObject ==
    /\ memory' = LoadValues(Loaded(memory.chips, os), 0, pane)
    /\ ports' = PortsOf(os)
    /\ pristine' = (Len(pane) <= Built[os].burnAddress)
    /\ emitted' = <<>> /\ bus' = 0
    /\ UNCHANGED <<os, pane>>

ClearMemoryCommand ==
    /\ memory' = ClearMemory(memory)
    /\ pristine' = FALSE
    /\ emitted' = <<>> /\ bus' = 0
    /\ UNCHANGED <<os, ports, pane>>

-----------------------------------------------------------------------------
(* Programs. *)

\* The widget shows what is written to the port that it listens to.
CpuWrites(a, v) ==
    /\ memory' = WriteByte(memory, a, v)
    /\ emitted' = IF a = ports.out THEN OutputWritten(memory.chips, a, v) ELSE <<>>
    /\ bus' = 0
    /\ UNCHANGED <<os, ports, pane, pristine>>

CpuReads(a, typed) ==
    LET read == ReadByte(memory, a, typed)
    IN /\ memory' = read.memory
       /\ bus' = read.value
       /\ emitted' = <<>>
       /\ UNCHANGED <<os, ports, pane, pristine>>

Next ==
    \/ \E source \in OsSources : InstallNewOs(source)
    \/ ReinstallDefaultOs
    \/ \E source \in ProgramSources : AssembleUser(source)
    \/ FileNew
    \/ LoadObject
    \/ ClearMemoryCommand
    \/ \E a \in Touched, v \in Values : CpuWrites(a, v) \/ CpuReads(a, v)

Spec == Init /\ [][Next]_vars

-----------------------------------------------------------------------------
(* Properties. *)

\* Every chip keeps its type, its cells match its size, and the commands only
\* ever choose an operating system that assembles.
TypeOk ==
    /\ \A b \in DOMAIN memory.chips : IsChip(memory.chips[b]) /\ memory.chips[b].base = b
    /\ memory.error \in BOOLEAN
    /\ os \in Installable
    /\ ports \in [in : Address, out : Address]
    /\ pane \in Seq(Byte) /\ pristine \in BOOLEAN
    /\ emitted \in Seq(Byte) /\ bus \in Byte

\* At the addresses that the symbols of the operating system name there is an
\* input chip and an output chip, connected once, and the widget listens to
\* these addresses: handleDebugButtons takes the chip at charIn to be an input
\* chip without looking, and user programs take their ports from the symbols.
PortsAnswer ==
    LET in == ChipAt(memory.chips, PortOf(os, "charIn"))
        out == ChipAt(memory.chips, PortOf(os, "charOut"))
    IN /\ in.type = "IDEV" /\ in.size = 1 /\ in.links = 1
       /\ out.type = "ODEV" /\ out.size = 1 /\ out.links = 1
       /\ ports = PortsOf(os)

\* The vectors of the operating system are found from the end of memory, for
\* the stack pointer, and from the .BURN, for traps: one and the same place,
\* unless a port lies beyond the .BURN.
VectorsAgree ==
    ports.in < Built[os].burnValue /\ ports.out < Built[os].burnValue
        => MaxAddress(memory.chips) = Built[os].burnValue

\* Whatever programs do, and whatever was installed before, the CPU finds the
\* code of the operating system where the assembler said it would be, until
\* memory is cleared or object code is loaded over it.
OsSurvivesPrograms ==
    pristine =>
        \A k \in DOMAIN CodeOf[os] :
            LET a == Built[os].burnAddress + k - 1
            IN a \notin {ports.in, ports.out} => CellAt(memory.chips, a) = CodeOf[os][k]

LayoutOf(source) ==
    [start |-> Built[source].burnAddress, code |-> CodeOf[source],
     in |-> PortOf(source, "charIn"), out |-> PortOf(source, "charOut")]
Layouts == {LayoutOf(s) : s \in Installable}
ObjectCodes ==
    {<<>>} \cup {CodeOf[s] : s \in Installable}
           \cup {ProgramCode(p, s) : p \in ProgramSources, s \in Installable}

Space == INSTANCE AddressSpace
    WITH Addresses <- Address, Used <- Touched, Bytes <- Values, Codes <- ObjectCodes,
         kind <- [a \in Address |-> ChipAt(memory.chips, a).type],
         cell <- [a \in Address |-> CellAt(memory.chips, a)],
         error <- memory.error

\* Overlapping chips that are used again, resized and connected anew behave
\* as one flat memory: every byte read is the last one stored at its address
\* since the layout was made, and a character written to the output port
\* reaches the widget once.
ImplementsAddressSpace == Space!Spec

=============================================================================
