------------------------------ MODULE MemoryMap -----------------------------
(***************************************************************************)
(* MainMemory as a collection of chips: which chip answers an address, how *)
(* a list of specifications is built from the chips already there, how     *)
(* values are loaded, and what a read or a write of the CPU does.          *)
(*                                                                         *)
(* A memory is its chips, keyed by base address as in memoryChipMap, and   *)
(* its error flag.  Chips overlap: a port lies over the RAM around it.     *)
(* How a read of an input chip waits for its character is in MemoryIO.     *)
(***************************************************************************)
EXTENDS Integers, Sequences

CONSTANTS ByteBase

MemoryAddress == 0..ByteBase * ByteBase - 1
Byte == 0..ByteBase - 1

ChipTypes == {"RAM", "ROM", "IDEV", "ODEV"}
Ports == {"IDEV", "ODEV"}

\* links: how many connections carry the signals of the chip to the memory.
IsChip(chip) ==
    /\ DOMAIN chip = {"type", "base", "size", "cells", "links"}
    /\ chip.type \in ChipTypes /\ chip.base \in MemoryAddress
    /\ chip.size \in 0..ByteBase * ByteBase /\ chip.links \in Nat
    /\ chip.cells \in [0..chip.size - 1 -> Byte]

Zeros(size) == [i \in 0..size - 1 |-> 0]
NewChip(type, size) == [type |-> type, base |-> 0, size |-> size, cells |-> Zeros(size), links |-> 0]
NilChip == [type |-> "NIL", base |-> ByteBase * ByteBase - 1, size |-> 0, cells |-> <<>>, links |-> 0]

\* ROMChip::getChipType says RAM.
GetChipType(chip) == IF chip.type = "ROM" THEN "RAM" ELSE chip.type

Greatest(S) == CHOOSE n \in S : \A m \in S : m <= n
Least(S) == CHOOSE n \in S : \A m \in S : n <= m

-----------------------------------------------------------------------------
(* The map. *)

\* calculateAddressToChip walks the chips by base address, each overwriting
\* what the ones before it had.
Covering(chips, a) == {b \in DOMAIN chips : b <= a /\ a < b + chips[b].size}
ChipAt(chips, a) ==
    IF Covering(chips, a) = {} THEN NilChip ELSE chips[Greatest(Covering(chips, a))]

MaxAddressTooHigh(chips) == Greatest({b + chips[b].size : b \in DOMAIN chips})
MaxAddress(chips) == Greatest({b + chips[b].size : b \in DOMAIN chips}) - 1

\* A chip at the same base address is replaced.
InsertChip(chips, chip, a) ==
    [b \in DOMAIN chips \cup {a} |->
        IF b # a THEN chips[b]
        ELSE [chip EXCEPT !.base = a,
                          !.links = IF chip.type \in Ports THEN @ + 1 ELSE @]]

\* The chips, their signals disconnected; the list that they are put in has
\* the order of their addresses.
RemoveAllChipsConnected(chips) == chips
RemoveAllChips(chips) == [b \in DOMAIN chips |-> [chips[b] EXCEPT !.links = 0]]

NotResized(chip, size) == chip
ResizedWithoutCells(chip, size) == [chip EXCEPT !.size = size]
Resized(chip, size) ==
    IF chip.size = size THEN chip ELSE [chip EXCEPT !.size = size, !.cells = Zeros(size)]

\* One specification: the first chip of its type that is left is used again.
PlaceSpec(state, spec) ==
    LET fitting == {b \in DOMAIN state.cache : GetChipType(state.cache[b]) = spec.type}
        used == IF fitting = {} THEN {} ELSE {Least(fitting)}
        chip == IF fitting = {} THEN NewChip(spec.type, spec.size) ELSE state.cache[Least(fitting)]
    IN [cache |-> [b \in DOMAIN state.cache \ used |-> state.cache[b]],
        chips |-> InsertChip(state.chips, Resized(chip, spec.size), spec.start)]

ConstructMemoryDevice(chips, specs) ==
    LET place[k \in 0..Len(specs)] ==
            IF k = 0 THEN [cache |-> RemoveAllChips(chips), chips |-> <<>>]
                     ELSE PlaceSpec(place[k - 1], specs[k])
    IN place[Len(specs)].chips

-----------------------------------------------------------------------------
(* Bytes. *)

CellAt(chips, a) ==
    LET chip == ChipAt(chips, a)
    IN IF chip.type = "NIL" THEN 0 ELSE chip.cells[a - chip.base]

SetCell(chips, a, v) ==
    LET chip == ChipAt(chips, a)
    IN IF chip.type = "NIL" THEN chips ELSE [chips EXCEPT ![chip.base].cells[a - chip.base] = v]

\* setByte for each value, whatever the chip; what lies beyond the last
\* address is dropped, and an address without a chip sets the error flag.
LoadedAddresses(chips, a, values) ==
    {b \in a..a + Len(values) - 1 : b <= MaxAddress(chips)}
LoadValues(memory, a, values) ==
    LET chips == memory.chips
        loaded == LoadedAddresses(chips, a, values)
        target(b, i) == {x \in loaded : x = b + i /\ ChipAt(chips, x).base = b}
    IN [chips |-> [b \in DOMAIN chips |->
                    [chips[b] EXCEPT !.cells =
                        [i \in DOMAIN @ |-> IF target(b, i) # {} THEN values[b + i - a + 1] ELSE @[i]]]],
        error |-> memory.error \/ \E x \in loaded : ChipAt(chips, x).type = "NIL"]

\* The read-only chip is cleared with the others.
ClearMemory(memory) ==
    [chips |-> [b \in DOMAIN memory.chips |->
                  [memory.chips[b] EXCEPT !.cells = [i \in DOMAIN @ |-> 0]]],
     error |-> FALSE]

WriteByteAnywhere(memory, a, v) ==
    [chips |-> SetCell(memory.chips, a, v),
     error |-> memory.error \/ ChipAt(memory.chips, a).type = "NIL"]

\* A write to read-only memory is ignored.
WriteByte(memory, a, v) ==
    LET chip == ChipAt(memory.chips, a)
    IN [chips |-> IF chip.type = "ROM" THEN memory.chips ELSE SetCell(memory.chips, a, v),
        error |-> memory.error \/ chip.type = "NIL"]

\* The signals that a write sends on to the window.
OutputWritten(chips, a, v) ==
    LET chip == ChipAt(chips, a)
    IN IF chip.type = "ODEV" THEN [i \in 1..chip.links |-> v] ELSE <<>>

\* A read of an input chip stores the character that it gets.
ReadByte(memory, a, typed) ==
    LET chip == ChipAt(memory.chips, a)
        chips == IF chip.type = "IDEV" THEN SetCell(memory.chips, a, typed) ELSE memory.chips
    IN [memory |-> [chips |-> chips, error |-> memory.error \/ chip.type = "NIL"],
        value |-> CellAt(chips, a)]

=============================================================================
