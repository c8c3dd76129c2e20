---------------------------- MODULE AddressSpace ----------------------------
(***************************************************************************)
(* What the memory promises the CPU: one kind and one byte per address,    *)
(* laid out as the operating system asks, whatever chips are behind them   *)
(* and whatever was installed before.                                      *)
(***************************************************************************)
EXTENDS Integers, Sequences

CONSTANTS
    Addresses,
    Used,      \* the addresses that programs use
    Bytes,     \* the bytes that programs write and users type
    Layouts,   \* operating systems: [start, code, in, out]
    Codes      \* object code that may be loaded at address 0

VARIABLES
    kind,      \* of each address: RAM, ROM, IDEV, ODEV or NIL
    cell,      \* the byte at each address
    error,     \* an address without memory was used
    emitted,   \* the characters that the last use of memory sent to the output
    bus        \* the value that it read

vars == <<kind, cell, error, emitted, bus>>

KindIn(layout, a) ==
    CASE a = layout.out -> "ODEV"
      [] a = layout.in /\ a # layout.out -> "IDEV"
      [] a \in layout.start..layout.start + Len(layout.code) - 1
           /\ a \notin {layout.in, layout.out} -> "ROM"
      [] a < layout.start /\ a \notin {layout.in, layout.out} -> "RAM"
      [] OTHER -> "NIL"

KindsOf(layout) == [a \in Addresses |-> KindIn(layout, a)]

With(cells, start, code) ==
    [a \in Addresses |-> IF a \in start..start + Len(code) - 1 THEN code[a - start + 1] ELSE cells[a]]
Blank == [a \in Addresses |-> 0]

\* The addresses up to the last one that has memory.
Reachable(kinds, a) == \E b \in Addresses : a <= b /\ kinds[b] # "NIL"

\* Object code that meets a gap sets the error flag and fills what it can.
Overlay(kinds, cells, code) ==
    [a \in Addresses |->
        IF kinds[a] # "NIL" /\ a < Len(code) THEN code[a + 1] ELSE cells[a]]
MeetsGap(kinds, code) ==
    \E a \in 0..Len(code) - 1 : kinds[a] = "NIL" /\ Reachable(kinds, a)

Idle == emitted' = <<>> /\ bus' = 0

Init ==
    /\ \E layout \in Layouts :
        /\ kind = KindsOf(layout)
        /\ cell = With(Blank, layout.start, layout.code)
    /\ error = FALSE
    /\ emitted = <<>> /\ bus = 0

Install(layout) ==
    /\ Idle
    /\ error' = FALSE
    /\ kind' = KindsOf(layout)
    /\ cell' = With(Blank, layout.start, layout.code)

InstallAndLoad(layout, code) ==
    /\ Idle
    /\ kind' = KindsOf(layout)
    /\ error' = MeetsGap(KindsOf(layout), code)
    /\ cell' = Overlay(KindsOf(layout), With(Blank, layout.start, layout.code), code)

Clear ==
    /\ Idle
    /\ error' = FALSE
    /\ cell' = Blank
    /\ UNCHANGED kind

Write(a, v) ==
    /\ bus' = 0
    /\ emitted' = IF kind[a] = "ODEV" THEN <<v>> ELSE <<>>
    /\ error' = (error \/ kind[a] = "NIL")
    /\ cell' = IF kind[a] \in {"ROM", "NIL"} THEN cell ELSE [cell EXCEPT ![a] = v]
    /\ UNCHANGED kind

Read(a, typed) ==
    /\ emitted' = <<>>
    /\ bus' = IF kind[a] = "IDEV" THEN typed ELSE cell[a]
    /\ error' = (error \/ kind[a] = "NIL")
    /\ cell' = IF kind[a] = "IDEV" THEN [cell EXCEPT ![a] = typed] ELSE cell
    /\ UNCHANGED kind

Next ==
    \/ \E a \in Used, v \in Bytes : Write(a, v) \/ Read(a, v)
    \/ Clear
    \/ \E layout \in Layouts : Install(layout)
    \/ \E layout \in Layouts, code \in Codes : InstallAndLoad(layout, code)

Spec == Init /\ [][Next]_vars

=============================================================================
