--------------------------- MODULE MCMicroMachine ---------------------------
EXTENDS MicroMachine, Sequences

I(o, r, m) == [op |-> o, reg |-> r, mode |-> m]

MCDecode ==
    [b \in 0..23 |->
        << I("STOP", "A", "i"), I("MOVSPA", "A", "i"), I("RET", "A", "i"),
           I("MOVFLGA", "A", "i"), I("MOVAFLG", "A", "i"), I("RETTR", "A", "i"),
           I("DECO", "A", "i"),
           I("BR", "A", "i"), I("CALL", "A", "i"), I("LDW", "A", "sfx"),
           I("ADDSP", "A", "d"), I("LDB", "X", "n"), I("STB", "A", "x"),
           I("STW", "X", "sf"), I("LDB", "A", "i"), I("SUBSP", "A", "s"),
           I("BRLE", "A", "i"), I("BRLT", "A", "i"), I("BREQ", "A", "i"),
           I("BRNE", "A", "i"), I("BRGE", "A", "i"), I("BRGT", "A", "i"),
           I("BRV", "A", "i"), I("BRC", "A", "i") >>[b + 1]]

\* The addresses named by the program's operands: two pointers, at an even and
\* an odd address, and bytes of the program itself.
Operands == {<<1, 6>>, <<2, 1>>, <<0, 7>>, <<0, 8>>}

Code(operands) == {<<b>> : b \in 0..6} \cup {<<b>> \o w : b \in 7..15, w \in operands}

BranchCode == {<<b, 0, 10>> : b \in 16..23}

\* Two instructions and RET; what follows is STOP.
Programs ==
    {first \o second \o <<2>> : first \in Code(Operands) \cup BranchCode,
                               second \in Code({<<2, 1>>, <<0, 8>>})}

\* The program at base, two pointers, return addresses, pointers and a frame on
\* the stack, zeros, and the operating system: a handler that changes A and
\* returns, the end of its stack, odd if base is, and the address of the handler.
Image(base, p) ==
    [n \in 0..575 |->
        CASE n >= base /\ n < base + Len(p) -> p[n - base + 1]
          [] n = 30 -> 0 [] n = 31 -> 9 [] n = 49 -> 2 [] n = 50 -> 1
          [] n = 61 -> 8 [] n = 66 -> 4 [] n = 72 -> 8
          [] n = 68 -> 5 [] n = 69 -> 1 [] n = 79 -> 5 [] n = 80 -> 1
          [] n = 480 -> 3 [] n = 481 -> 5
          [] n = 566 -> 22 [] n = 567 -> base - 4 [] n = 574 -> 20
          [] OTHER -> 0]

MCImages == {Image(4, p) : p \in Programs} \cup {Image(5, p) : p \in Programs}
MCStartRegisters == {[r \in {"A", "X"} |-> IF r = "A" THEN 27 ELSE 1]}
MCStartStatus == {StatusOf(0), StatusOf(4), StatusOf(11)}

=============================================================================
