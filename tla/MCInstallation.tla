--------------------------- MODULE MCInstallation ---------------------------
(***************************************************************************)
(* Operating systems for a memory of sixteen bytes: the default one, with  *)
(* its ports before the .BURN; one that ends lower and aligns its ports;   *)
(* one with the same sizes and other ports; one with ports beyond the      *)
(* .BURN; and one that does not assemble.                                  *)
(***************************************************************************)
EXTENDS Installation

Source(command, label, operand, number) ==
    [command |-> command, label |-> label, operand |-> operand, number |-> number]
Blank == Source("none", "", "", 0)
End == Source("end", "", "", 0)
Burn(n) == Source("burn", "", "", n)

MCDefaultOs ==
    << Blank, Source("block", "charIn", "", 1), Source("block", "charOut", "", 1), Burn(15),
       Source("nonunary", "", "charIn", 0), End >>
AlignedOs ==
    << Blank, Source("block", "charIn", "", 1), Source("align", "", "", 2),
       Source("block", "charOut", "", 1), Source("align", "", "", 2), Burn(9),
       Source("addrss", "", "charOut", 0), Source("data", "", "", 1), End >>
SwappedOs ==
    << Blank, Source("block", "charOut", "", 1), Source("block", "charIn", "", 1), Burn(15),
       Source("data", "", "", 3), End >>
HighPortsOs ==
    << Source("equate", "charIn", "", 13), Source("equate", "charOut", "", 11), Burn(9),
       Source("data", "", "", 2), End >>
BrokenOs == << Burn(15), Burn(15), End >>

MCOsSources == {MCDefaultOs, AlignedOs, SwappedOs, HighPortsOs, BrokenOs}

MCProgramSources ==
    { << Source("nonunary", "", "charOut", 0), Source("unary", "", "", 0), End >>,
      << Source("data", "", "", 12), End >>,
      << Source("unary", "", "", 0) >> }

=============================================================================
