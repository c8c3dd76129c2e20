----------------------------- MODULE MCAssembly -----------------------------
(***************************************************************************)
(* Sources of up to six lines for a memory of sixteen bytes.               *)
(***************************************************************************)
EXTENDS Assembly

Source(command, label, operand, number) ==
    [command |-> command, label |-> label, operand |-> operand, number |-> number]

MCSources ==
    { Source("none", "", "", 0), Source("unary", "", "", 0),
      Source("nonunary", "", "charIn", 0), Source("addrss", "", "a", 0),
      Source("data", "a", "", 3), Source("block", "charIn", "", 5),
      Source("align", "", "", 2), Source("align", "", "", 4), Source("equate", "a", "", 6),
      Source("burn", "", "", 15), Source("burn", "a", "", 9), Source("end", "", "", 0) }

MCImported == [s \in {"charIn"} |-> 7]

=============================================================================
