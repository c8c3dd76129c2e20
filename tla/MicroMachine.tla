---------------------------- MODULE MicroMachine ----------------------------
(***************************************************************************)
(* The microcoded CPU under the default microprogram, pep9micro.pepmicro.  *)
(*                                                                         *)
(* Memory answers with a whole word at an even address, MDRE and MDRO, so  *)
(* that the microprogram fetches two specifiers at a time and keeps the    *)
(* second in T1, and every access at an odd address takes two words.  A    *)
(* step here is one such access with the lines that prepare it and use it: *)
(* the three MemRead or MemWrite lines that the bus wants are one, and so  *)
(* are the two lines that add words byte by byte.  Arithmetic on A and X   *)
(* is left out; Arithmetic has it.                                         *)
(*                                                                         *)
(* `begun` is the state at the start of the current instruction.  For the  *)
(* registers the program keeps it too (RegisterFile's start values).       *)
(***************************************************************************)
EXTENDS Machine

CONSTANTS
    Images,         \* the memories that may be loaded
    StartPC,        \* the values of the program counter,
    StartSP,        \* of the stack pointer
    StartRegisters, \* of A and X
    StartStatus     \* and of the status bits that a program starts with

ASSUME StartAssumption ==
    /\ Images \subseteq [Word -> Byte]
    /\ StartPC \subseteq Word
    /\ StartSP \subseteq Word
    /\ StartRegisters \subseteq [{"A", "X"} -> Word]
    /\ StartStatus \subseteq Status

VARIABLES
    at,              \* the place in the microprogram
    pc, sp, reg,     \* the registers of the instruction set
    status,          \* NZVC
    is, os,          \* instruction specifier and operand specifier
    t1, prefetched,  \* the byte fetched ahead, and isPrefetchValid
    t4, t5, t6,      \* next address, effective address, operand value
    held,            \* the byte kept between two accesses (MDRO, T3 or T4)
    mem,
    begun

registers == <<sp, reg, status>>
fetch == <<is, os, t1, prefetched>>
temporaries == <<t4, t5, t6, held>>
vars == <<at, pc, registers, fetch, temporaries, mem, begun>>

Label == {"start", "os_fetch", "addr", "pointer", "n1_odd_shared", "operand",
          "d_odd_shared", "execute", "stwr_o", "call_o", "ret_o",
          "save_is", "save_sp", "save_pc", "save_x", "save_a", "enter",
          "restore_a", "restore_x", "restore_pc", "restore_sp", "stopped"}

Snapshot == [pc : Word, sp : Word, reg : [{"A", "X"} -> Word], status : Status,
             mem : [Word -> Byte], old : [Word -> Byte], stopped : BOOLEAN]

TypeOk ==
    /\ at \in Label
    /\ pc \in Word /\ sp \in Word
    /\ reg \in [{"A", "X"} -> Word] /\ status \in Status
    /\ is \in Byte /\ os \in Word
    /\ t1 \in Byte /\ prefetched \in BOOLEAN
    /\ t4 \in Word /\ t5 \in Word /\ t6 \in Word /\ held \in Byte
    /\ mem \in [Word -> Byte]
    /\ begun \in Snapshot

\* onResetCPU, the program loaded, and the stack pointer set from its vector.
Init ==
    /\ at = "start"
    /\ pc \in StartPC /\ sp \in StartSP /\ reg \in StartRegisters
    /\ status \in StartStatus
    /\ is = 0 /\ os = 0 /\ t1 = 0 /\ prefetched = FALSE
    /\ t4 = 0 /\ t5 = 0 /\ t6 = 0 /\ held = 0
    /\ mem \in Images
    /\ begun = [pc |-> pc, sp |-> sp, reg |-> reg, status |-> status, mem |-> mem,
                old |-> mem, stopped |-> FALSE]

Instr == Decode[is]

\* The bytes that the bus returns for address n.
Even(n) == mem[n - (n % 2)]
OddByte(n) == mem[n - (n % 2) + 1]

\* The microprogram is back at start, or stops, and the state becomes that of
\* a new instruction.
EndAt(label) ==
    /\ at' = label
    /\ begun' = [pc |-> pc', sp |-> sp', reg |-> reg', status |-> status', mem |-> mem',
                 old |-> begun.mem, stopped |-> label = "stopped"]

EndInstruction == EndAt("start")

Goto(label) == at' = label /\ UNCHANGED begun

-----------------------------------------------------------------------------
(* Fetch.                                                                  *)

\* "if ISUNARY unary_dispatch else os_fetch", where "all traps are unary".
EndIsFetch(specifier) ==
    /\ is' = specifier
    /\ pc' = Plus(pc, 1)
    /\ Goto(IF Decode[specifier].op \in Unary \cup Traps THEN "execute" ELSE "os_fetch")
    /\ UNCHANGED <<registers, os, temporaries, mem>>

\* Mutant: T1 is loaded from the even byte.
IsFetchEvenTwice ==
    /\ at = "start" /\ ~Odd(pc)
    /\ t1' = Even(pc) /\ prefetched' = TRUE
    /\ EndIsFetch(Even(pc))

IsFetchEven ==
    /\ at = "start" /\ ~Odd(pc)
    /\ t1' = OddByte(pc) /\ prefetched' = TRUE
    /\ EndIsFetch(Even(pc))

IsFetchPrefetched ==
    /\ at = "start" /\ Odd(pc) /\ prefetched
    /\ EndIsFetch(t1)
    /\ UNCHANGED <<t1, prefetched>>

IsFetchOdd ==
    /\ at = "start" /\ Odd(pc) /\ ~prefetched
    /\ EndIsFetch(OddByte(pc))
    /\ UNCHANGED <<t1, prefetched>>

OsFetchEven ==
    /\ at = "os_fetch" /\ ~Odd(pc)
    /\ os' = Join(Even(pc), OddByte(pc))
    /\ pc' = Plus(pc, 2)
    /\ Goto("addr")
    /\ UNCHANGED <<registers, is, t1, prefetched, temporaries, mem>>

\* "PC is odd, so there is prefetch to use."
OsFetchOdd ==
    /\ at = "os_fetch" /\ Odd(pc)
    /\ pc' = Plus(pc, 2)
    /\ os' = Join(t1, Even(pc'))
    /\ t1' = OddByte(pc') /\ prefetched' = TRUE
    /\ Goto("addr")
    /\ UNCHANGED <<registers, is, temporaries, mem>>

-----------------------------------------------------------------------------
(* Addressing modes.                                                       *)

Addressing == UNCHANGED <<pc, registers, fetch, mem>>

Immediate ==
    /\ at = "addr" /\ Instr.mode = "i"
    /\ t6' = os
    /\ Goto("execute")
    /\ Addressing /\ UNCHANGED <<t4, t5, held>>

Direct ==
    /\ at = "addr" /\ Instr.mode \in {"d", "s", "x", "sx"}
    /\ t5' = CASE Instr.mode = "d"  -> os
               [] Instr.mode = "s"  -> Plus(os, sp)
               [] Instr.mode = "x"  -> Plus(os, reg["X"])
               [] Instr.mode = "sx" -> Plus(Plus(os, sp), reg["X"])
    /\ Goto("operand")
    /\ Addressing /\ UNCHANGED <<t4, t6, held>>

Indirect ==
    /\ at = "addr" /\ Instr.mode \in {"n", "sf", "sfx"}
    /\ t4' = IF Instr.mode = "n" THEN os ELSE Plus(os, sp)
    /\ Goto("pointer")
    /\ Addressing /\ UNCHANGED <<t5, t6, held>>

\* A word that has been read as a pointer.
Pointer(w) ==
    /\ t5' = IF Instr.mode = "sfx" THEN Plus(w, reg["X"]) ELSE w
    /\ Goto("operand")

PointerEven ==
    /\ at = "pointer" /\ ~Odd(t4)
    /\ Pointer(Join(Even(t4), OddByte(t4)))
    /\ Addressing /\ UNCHANGED <<t4, t6, held>>

PointerOdd ==
    /\ at = "pointer" /\ Odd(t4)
    /\ held' = OddByte(t4)
    /\ t4' = Plus(t4, 1)
    /\ Goto("n1_odd_shared")
    /\ Addressing /\ UNCHANGED <<t5, t6>>

PointerOddShared ==
    /\ at = "n1_odd_shared"
    /\ Pointer(Join(held, Even(t4)))
    /\ Addressing /\ UNCHANGED <<t4, t6, held>>

OperandEven ==
    /\ at = "operand" /\ ~Odd(t5)
    /\ t6' = Join(Even(t5), OddByte(t5))
    /\ Goto("execute")
    /\ Addressing /\ UNCHANGED <<t4, t5, held>>

OperandOdd ==
    /\ at = "operand" /\ Odd(t5)
    /\ held' = OddByte(t5)
    /\ t4' = Plus(t5, 1)
    /\ Goto("d_odd_shared")
    /\ Addressing /\ UNCHANGED <<t5, t6>>

OperandOddShared ==
    /\ at = "d_odd_shared"
    /\ t6' = Join(held, Even(t4))
    /\ Goto("execute")
    /\ Addressing /\ UNCHANGED <<t4, t5, held>>

-----------------------------------------------------------------------------
(* Instructions.                                                           *)

Executing(ops) == at = "execute" /\ Instr.op \in ops

KeepFetch == UNCHANGED fetch

\* A change of control makes the prefetched byte invalid (PValid=0).
DropPrefetch == prefetched' = FALSE /\ UNCHANGED <<is, os, t1>>

StopCPU ==
    /\ Executing({"STOP"})
    /\ KeepFetch /\ UNCHANGED <<pc, registers, temporaries, mem>>
    /\ EndAt("stopped")

MovSpA ==
    /\ Executing({"MOVSPA"})
    /\ reg' = [reg EXCEPT !["A"] = sp]
    /\ KeepFetch /\ UNCHANGED <<pc, sp, status, temporaries, mem>>
    /\ EndInstruction

MovFlgA ==
    /\ Executing({"MOVFLGA"})
    /\ reg' = [reg EXCEPT !["A"] = Join(Hi(@), StatusByte(status))]
    /\ KeepFetch /\ UNCHANGED <<pc, sp, status, temporaries, mem>>
    /\ EndInstruction

MovAFlg ==
    /\ Executing({"MOVAFLG"})
    /\ status' = StatusOf(Lo(reg["A"]))
    /\ KeepFetch /\ UNCHANGED <<pc, sp, reg, temporaries, mem>>
    /\ EndInstruction

\* Mutant: the last line forgets PValid=0.
BranchKeepsPrefetch ==
    /\ Executing({"BR"})
    /\ pc' = t6
    /\ KeepFetch /\ UNCHANGED <<registers, temporaries, mem>>
    /\ EndInstruction

Branch ==
    /\ Executing({"BR"})
    /\ pc' = t6
    /\ DropPrefetch /\ UNCHANGED <<registers, temporaries, mem>>
    /\ EndInstruction

\* The branch function of the line of a conditional branch.
Condition(op) ==
    CASE op = "BRLE" -> status.n \/ status.z
      [] op = "BRLT" -> status.n
      [] op = "BREQ" -> status.z
      [] op = "BRNE" -> ~status.z
      [] op = "BRGE" -> ~status.n
      [] op = "BRGT" -> ~status.n /\ ~status.z
      [] op = "BRV"  -> status.v
      [] op = "BRC"  -> status.c

\* "if LE br else start": the operand has been read whether it is used or not,
\* and the prefetched byte is dropped only if it is.
BranchTaken ==
    /\ Executing(Conditionals) /\ Condition(Instr.op)
    /\ pc' = t6
    /\ DropPrefetch /\ UNCHANGED <<registers, temporaries, mem>>
    /\ EndInstruction

BranchNotTaken ==
    /\ Executing(Conditionals) /\ ~Condition(Instr.op)
    /\ KeepFetch /\ UNCHANGED <<pc, registers, temporaries, mem>>
    /\ EndInstruction

AddSp ==
    /\ Executing({"ADDSP"})
    /\ sp' = Plus(sp, t6)
    /\ KeepFetch /\ UNCHANGED <<pc, reg, status, temporaries, mem>>
    /\ EndInstruction

SubSp ==
    /\ Executing({"SUBSP"})
    /\ LET low == ALU("ApnBp1", Lo(sp), Lo(t6), 0)
           high == ALU("ApnBpCin", Hi(sp), Hi(t6), Bit(low.c))
       IN  sp' = Join(high.res, low.res)
    /\ KeepFetch /\ UNCHANGED <<pc, reg, status, temporaries, mem>>
    /\ EndInstruction

LdW ==
    /\ Executing({"LDW"})
    /\ reg' = [reg EXCEPT ![Instr.reg] = t6]
    /\ status' = [status EXCEPT !.n = High(Hi(t6), ByteValues),
                                !.z = Lo(t6) = 0 /\ Hi(t6) = 0]
    /\ KeepFetch /\ UNCHANGED <<pc, sp, temporaries, mem>>
    /\ EndInstruction

\* Memory has answered with the word at T5, and the byte is its first one; an
\* immediate operand is the second byte of the specifier.
LdB ==
    /\ Executing({"LDB"})
    /\ LET b == IF Instr.mode = "i" THEN Lo(t6) ELSE Hi(t6)
       IN  /\ reg' = [reg EXCEPT ![Instr.reg] = Join(Hi(@), b)]
           /\ status' = [status EXCEPT !.n = FALSE, !.z = b = 0]
    /\ KeepFetch /\ UNCHANGED <<pc, sp, temporaries, mem>>
    /\ EndInstruction

\* The word around T5 is read, and written back with one byte changed.
StB ==
    /\ Executing({"STB"})
    /\ mem' = [mem EXCEPT ![t5] = Lo(reg[Instr.reg])]
    /\ KeepFetch /\ UNCHANGED <<pc, registers, temporaries>>
    /\ EndInstruction

StWEven ==
    /\ Executing({"STW"}) /\ ~Odd(t5)
    /\ mem' = [mem EXCEPT ![t5] = Hi(reg[Instr.reg]), ![t5 + 1] = Lo(reg[Instr.reg])]
    /\ KeepFetch /\ UNCHANGED <<pc, registers, temporaries>>
    /\ EndInstruction

StWOdd ==
    /\ Executing({"STW"}) /\ Odd(t5)
    /\ t4' = Plus(t5, 1)
    /\ held' = Lo(reg[Instr.reg])
    /\ mem' = [mem EXCEPT ![t5] = Hi(reg[Instr.reg])]
    /\ Goto("stwr_o")
    /\ KeepFetch /\ UNCHANGED <<pc, registers, t5, t6>>

StWOddShared ==
    /\ at = "stwr_o"
    /\ mem' = [mem EXCEPT ![t4] = held]
    /\ KeepFetch /\ UNCHANGED <<pc, registers, temporaries>>
    /\ EndInstruction

CallEven ==
    /\ Executing({"CALL"}) /\ ~Odd(sp)
    /\ sp' = Minus(sp, 2)
    /\ mem' = [mem EXCEPT ![sp'] = Hi(pc), ![sp' + 1] = Lo(pc)]
    /\ pc' = t6
    /\ DropPrefetch /\ UNCHANGED <<reg, status, temporaries>>
    /\ EndInstruction

\* Mutant: SP is decremented before it is used as the address.
CallOddAtNewSP ==
    /\ Executing({"CALL"}) /\ Odd(sp)
    /\ sp' = Minus(sp, 2)
    /\ mem' = [mem EXCEPT ![sp' - 1] = Lo(pc)]
    /\ held' = Hi(pc)
    /\ pc' = t6
    /\ Goto("call_o")
    /\ DropPrefetch /\ UNCHANGED <<reg, status, t4, t5, t6>>

\* The low byte of the return address goes below the old stack pointer.
CallOdd ==
    /\ Executing({"CALL"}) /\ Odd(sp)
    /\ sp' = Minus(sp, 2)
    /\ mem' = [mem EXCEPT ![sp - 1] = Lo(pc)]
    /\ held' = Hi(pc)
    /\ pc' = t6
    /\ Goto("call_o")
    /\ DropPrefetch /\ UNCHANGED <<reg, status, t4, t5, t6>>

CallOddShared ==
    /\ at = "call_o"
    /\ mem' = [mem EXCEPT ![sp] = held]
    /\ KeepFetch /\ UNCHANGED <<pc, registers, temporaries>>
    /\ EndInstruction

RetEven ==
    /\ Executing({"RET"}) /\ ~Odd(sp)
    /\ pc' = Join(Even(sp), OddByte(sp))
    /\ sp' = Plus(sp, 2)
    /\ DropPrefetch /\ UNCHANGED <<reg, status, temporaries, mem>>
    /\ EndInstruction

RetOdd ==
    /\ Executing({"RET"}) /\ Odd(sp)
    /\ held' = OddByte(sp)
    /\ sp' = Plus(sp, 2)
    /\ Goto("ret_o")
    /\ DropPrefetch /\ UNCHANGED <<pc, reg, status, t4, t5, t6, mem>>

RetOddShared ==
    /\ at = "ret_o"
    /\ pc' = Join(held, Even(sp))
    /\ KeepFetch /\ UNCHANGED <<registers, temporaries, mem>>
    /\ EndInstruction

-----------------------------------------------------------------------------
(* Context switches, for a system stack that ends at a word boundary.  T3   *)
(* and T4 hold the address in turns; here it is t4.                         *)

\* opcode27 and the other labels of traps, and the first lines of trap.
TrapCall ==
    /\ Executing(Traps)
    /\ t4' = Minus(WordAt(mem, Addresses - 10), 1)
    /\ Goto("save_is")
    /\ DropPrefetch /\ UNCHANGED <<pc, registers, t5, t6, held, mem>>

\* A word of the frame is written around T4, which moves down to the next.
Save(label, even, odd) ==
    /\ mem' = [mem EXCEPT ![t4 - (t4 % 2)] = even, ![t4 - (t4 % 2) + 1] = odd]
    /\ t4' = Minus(t4, 2)
    /\ Goto(label)
    /\ KeepFetch /\ UNCHANGED <<pc, reg, status, t6, held>>

SaveIS ==
    /\ at = "save_is"
    /\ Save("save_sp", Lo(sp), is) /\ UNCHANGED <<sp, t5>>

SaveSP ==
    /\ at = "save_sp"
    /\ Save("save_pc", Lo(pc), Hi(sp)) /\ UNCHANGED <<sp, t5>>

\* "NZVC bits go to T5<lo>"
SavePC ==
    /\ at = "save_pc"
    /\ t5' = Join(Hi(t5), StatusByte(status))
    /\ Save("save_x", Lo(reg["X"]), Hi(pc)) /\ UNCHANGED sp

SaveX ==
    /\ at = "save_x"
    /\ Save("save_a", Lo(reg["A"]), Hi(reg["X"])) /\ UNCHANGED <<sp, t5>>

SaveA ==
    /\ at = "save_a"
    /\ sp' = Minus(t4, 1)
    /\ Save("enter", Lo(t5), Hi(reg["A"])) /\ UNCHANGED t5

EnterHandler ==
    /\ at = "enter"
    /\ pc' = WordAt(mem, Addresses - 2)
    /\ KeepFetch /\ UNCHANGED <<registers, temporaries, mem>>
    /\ EndInstruction

\* The address of the next word of the frame is ready in T4.
RestoreNext(label, address) ==
    /\ t4' = Plus(address, 2)
    /\ Goto(label)
    /\ UNCHANGED <<t5, t6, held, mem>>

RetTr ==
    /\ Executing({"RETTR"})
    /\ status' = StatusOf(Even(sp))
    /\ reg' = [reg EXCEPT !["A"] = Join(OddByte(sp), Lo(@))]
    /\ RestoreNext("restore_a", sp)
    /\ DropPrefetch /\ UNCHANGED <<pc, sp>>

RestoreA ==
    /\ at = "restore_a"
    /\ reg' = [A |-> Join(Hi(reg["A"]), Even(t4)), X |-> Join(OddByte(t4), Lo(reg["X"]))]
    /\ RestoreNext("restore_x", t4)
    /\ KeepFetch /\ UNCHANGED <<pc, sp, status>>

RestoreX ==
    /\ at = "restore_x"
    /\ reg' = [reg EXCEPT !["X"] = Join(Hi(@), Even(t4))]
    /\ pc' = Join(OddByte(t4), Lo(pc))
    /\ RestoreNext("restore_pc", t4)
    /\ KeepFetch /\ UNCHANGED <<sp, status>>

RestorePC ==
    /\ at = "restore_pc"
    /\ pc' = Join(Hi(pc), Even(t4))
    /\ sp' = Join(OddByte(t4), Lo(sp))
    /\ RestoreNext("restore_sp", t4)
    /\ KeepFetch /\ UNCHANGED <<reg, status>>

RestoreSP ==
    /\ at = "restore_sp"
    /\ sp' = Join(Hi(sp), Even(t4))
    /\ KeepFetch /\ UNCHANGED <<pc, reg, status, temporaries, mem>>
    /\ EndInstruction

-----------------------------------------------------------------------------
Fetch == IsFetchEven \/ IsFetchPrefetched \/ IsFetchOdd \/ OsFetchEven \/ OsFetchOdd

OperandFetch ==
    \/ Immediate \/ Direct \/ Indirect
    \/ PointerEven \/ PointerOdd \/ PointerOddShared
    \/ OperandEven \/ OperandOdd \/ OperandOddShared

Execute ==
    \/ StopCPU \/ MovSpA \/ MovFlgA \/ MovAFlg
    \/ Branch \/ BranchTaken \/ BranchNotTaken \/ AddSp \/ SubSp \/ LdW \/ LdB
    \/ StB \/ StWEven \/ StWOdd \/ StWOddShared
    \/ CallEven \/ CallOdd \/ CallOddShared
    \/ RetEven \/ RetOdd \/ RetOddShared

ContextSwitch ==
    \/ TrapCall \/ SaveIS \/ SaveSP \/ SavePC \/ SaveX \/ SaveA \/ EnterHandler
    \/ RetTr \/ RestoreA \/ RestoreX \/ RestorePC \/ RestoreSP

Next == Fetch \/ OperandFetch \/ Execute \/ ContextSwitch

Spec == Init /\ [][Next]_vars

-----------------------------------------------------------------------------
(* Safety.                                                                 *)

\* A byte that the fetch will take from T1 is the one in memory, now or before
\* the last instruction: every change of control has dropped an older one
\* ("Mark prefetch as invalid as CALL modifies control flow").
PrefetchIsRecent ==
    at = "start" /\ Odd(pc) /\ prefetched => t1 \in {mem[pc], begun.old[pc]}

\* The fetch of an operand specifier at an odd address takes its first byte
\* from T1 without a test of isPrefetchValid: there it is always valid, and
\* never stale.
OperandPrefetchIsFresh ==
    at = "os_fetch" /\ Odd(pc) => prefetched /\ t1 = mem[pc]

\* At instruction boundaries the microcoded CPU is the instruction set
\* simulator without its two switches for traps, but for the age of a
\* prefetched specifier, a carry lost in SUBSP, the high byte of A after MOVFLGA
\* and the place of a frame of odd address.  Words at odd addresses are read and
\* written as at even ones, and no byte beside them changes.
Simulator == INSTANCE InstructionSet WITH
           pc <- begun.pc, sp <- begun.sp, reg <- begun.reg,
           status <- begun.status, mem <- begun.mem, old <- begun.old,
           stopped <- begun.stopped, BurnValue <- Addresses - 1,
           HardwarePCIncr <- FALSE, PerformTrapFix <- FALSE

ImplementsInstructionSet == Simulator!Spec

=============================================================================
