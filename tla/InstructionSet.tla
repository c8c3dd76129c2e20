--------------------------- MODULE InstructionSet ---------------------------
(***************************************************************************)
(* What an instruction does, as IsaCpu executes it: the specifier is       *)
(* fetched and decoded, the operand specifier follows it unless the        *)
(* instruction is unary, and the effect is one step.                       *)
(*                                                                         *)
(* The module is also the promise of the microcoded CPU, which fetches the *)
(* byte at an odd address together with the one before it.  That byte may  *)
(* therefore be one instruction old, which IsaCpu's never is: `old` is the *)
(* memory before the last instruction.  Of the other differences, too, the *)
(* definitions name both sides: a carry lost in SUBSP, the high byte of A  *)
(* after MOVFLGA, the frame of a trap when the system stack does not end   *)
(* at a word boundary.  Traps differ by two switches of IsaCpu, too.       *)
(***************************************************************************)
EXTENDS Machine

CONSTANTS
    BurnValue,       \* the last address of the operating system
    HardwarePCIncr,  \* hardwarePCIncr: a trap skips the operand specifier
    PerformTrapFix   \* performTrapFix: a trap clears the index register

VARIABLES
    pc, sp,  \* program counter and stack pointer
    reg,     \* the accumulator and the index register
    status,  \* the status bits
    mem,     \* memory
    old,     \* memory before the last instruction
    stopped  \* executionFinished

vars == <<pc, sp, reg, status, mem, old, stopped>>

\* The specifiers that the fetch may find.
Specifier == IF Odd(pc) THEN {mem[pc], old[pc]} ELSE {mem[pc]}

OperandSpecifier == WordAt(mem, Plus(pc, 1))

\* The effective address of operandWordValueHelper and writeOperandWord.
Address(mode) ==
    LET os == OperandSpecifier
        stacked == Plus(os, sp)
    IN  CASE mode = "d"   -> os
          [] mode = "n"   -> WordAt(mem, os)
          [] mode = "s"   -> stacked
          [] mode = "sf"  -> WordAt(mem, stacked)
          [] mode = "x"   -> Plus(os, reg["X"])
          [] mode = "sx"  -> Plus(stacked, reg["X"])
          [] mode = "sfx" -> Plus(WordAt(mem, stacked), reg["X"])

OperandWord(mode) ==
    IF mode = "i" THEN OperandSpecifier ELSE WordAt(mem, Address(mode))

OperandByte(mode) ==
    IF mode = "i" THEN Lo(OperandSpecifier) ELSE mem[Address(mode)]

AfterUnary == Plus(pc, 1)
AfterNonunary == Plus(pc, 3)

Stop(i) ==
    /\ i.op = "STOP"
    /\ stopped' = TRUE
    /\ pc' = AfterUnary
    /\ UNCHANGED <<sp, reg, status, mem>>

MoveSpToA(i) ==
    /\ i.op = "MOVSPA"
    /\ reg' = [reg EXCEPT !["A"] = sp]
    /\ pc' = AfterUnary
    /\ UNCHANGED <<sp, status, mem, stopped>>

\* IsaCpu writes the whole register, the microprogram its low byte: "It is
\* intentional that A<0..7> are preserved."
MoveFlagsToA(i) ==
    /\ i.op = "MOVFLGA"
    /\ \E high \in {0, Hi(reg["A"])} :
           reg' = [reg EXCEPT !["A"] = Join(high, StatusByte(status))]
    /\ pc' = AfterUnary
    /\ UNCHANGED <<sp, status, mem, stopped>>

MoveAToFlags(i) ==
    /\ i.op = "MOVAFLG"
    /\ status' = StatusOf(Lo(reg["A"]))
    /\ pc' = AfterUnary
    /\ UNCHANGED <<sp, reg, mem, stopped>>

Return(i) ==
    /\ i.op = "RET"
    /\ pc' = WordAt(mem, sp)
    /\ sp' = Plus(sp, 2)
    /\ UNCHANGED <<reg, status, mem, stopped>>

\* The frame that a trap left on the system stack, which ends at a word
\* boundary; the microprogram takes the frame from the word around SP.
ReturnFromTrap(i) ==
    /\ i.op = "RETTR"
    /\ \E frame \in {sp, sp - (sp % 2)} :
           /\ status' = StatusOf(mem[frame])
           /\ reg' = [A |-> WordAt(mem, Plus(frame, 1)), X |-> WordAt(mem, Plus(frame, 3))]
           /\ pc' = WordAt(mem, Plus(frame, 5))
           /\ sp' = WordAt(mem, Plus(frame, 7))
    /\ UNCHANGED <<mem, stopped>>

\* executeTrap, for the specifier found.  Everything is saved below the address
\* that the operating system names, which is the new stack.  The microprogram
\* aligns the frame, but not the stack pointer.
Trap(i, specifier) ==
    /\ i.op \in Traps
    /\ LET low == Minus(WordAt(mem, Minus(BurnValue, 9)), 10)
           resume == IF HardwarePCIncr /\ i.op \in NonunaryTraps
                     THEN AfterNonunary ELSE AfterUnary
           frame == << StatusByte(status), Hi(reg["A"]), Lo(reg["A"]),
                       Hi(reg["X"]), Lo(reg["X"]), Hi(resume), Lo(resume),
                       Hi(sp), Lo(sp), specifier >>
       IN  /\ sp' = low
           /\ \E base \in {low, Plus(low, low % 2)} :
                  mem' = [n \in Word |-> IF Minus(n, base) < 10
                                        THEN frame[Minus(n, base) + 1] ELSE mem[n]]
    /\ pc' = WordAt(mem', Minus(BurnValue, 1))
    /\ reg' = IF PerformTrapFix THEN [reg EXCEPT !["X"] = 0] ELSE reg
    /\ UNCHANGED <<status, stopped>>

Taken(op) ==
    CASE op = "BRLE" -> status.n \/ status.z
      [] op = "BRLT" -> status.n
      [] op = "BREQ" -> status.z
      [] op = "BRNE" -> ~status.z
      [] op = "BRGE" -> ~status.n
      [] op = "BRGT" -> ~status.n /\ ~status.z
      [] op = "BRV"  -> status.v
      [] op = "BRC"  -> status.c

BranchIf(i) ==
    /\ i.op \in Conditionals
    /\ pc' = IF Taken(i.op) THEN OperandWord(i.mode) ELSE AfterNonunary
    /\ UNCHANGED <<sp, reg, status, mem, stopped>>

Branch(i) ==
    /\ i.op = "BR"
    /\ pc' = OperandWord(i.mode)
    /\ UNCHANGED <<sp, reg, status, mem, stopped>>

Call(i) ==
    /\ i.op = "CALL"
    /\ pc' = OperandWord(i.mode)
    /\ sp' = Minus(sp, 2)
    /\ mem' = Stored(mem, Minus(sp, 2), AfterNonunary)
    /\ UNCHANGED <<reg, status, stopped>>

\* The differences that the subtraction of two words may give.
Difference(a, b) ==
    LET exact == Minus(a, b)
        carryLost == Lo(a) = ByteValues - 1 /\ Lo(b) = 0
    IN  {exact} \cup (IF carryLost THEN {Minus(exact, ByteValues)} ELSE {})

MoveStackPointer(i) ==
    /\ \/ i.op = "ADDSP" /\ sp' = Plus(sp, OperandWord(i.mode))
       \/ i.op = "SUBSP" /\ sp' \in Difference(sp, OperandWord(i.mode))
    /\ pc' = AfterNonunary
    /\ UNCHANGED <<reg, status, mem, stopped>>

LoadWord(i) ==
    /\ i.op = "LDW"
    /\ LET w == OperandWord(i.mode)
       IN  /\ reg' = [reg EXCEPT ![i.reg] = w]
           /\ status' = [status EXCEPT !.n = High(w, Addresses), !.z = w = 0]
    /\ pc' = AfterNonunary
    /\ UNCHANGED <<sp, mem, stopped>>

LoadByte(i) ==
    /\ i.op = "LDB"
    /\ LET b == OperandByte(i.mode)
       IN  /\ reg' = [reg EXCEPT ![i.reg] = Join(Hi(@), b)]
           /\ status' = [status EXCEPT !.n = FALSE, !.z = b = 0]
    /\ pc' = AfterNonunary
    /\ UNCHANGED <<sp, mem, stopped>>

StoreWord(i) ==
    /\ i.op = "STW"
    /\ mem' = Stored(mem, Address(i.mode), reg[i.reg])
    /\ pc' = AfterNonunary
    /\ UNCHANGED <<sp, reg, status, stopped>>

StoreByte(i) ==
    /\ i.op = "STB"
    /\ mem' = [mem EXCEPT ![Address(i.mode)] = Lo(reg[i.reg])]
    /\ pc' = AfterNonunary
    /\ UNCHANGED <<sp, reg, status, stopped>>

Execute(i) ==
    \/ Stop(i) \/ MoveSpToA(i) \/ MoveFlagsToA(i) \/ MoveAToFlags(i)
    \/ Return(i) \/ ReturnFromTrap(i)
    \/ Branch(i) \/ BranchIf(i) \/ Call(i) \/ MoveStackPointer(i)
    \/ LoadWord(i) \/ LoadByte(i) \/ StoreWord(i) \/ StoreByte(i)

Next ==
    /\ ~stopped
    /\ \E is \in Specifier : Execute(Decode[is]) \/ Trap(Decode[is], is)
    /\ old' = mem

Init ==
    /\ pc \in Word /\ sp \in Word
    /\ reg \in [{"A", "X"} -> Word]
    /\ status \in Status
    /\ mem \in [Word -> Byte]
    /\ old = mem
    /\ stopped = FALSE

Spec == Init /\ [][Next]_vars

=============================================================================
