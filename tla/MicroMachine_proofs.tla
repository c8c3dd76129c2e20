------------------------- MODULE MicroMachine_proofs -------------------------
(***************************************************************************)
(* Proofs about MicroMachine, for bytes of any size, any decoder table and *)
(* any program: every register keeps its width, the byte fetched ahead is  *)
(* never older than the last instruction, and the microprogram implements  *)
(* InstructionSet.                                                         *)
(***************************************************************************)
EXTENDS MicroMachine, TLAPS

-----------------------------------------------------------------------------
(* Bytes, words and addresses.                                             *)

LEMMA EvenNumber == ASSUME NEW m \in Nat, m % 2 = 0 PROVE \E k \in Nat : m = 2 * k
  OBVIOUS

LEMMA AddressesEven == Addresses \in Nat \ {0} /\ Addresses % 2 = 0
<1>1. PICK k \in Nat : ByteValues = 2 * k
  BY ByteAssumption, EvenNumber
<1>2. Addresses = 2 * (k * ByteValues)
  BY <1>1, ByteAssumption DEF Addresses
<1>3. k * ByteValues \in Nat
  BY <1>1, ByteAssumption
<1>4. Addresses > 0
  BY ByteAssumption DEF Addresses
<1>5. QED
  <2> DEFINE h == k * ByteValues
  <2>1. h \in Nat /\ Addresses = 2 * h
    BY <1>2, <1>3
  <2> HIDE DEF h
  <2>2. QED
    BY <2>1, <1>4

LEMMA HiType == ASSUME NEW w \in Word PROVE Hi(w) \in Byte
<1>1. w \in 0..ByteValues * ByteValues - 1
  BY DEF Word, Addresses
<1>2. QED
  BY <1>1, ByteAssumption, SMTT(30) DEF Hi, Byte

LEMMA LoType == ASSUME NEW w \in Word PROVE Lo(w) \in Byte
  BY AddressesEven, ByteAssumption DEF Lo, Word, Byte

LEMMA JoinType == ASSUME NEW h \in Byte, NEW l \in Byte PROVE Join(h, l) \in Word
<1>1. h * ByteValues =< (ByteValues - 1) * ByteValues
  BY ByteAssumption DEF Byte
<1>2. (ByteValues - 1) * ByteValues = ByteValues * ByteValues - ByteValues
  BY ByteAssumption
<1>3. h * ByteValues \in Nat /\ ByteValues * ByteValues \in Nat
  BY ByteAssumption DEF Byte
<1>4. QED
  BY <1>1, <1>2, <1>3, ByteAssumption DEF Join, Word, Byte, Addresses

LEMMA PlusType == ASSUME NEW n \in Word, NEW k \in Word PROVE Plus(n, k) \in Word
  BY AddressesEven DEF Plus, Word

LEMMA MinusType == ASSUME NEW n \in Word, NEW k \in Word PROVE Minus(n, k) \in Word
  BY AddressesEven DEF Minus, Word

LEMMA SmallWords == 0 \in Word /\ 1 \in Word /\ 2 \in Word
<1>1. ByteValues > 15
  BY MachineAssumption
<1>2. ByteValues * ByteValues > 15
  BY <1>1, ByteAssumption
<1>3. QED
  BY <1>2, AddressesEven DEF Word, Addresses

LEMMA VectorTypes == Addresses - 10 \in Word /\ Addresses - 2 \in Word
<1>1. ByteValues > 15
  BY MachineAssumption
<1>2. ByteValues * ByteValues > 15
  BY <1>1, ByteAssumption
<1>3. QED
  BY <1>2, AddressesEven DEF Word, Addresses

LEMMA Parity ==
  ASSUME NEW n \in Word
  PROVE  /\ Odd(Plus(n, 1)) <=> ~Odd(n)
         /\ Odd(Plus(n, 2)) <=> Odd(n)
         /\ ~Odd(n) => Plus(n, 1) = n + 1 /\ n - (n % 2) = n
         /\ Odd(n) => n - (n % 2) + 1 = n
         /\ n - (n % 2) \in Word /\ n - (n % 2) + 1 \in Word
<1>1. PICK h \in Nat : Addresses = 2 * h
  BY AddressesEven, EvenNumber
<1>2. Addresses > 2 /\ n \in Nat
  BY SmallWords, AddressesEven DEF Word
<1>3. /\ n \div 2 \in Nat /\ n % 2 \in {0, 1}
      /\ n = 2 * (n \div 2) + (n % 2)
  BY <1>2
<1>4. QED
  BY <1>1, <1>2, <1>3 DEF Word, Plus, Odd

LEMMA StatusByteType == ASSUME NEW s \in Status PROVE StatusByte(s) \in Byte
<1>1. Bit(s.n) \in {0, 1} /\ Bit(s.z) \in {0, 1} /\ Bit(s.v) \in {0, 1} /\ Bit(s.c) \in {0, 1}
  BY DEF Bit, Status
<1>2. QED
  BY <1>1, MachineAssumption, ByteAssumption DEF StatusByte, Byte

LEMMA StatusOfType == ASSUME NEW b PROVE StatusOf(b) \in Status
  BY DEF StatusOf, Status, Odd

LEMMA SumType ==
  ASSUME NEW a \in Byte, NEW b \in Byte, NEW cin \in {0, 1}
  PROVE  Sum(a, b, cin, ByteValues).res \in Byte
  BY ByteAssumption DEF Sum, Byte

LEMMA NotType == ASSUME NEW b \in Byte PROVE Not(b, ByteValues) \in Byte
  BY ByteAssumption DEF Not, Byte

LEMMA MemoryType ==
  ASSUME TypeOk, NEW n \in Word
  PROVE  /\ Even(n) \in Byte /\ OddByte(n) \in Byte
         /\ WordAt(mem, n) \in Word
<1>1. n - (n % 2) \in Word /\ n - (n % 2) + 1 \in Word
  BY Parity
<1>2. Even(n) \in Byte /\ OddByte(n) \in Byte
  BY <1>1 DEF TypeOk, Even, OddByte
<1>3. Plus(n, 1) \in Word
  BY PlusType, SmallWords
<1>4. mem[n] \in Byte /\ mem[Plus(n, 1)] \in Byte
  BY <1>3 DEF TypeOk
<1>5. QED
  BY <1>2, <1>4, JoinType DEF WordAt

-----------------------------------------------------------------------------
(* Every register keeps its width.                                         *)

Registers == [{"A", "X"} -> Word]

\* The types of the visible registers and of memory, of which begun is made.
Visible ==
  /\ pc \in Word /\ sp \in Word /\ reg \in Registers
  /\ status \in Status /\ mem \in [Word -> Byte]

Hidden ==
  /\ is \in Byte /\ os \in Word /\ t1 \in Byte /\ prefetched \in BOOLEAN
  /\ t4 \in Word /\ t5 \in Word /\ t6 \in Word /\ held \in Byte

LEMMA TypeOkParts == TypeOk <=> at \in Label /\ Visible /\ Hidden /\ begun \in Snapshot
  BY DEF TypeOk, Visible, Hidden, Registers

LEMMA TypeOkPartsPrime == TypeOk' <=> at' \in Label /\ Visible' /\ Hidden' /\ begun' \in Snapshot
  BY DEF TypeOk, Visible, Hidden, Registers

LEMMA PlaceStep ==
  ASSUME TypeOk, Visible', NEW label \in Label, EndAt(label) \/ Goto(label)
  PROVE  at' \in Label /\ begun' \in Snapshot
<1>1. begun.mem \in [Word -> Byte]
  BY DEF TypeOk, Snapshot
<1>2. CASE EndAt(label)
  BY <1>1, <1>2 DEF EndAt, Snapshot, Visible, Registers
<1>3. CASE Goto(label)
  BY <1>3 DEF Goto, TypeOk
<1>4. QED
  BY <1>2, <1>3

LEMMA FetchTypes == TypeOk /\ Fetch => TypeOk'
<1> SUFFICES ASSUME TypeOk, Fetch PROVE TypeOk'
  OBVIOUS
<1> USE DEF registers, temporaries
<1>0. Visible /\ Hidden
  BY TypeOkParts
<1>1. Plus(pc, 1) \in Word /\ Plus(pc, 2) \in Word
  BY <1>0, PlusType, SmallWords DEF Visible
<1>2. Even(pc) \in Byte /\ OddByte(pc) \in Byte
  BY <1>0, MemoryType DEF Visible
<1>3. Even(Plus(pc, 2)) \in Byte /\ OddByte(Plus(pc, 2)) \in Byte
  BY <1>1, MemoryType
<1>4. ASSUME NEW specifier \in Byte, EndIsFetch(specifier), t1' \in Byte, prefetched' \in BOOLEAN
      PROVE  TypeOk'
  <2>1. Visible' /\ Hidden'
    BY <1>0, <1>1, <1>4 DEF EndIsFetch, Visible, Hidden
  <2>2. Goto("execute") \/ Goto("os_fetch")
    BY <1>4 DEF EndIsFetch
  <2>3. QED
    BY <2>1, <2>2, PlaceStep, TypeOkPartsPrime DEF Label
<1>5. CASE IsFetchEven
  BY <1>2, <1>4, <1>5 DEF IsFetchEven
<1>6. CASE IsFetchPrefetched
  BY <1>0, <1>4, <1>6 DEF IsFetchPrefetched, Hidden
<1>7. CASE IsFetchOdd
  BY <1>0, <1>2, <1>4, <1>7 DEF IsFetchOdd, Hidden
<1>8. CASE OsFetchEven
  <2>1. Visible' /\ Hidden'
    BY <1>0, <1>1, <1>2, <1>8, JoinType DEF OsFetchEven, Visible, Hidden
  <2>2. QED
    BY <1>8, <2>1, PlaceStep, TypeOkPartsPrime DEF OsFetchEven, Label
<1>9. CASE OsFetchOdd
  <2>1. /\ pc' = Plus(pc, 2)
        /\ os' = Join(t1, Even(Plus(pc, 2))) /\ t1' = OddByte(Plus(pc, 2))
    BY <1>9 DEF OsFetchOdd, Even, OddByte
  <2>2. Visible' /\ Hidden'
    BY <1>0, <1>1, <1>3, <1>9, <2>1, JoinType DEF OsFetchOdd, Visible, Hidden
  <2>3. QED
    BY <1>9, <2>2, PlaceStep, TypeOkPartsPrime DEF OsFetchOdd, Label
<1>10. QED
  BY <1>5, <1>6, <1>7, <1>8, <1>9 DEF Fetch

LEMMA OperandTypes == TypeOk /\ OperandFetch => TypeOk'
<1> SUFFICES ASSUME TypeOk, OperandFetch PROVE TypeOk'
  OBVIOUS
<1> USE DEF registers, fetch
<1>0. Visible /\ Hidden
  BY TypeOkParts
<1>1. reg["X"] \in Word
  BY <1>0 DEF Visible, Registers
<1>2. ASSUME NEW n \in Word, NEW k \in Word PROVE Plus(n, k) \in Word
  BY PlusType
<1>3. ASSUME NEW n \in Word
      PROVE  Even(n) \in Byte /\ OddByte(n) \in Byte /\ Join(Even(n), OddByte(n)) \in Word
  BY MemoryType, JoinType
<1>4. /\ Addressing => Visible'
      /\ Addressing => is' = is /\ os' = os /\ t1' = t1 /\ prefetched' = prefetched
  BY <1>0 DEF Addressing, Visible
<1>5. ASSUME Addressing, t4' \in Word, t5' \in Word, t6' \in Word, held' \in Byte,
             NEW label \in Label, Goto(label)
      PROVE  TypeOk'
  <2>1. Visible' /\ Hidden'
    BY <1>0, <1>4, <1>5 DEF Hidden
  <2>2. QED
    BY <1>5, <2>1, PlaceStep, TypeOkPartsPrime
<1>6. CASE Immediate
  BY <1>0, <1>5, <1>6 DEF Immediate, Hidden, Label
<1>7. CASE Direct
  <2>1. Plus(os, sp) \in Word /\ Plus(os, reg["X"]) \in Word
    BY <1>0, <1>1, <1>2 DEF Visible, Hidden
  <2>2. Plus(Plus(os, sp), reg["X"]) \in Word
    BY <2>1, <1>1, <1>2
  <2>3. t5' \in Word
    BY <1>0, <1>7, <2>1, <2>2 DEF Direct, Hidden
  <2>4. QED
    BY <1>0, <1>5, <1>7, <2>3 DEF Direct, Hidden, Label
<1>8. CASE Indirect
  <2>1. Plus(os, sp) \in Word
    BY <1>0, <1>2 DEF Visible, Hidden
  <2>2. QED
    BY <1>0, <1>5, <1>8, <2>1 DEF Indirect, Hidden, Label
<1>9. ASSUME NEW w \in Word, Pointer(w) PROVE t5' \in Word /\ Goto("operand")
  BY <1>1, <1>2, <1>9 DEF Pointer
<1>10. CASE PointerEven
  <2>1. t5' \in Word /\ Goto("operand")
    BY <1>0, <1>3, <1>9, <1>10 DEF PointerEven, Hidden
  <2>2. QED
    BY <1>0, <1>5, <1>10, <2>1 DEF PointerEven, Hidden, Label
<1>11. CASE PointerOdd
  BY <1>0, <1>2, <1>3, <1>5, <1>11, SmallWords DEF PointerOdd, Hidden, Label
<1>12. CASE PointerOddShared
  <2>1. Join(held, Even(t4)) \in Word
    BY <1>0, <1>3, JoinType DEF Hidden
  <2>2. t5' \in Word /\ Goto("operand")
    BY <1>9, <1>12, <2>1 DEF PointerOddShared
  <2>3. QED
    BY <1>0, <1>5, <1>12, <2>2 DEF PointerOddShared, Hidden, Label
<1>13. CASE OperandEven
  BY <1>0, <1>3, <1>5, <1>13 DEF OperandEven, Hidden, Label
<1>14. CASE OperandOdd
  BY <1>0, <1>2, <1>3, <1>5, <1>14, SmallWords DEF OperandOdd, Hidden, Label
<1>15. CASE OperandOddShared
  <2>1. Join(held, Even(t4)) \in Word
    BY <1>0, <1>3, JoinType DEF Hidden
  <2>2. QED
    BY <1>0, <1>5, <1>15, <2>1 DEF OperandOddShared, Hidden, Label
<1>16. QED
  BY <1>6, <1>7, <1>8, <1>10, <1>11, <1>12, <1>13, <1>14, <1>15 DEF OperandFetch

\* What the instructions leave behind has its type.
LEMMA ExecuteTypes == TypeOk /\ Execute => TypeOk'
<1> SUFFICES ASSUME TypeOk, Execute PROVE TypeOk'
  OBVIOUS
<1> USE DEF registers, fetch, temporaries, KeepFetch, DropPrefetch
<1>0. Visible /\ Hidden
  BY TypeOkParts
<1>1. /\ reg["A"] \in Word /\ reg["X"] \in Word
      /\ Instr.reg \in {"A", "X"}
  <2>1. Decode[is] \in Instruction
    BY <1>0, MachineAssumption DEF Hidden
  <2>2. QED
    BY <1>0, <2>1 DEF Visible, Registers, Instr, Instruction
<1>2. /\ \A w \in Word : Hi(w) \in Byte /\ Lo(w) \in Byte
      /\ \A h \in Byte, l \in Byte : Join(h, l) \in Word
      /\ \A n \in Word : Plus(n, 1) \in Word /\ Plus(n, 2) \in Word /\ Minus(n, 2) \in Word
      /\ \A n \in Word : Even(n) \in Byte /\ OddByte(n) \in Byte
  BY HiType, LoType, JoinType, PlusType, MinusType, SmallWords, MemoryType
<1>3. ASSUME Visible', Hidden', NEW label \in Label, EndAt(label) \/ Goto(label)
      PROVE  TypeOk'
  BY <1>3, PlaceStep, TypeOkPartsPrime
<1>4. {"start", "stopped", "stwr_o", "call_o", "ret_o"} \subseteq Label
  BY DEF Label
<1> USE DEF Visible, Hidden, Registers, EndInstruction
<1>5. CASE StopCPU
  BY <1>0, <1>3, <1>4, <1>5 DEF StopCPU
<1>6. CASE MovSpA
  BY <1>0, <1>3, <1>4, <1>6 DEF MovSpA
<1>7. CASE MovFlgA
  BY <1>0, <1>1, <1>2, <1>3, <1>4, <1>7, StatusByteType DEF MovFlgA
<1>8. CASE MovAFlg
  BY <1>0, <1>3, <1>4, <1>8, StatusOfType DEF MovAFlg
<1>9. CASE Branch \/ BranchTaken \/ BranchNotTaken
  BY <1>0, <1>3, <1>4, <1>9 DEF Branch, BranchTaken, BranchNotTaken
<1>10. CASE AddSp
  BY <1>0, <1>3, <1>4, <1>10, PlusType DEF AddSp
<1>11. CASE SubSp
  <2> DEFINE low == ALU("ApnBp1", Lo(sp), Lo(t6), 0)
             high == ALU("ApnBpCin", Hi(sp), Hi(t6), Bit(low.c))
  <2>1. Not(Lo(t6), ByteValues) \in Byte /\ Not(Hi(t6), ByteValues) \in Byte
    BY <1>0, <1>2, NotType
  <2>2. low.res \in Byte
    BY <1>0, <1>2, <2>1, SumType DEF ALU
  <2>3. high.res \in Byte
    <3>1. Bit(low.c) \in {0, 1}
      BY DEF Bit
    <3> HIDE DEF low
    <3>2. QED
      BY <1>0, <1>2, <2>1, <3>1, SumType DEF ALU
  <2>4. sp' = Join(high.res, low.res)
    BY <1>11 DEF SubSp
  <2> HIDE DEF low, high
  <2>5. sp' \in Word
    BY <1>2, <2>2, <2>3, <2>4
  <2>6. QED
    BY <1>0, <1>3, <1>4, <1>11, <2>5 DEF SubSp
<1>12. CASE LdW
  <2>1. High(Hi(t6), ByteValues) \in BOOLEAN
    BY <1>0, <1>2, ByteAssumption DEF High, Byte
  <2>2. status' \in Status
    BY <1>0, <1>12, <2>1 DEF LdW, Status
  <2>3. QED
    BY <1>0, <1>3, <1>4, <1>12, <2>2 DEF LdW
<1>13. CASE LdB
  <2>1. status' \in Status
    BY <1>0, <1>13 DEF LdB, Status
  <2>2. reg' \in [{"A", "X"} -> Word]
    BY <1>0, <1>1, <1>2, <1>13 DEF LdB
  <2>3. QED
    BY <1>0, <1>3, <1>4, <1>13, <2>1, <2>2 DEF LdB
<1>14. CASE StB
  BY <1>0, <1>1, <1>2, <1>3, <1>4, <1>14 DEF StB
<1>15. CASE StWEven
  BY <1>0, <1>1, <1>2, <1>3, <1>4, <1>15 DEF StWEven
<1>16. CASE StWOdd
  BY <1>0, <1>1, <1>2, <1>3, <1>4, <1>16 DEF StWOdd
<1>17. CASE StWOddShared
  BY <1>0, <1>3, <1>4, <1>17 DEF StWOddShared
<1>18. CASE CallEven
  BY <1>0, <1>2, <1>3, <1>4, <1>18 DEF CallEven
<1>19. CASE CallOdd
  BY <1>0, <1>2, <1>3, <1>4, <1>19 DEF CallOdd
<1>20. CASE CallOddShared
  BY <1>0, <1>3, <1>4, <1>20 DEF CallOddShared
<1>21. CASE RetEven
  BY <1>0, <1>2, <1>3, <1>4, <1>21 DEF RetEven
<1>22. CASE RetOdd
  BY <1>0, <1>2, <1>3, <1>4, <1>22 DEF RetOdd
<1>23. CASE RetOddShared
  BY <1>0, <1>2, <1>3, <1>4, <1>23 DEF RetOddShared
<1>24. QED
  BY <1>5, <1>6, <1>7, <1>8, <1>9, <1>10, <1>11, <1>12, <1>13, <1>14, <1>15, <1>16, <1>17,
     <1>18, <1>19, <1>20, <1>21, <1>22, <1>23 DEF Execute

LEMMA SwitchTypes == TypeOk /\ ContextSwitch => TypeOk'
<1> SUFFICES ASSUME TypeOk, ContextSwitch PROVE TypeOk'
  OBVIOUS
<1> USE DEF registers, fetch, temporaries, KeepFetch, DropPrefetch
<1>0. Visible /\ Hidden
  BY TypeOkParts
<1>1. reg["A"] \in Word /\ reg["X"] \in Word
  BY <1>0 DEF Visible, Registers
<1>2. /\ \A w \in Word : Hi(w) \in Byte /\ Lo(w) \in Byte
      /\ \A h \in Byte, l \in Byte : Join(h, l) \in Word
      /\ \A n \in Word : Plus(n, 2) \in Word /\ Minus(n, 1) \in Word /\ Minus(n, 2) \in Word
      /\ \A n \in Word : Even(n) \in Byte /\ OddByte(n) \in Byte
  BY HiType, LoType, JoinType, PlusType, MinusType, SmallWords, MemoryType
<1>3. ASSUME Visible', Hidden', NEW label \in Label, EndAt(label) \/ Goto(label)
      PROVE  TypeOk'
  BY <1>3, PlaceStep, TypeOkPartsPrime
<1>4. {"start", "save_is", "save_sp", "save_pc", "save_x", "save_a", "enter",
       "restore_a", "restore_x", "restore_pc", "restore_sp"} \subseteq Label
  BY DEF Label
<1>5. Addresses - 10 \in Word /\ Addresses - 2 \in Word
  BY VectorTypes
<1>6. ASSUME NEW label \in Label, NEW even \in Byte, NEW odd \in Byte,
             Save(label, even, odd), sp' \in Word, t5' \in Word
      PROVE  TypeOk'
  <2>1. Visible' /\ Hidden'
    BY <1>0, <1>2, <1>6 DEF Save, Visible, Hidden, Registers
  <2>2. QED
    BY <1>3, <1>6, <2>1 DEF Save
<1>7. ASSUME NEW label \in Label, NEW address \in Word, RestoreNext(label, address),
             pc' \in Word, sp' \in Word, reg' \in Registers, status' \in Status,
             KeepFetch \/ DropPrefetch
      PROVE  TypeOk'
  <2>1. Visible' /\ Hidden'
    BY <1>0, <1>2, <1>7 DEF RestoreNext, Visible, Hidden
  <2>2. QED
    BY <1>3, <1>7, <2>1 DEF RestoreNext
<1>8. CASE TrapCall
  <2>1. Minus(WordAt(mem, Addresses - 10), 1) \in Word
    BY <1>2, <1>5, MemoryType
  <2>2. Visible' /\ Hidden'
    BY <1>0, <1>8, <2>1 DEF TrapCall, Visible, Hidden
  <2>3. QED
    BY <1>3, <1>4, <1>8, <2>2 DEF TrapCall
<1>9. CASE SaveIS
  BY <1>0, <1>2, <1>4, <1>6, <1>9 DEF SaveIS, Visible, Hidden
<1>10. CASE SaveSP
  BY <1>0, <1>2, <1>4, <1>6, <1>10 DEF SaveSP, Visible, Hidden
<1>11. CASE SavePC
  BY <1>0, <1>1, <1>2, <1>4, <1>6, <1>11, StatusByteType DEF SavePC, Visible, Hidden
<1>12. CASE SaveX
  BY <1>0, <1>1, <1>2, <1>4, <1>6, <1>12 DEF SaveX, Visible, Hidden
<1>13. CASE SaveA
  BY <1>0, <1>1, <1>2, <1>4, <1>6, <1>13 DEF SaveA, Visible, Hidden
<1>14. CASE EnterHandler
  <2>1. WordAt(mem, Addresses - 2) \in Word
    BY <1>5, MemoryType
  <2>2. Visible' /\ Hidden'
    BY <1>0, <1>14, <2>1 DEF EnterHandler, Visible, Hidden
  <2>3. QED
    BY <1>3, <1>4, <1>14, <2>2 DEF EnterHandler, EndInstruction
<1>15. CASE RetTr
  <2>1. reg' \in Registers
    BY <1>0, <1>1, <1>2, <1>15 DEF RetTr, Visible, Registers
  <2>2. QED
    BY <1>0, <1>4, <1>7, <1>15, <2>1, StatusOfType DEF RetTr, Visible
<1>16. CASE RestoreA
  <2>1. /\ Join(Hi(reg["A"]), Even(t4)) \in Word
        /\ Join(OddByte(t4), Lo(reg["X"])) \in Word
    BY <1>0, <1>1, <1>2 DEF Hidden
  <2>2. reg' \in Registers
    BY <1>16, <2>1 DEF RestoreA, Registers
  <2>3. QED
    BY <1>0, <1>4, <1>7, <1>16, <2>2 DEF RestoreA, Visible, Hidden
<1>17. CASE RestoreX
  <2>1. reg' \in Registers
    BY <1>0, <1>1, <1>2, <1>17 DEF RestoreX, Visible, Hidden, Registers
  <2>2. QED
    BY <1>0, <1>2, <1>4, <1>7, <1>17, <2>1 DEF RestoreX, Visible, Hidden
<1>18. CASE RestorePC
  BY <1>0, <1>2, <1>4, <1>7, <1>18 DEF RestorePC, Visible, Hidden
<1>19. CASE RestoreSP
  <2>1. Visible' /\ Hidden'
    BY <1>0, <1>2, <1>19 DEF RestoreSP, Visible, Hidden
  <2>2. QED
    BY <1>3, <1>4, <1>19, <2>1 DEF RestoreSP, EndInstruction
<1>20. QED
  BY <1>8, <1>9, <1>10, <1>11, <1>12, <1>13, <1>14, <1>15, <1>16, <1>17, <1>18, <1>19
     DEF ContextSwitch

\* Every register keeps its width.
LEMMA TypeStep == TypeOk /\ [Next]_vars => TypeOk'
<1>1. ASSUME TypeOk, UNCHANGED vars PROVE TypeOk'
  BY <1>1 DEF TypeOk, vars, registers, fetch, temporaries
<1>2. QED
  BY <1>1, FetchTypes, OperandTypes, ExecuteTypes, SwitchTypes DEF Next

LEMMA InitTypes == Init => TypeOk
<1> SUFFICES ASSUME Init PROVE TypeOk
  OBVIOUS
<1>0. 0 \in Byte
  BY ByteAssumption DEF Byte
<1>1. Visible /\ Hidden
  BY <1>0, StartAssumption, SmallWords DEF Init, Visible, Hidden, Registers
<1>2. begun \in Snapshot /\ at \in Label
  BY <1>1 DEF Init, Snapshot, Visible, Registers, Label
<1>3. QED
  BY <1>1, <1>2, TypeOkParts

-----------------------------------------------------------------------------
(* The prefetched byte.                                                     *)

\* The places at which the instruction has not changed anything yet.
Straight == {"start", "os_fetch", "addr", "pointer", "n1_odd_shared", "operand",
             "d_odd_shared", "execute"}

\* The places between the accesses of an instruction that changes control.
Switching == Label \ (Straight \cup {"stwr_o", "stopped"})

MemInv == at \in Straight => mem = begun.mem

PrefetchInv ==
  at \notin {"start", "stopped"} /\ Odd(pc) /\ prefetched => t1 = begun.mem[pc]

DropInv == at \in Switching => ~prefetched

PInv ==
  TypeOk /\ MemInv /\ PrefetchInv /\ DropInv /\ PrefetchIsRecent /\ OperandPrefetchIsFresh

\* The fetch fills T1 from the word that it takes a specifier from.
LEMMA PrefetchOfFetch == PInv /\ Fetch => PInv'
<1> SUFFICES ASSUME PInv, Fetch PROVE PInv'
  OBVIOUS
<1>0. TypeOk /\ TypeOk'
  BY FetchTypes DEF PInv
<1>1. pc \in Word
  BY <1>0 DEF TypeOk
<1>2. /\ Odd(Plus(pc, 1)) <=> ~Odd(pc)
      /\ Odd(Plus(pc, 2)) <=> Odd(pc)
      /\ ~Odd(pc) => OddByte(pc) = mem[Plus(pc, 1)]
      /\ Odd(pc) => OddByte(Plus(pc, 2)) = mem[Plus(pc, 2)]
  <2>1. ~Odd(pc) => OddByte(pc) = mem[Plus(pc, 1)]
    BY <1>1, Parity DEF OddByte
  <2>2. Plus(pc, 2) \in Word
    BY <1>1, PlusType, SmallWords
  <2>3. Odd(Plus(pc, 2)) => OddByte(Plus(pc, 2)) = mem[Plus(pc, 2)]
    BY <2>2, Parity DEF OddByte
  <2>4. QED
    BY <1>1, <2>1, <2>3, Parity
<1>3. CASE at = "start" /\ \E specifier : EndIsFetch(specifier)
  <2>1. mem' = mem /\ begun' = begun /\ pc' = Plus(pc, 1) /\ at' \in {"execute", "os_fetch"}
    BY <1>3 DEF EndIsFetch, Goto
  <2>2. ~Odd(pc) => prefetched' /\ t1' = mem[pc']
    BY <1>2, <1>3, <2>1 DEF Fetch, IsFetchEven, IsFetchPrefetched, IsFetchOdd,
         OsFetchEven, OsFetchOdd
  <2>3. mem = begun.mem
    BY <1>3 DEF PInv, MemInv, Straight
  <2>4. MemInv' /\ PrefetchInv' /\ OperandPrefetchIsFresh'
    BY <1>2, <2>1, <2>2, <2>3 DEF MemInv, PrefetchInv, OperandPrefetchIsFresh, Odd
  <2>5. DropInv' /\ PrefetchIsRecent'
    BY <2>1 DEF DropInv, PrefetchIsRecent, Switching, Straight
  <2>6. QED
    BY <1>0, <2>4, <2>5 DEF PInv
<1>4. CASE OsFetchEven \/ OsFetchOdd
  <2>1. mem' = mem /\ begun' = begun /\ pc' = Plus(pc, 2) /\ at' = "addr" /\ mem = begun.mem
    BY <1>4 DEF OsFetchEven, OsFetchOdd, Goto, PInv, MemInv, Straight
  <2>2. Odd(pc) => prefetched' /\ t1' = mem[pc']
    BY <1>2, <1>4, <2>1 DEF OsFetchEven, OsFetchOdd, OddByte
  <2>3. MemInv' /\ PrefetchInv'
    BY <1>2, <2>1, <2>2 DEF MemInv, PrefetchInv, Odd
  <2>4. DropInv' /\ PrefetchIsRecent' /\ OperandPrefetchIsFresh'
    BY <2>1 DEF DropInv, PrefetchIsRecent, OperandPrefetchIsFresh, Switching, Straight
  <2>5. QED
    BY <1>0, <2>3, <2>4 DEF PInv
<1>5. QED
  BY <1>3, <1>4 DEF Fetch, IsFetchEven, IsFetchPrefetched, IsFetchOdd,
         OsFetchEven, OsFetchOdd

\* The operand is fetched without a change of pc or T1.
LEMMA PrefetchOfOperand == PInv /\ OperandFetch => PInv'
<1> SUFFICES ASSUME PInv, OperandFetch PROVE PInv'
  OBVIOUS
<1>1. Addressing /\ at \in Straight \ {"start"} /\ begun' = begun
  BY DEF OperandFetch, Immediate, Direct, Indirect, PointerEven, PointerOdd, PointerOddShared,
         OperandEven, OperandOdd, OperandOddShared, Pointer, Goto, Straight
<1>2. at' \in Straight \ {"start", "os_fetch"}
  BY DEF OperandFetch, Immediate, Direct, Indirect, PointerEven, PointerOdd, PointerOddShared,
         OperandEven, OperandOdd, OperandOddShared, Pointer, Goto, Straight
<1>3. pc' = pc /\ mem' = mem /\ t1' = t1 /\ prefetched' = prefetched
  BY <1>1 DEF Addressing, fetch
<1>4. TypeOk'
  BY OperandTypes DEF PInv
<1>5. MemInv' /\ PrefetchInv'
  BY <1>1, <1>2, <1>3 DEF PInv, MemInv, PrefetchInv, Straight, Odd
<1>6. DropInv' /\ PrefetchIsRecent' /\ OperandPrefetchIsFresh'
  BY <1>2 DEF DropInv, PrefetchIsRecent, OperandPrefetchIsFresh, Switching, Straight
<1>7. QED
  BY <1>4, <1>5, <1>6 DEF PInv

\* An instruction that changes pc has made the prefetched byte invalid.
LEMMA PrefetchOfExecution == PInv /\ (Execute \/ ContextSwitch) => PInv'
<1> SUFFICES ASSUME PInv, Execute \/ ContextSwitch PROVE PInv'
  OBVIOUS
<1> DEFINE Kept == KeepFetch /\ pc' = pc /\ at \in {"execute", "stwr_o"}
           Dropped == ~prefetched'
<1>0. TypeOk'
  BY ExecuteTypes, SwitchTypes DEF PInv
<1>1. CASE Execute
  <2>1. /\ Kept \/ Dropped
        /\ \/ EndAt("start") \/ EndAt("stopped")
           \/ Goto("stwr_o") /\ Kept
           \/ (Goto("call_o") \/ Goto("ret_o")) /\ Dropped
    BY <1>1 DEF Execute, StopCPU, MovSpA, MovFlgA, MovAFlg, Branch, BranchTaken, BranchNotTaken,
         AddSp, SubSp, LdW, LdB, StB, StWEven, StWOdd, StWOddShared, CallEven, CallOdd,
         CallOddShared, RetEven, RetOdd, RetOddShared, Executing, KeepFetch, DropPrefetch,
         EndInstruction, PInv, DropInv, Switching, Straight, Label, fetch
  <2>2. ASSUME EndAt("start") \/ EndAt("stopped") PROVE PInv'
    <3>1. /\ at' \in {"start", "stopped"}
          /\ begun'.mem = mem' /\ begun'.old = begun.mem
      BY <2>2 DEF EndAt
    <3>2. MemInv' /\ PrefetchInv' /\ DropInv' /\ OperandPrefetchIsFresh'
      BY <3>1 DEF MemInv, PrefetchInv, DropInv, OperandPrefetchIsFresh, Switching, Straight
    <3>3. ASSUME Kept, Odd(pc'), prefetched' PROVE t1' = begun'.old[pc']
      BY <3>1, <3>3 DEF PInv, PrefetchInv, KeepFetch, fetch
    <3>4. PrefetchIsRecent'
      BY <2>1, <3>3 DEF PrefetchIsRecent, Odd
    <3>5. QED
      BY <1>0, <3>2, <3>4 DEF PInv
  <2>3. ASSUME Goto("stwr_o"), Kept PROVE PInv'
    <3>1. at' = "stwr_o" /\ begun' = begun
      BY <2>3 DEF Goto
    <3>2. PrefetchInv'
      BY <2>3, <3>1 DEF PInv, PrefetchInv, KeepFetch, fetch, Odd
    <3>3. MemInv' /\ DropInv' /\ PrefetchIsRecent' /\ OperandPrefetchIsFresh'
      BY <3>1 DEF MemInv, DropInv, PrefetchIsRecent, OperandPrefetchIsFresh, Switching, Straight
    <3>4. QED
      BY <1>0, <3>2, <3>3 DEF PInv
  <2>4. ASSUME Goto("call_o") \/ Goto("ret_o"), Dropped PROVE PInv'
    <3>1. at' \in {"call_o", "ret_o"}
      BY <2>4 DEF Goto
    <3>2. QED
      BY <1>0, <2>4, <3>1
         DEF PInv, MemInv, PrefetchInv, DropInv, PrefetchIsRecent, OperandPrefetchIsFresh, Straight
  <2>5. QED
    BY <2>1, <2>2, <2>3, <2>4
<1>2. CASE ContextSwitch
  <2>1. Dropped
    BY <1>2 DEF ContextSwitch, TrapCall, Save, SaveIS, SaveSP, SavePC, SaveX, SaveA, EnterHandler,
         RetTr, RestoreA, RestoreX, RestorePC, RestoreSP, KeepFetch, DropPrefetch, PInv, DropInv,
         Switching, Straight, Label, fetch
  <2>2. \/ at' = "start" /\ begun'.mem = mem'
        \/ at' \in Switching
    BY <1>2 DEF ContextSwitch, TrapCall, Save, SaveIS, SaveSP, SavePC, SaveX, SaveA, EnterHandler,
         RestoreNext, RetTr, RestoreA, RestoreX, RestorePC, RestoreSP, EndInstruction, EndAt, Goto,
         Switching, Straight, Label
  <2>3. MemInv'
    BY <2>2 DEF MemInv, Switching
  <2>4. at' # "os_fetch"
    BY <2>2 DEF Switching, Straight
  <2>5. QED
    BY <1>0, <2>1, <2>3, <2>4
       DEF PInv, PrefetchInv, DropInv, PrefetchIsRecent, OperandPrefetchIsFresh
<1>3. QED
  BY <1>1, <1>2

LEMMA PrefetchStep == PInv /\ [Next]_vars => PInv'
<1>1. ASSUME PInv, UNCHANGED vars PROVE PInv'
  <2>1. TypeOk'
    BY <1>1, TypeStep DEF PInv
  <2>2. QED
    BY <1>1, <2>1 DEF PInv, MemInv, PrefetchInv, DropInv, PrefetchIsRecent,
       OperandPrefetchIsFresh, vars, registers, fetch, temporaries, Even, OddByte, Odd
<1>2. QED
  BY <1>1, PrefetchOfFetch, PrefetchOfOperand, PrefetchOfExecution DEF Next

LEMMA PrefetchInit == Init => PInv
<1> SUFFICES ASSUME Init PROVE PInv
  OBVIOUS
<1>1. at = "start" /\ mem = begun.mem /\ prefetched = FALSE
  BY DEF Init
<1>2. QED
  BY <1>1, InitTypes
     DEF PInv, MemInv, PrefetchInv, DropInv, PrefetchIsRecent, OperandPrefetchIsFresh,
         Switching, Straight

\* At each place of the microprogram: what T1 holds if the program counter is odd,
\* that memory is unchanged until the instruction executes, and that a change of
\* control has dropped T1.
THEOREM PrefetchInvariant == Spec => []PInv
  BY PrefetchInit, PrefetchStep, PTL DEF Spec

\* Every step of the microprogram leaves each register, each byte of memory and
\* each half of a word within its width.
THEOREM MicroTypes == Spec => []TypeOk
<1>1. PInv => TypeOk
  BY DEF PInv
<1>2. QED
  BY <1>1, PrefetchInvariant, PTL

\* An instruction specifier taken from T1 is the byte that memory holds, or held
\* when the last instruction began: every change of control has dropped it.
THEOREM PrefetchRecent == Spec => []PrefetchIsRecent
<1>1. PInv => PrefetchIsRecent
  BY DEF PInv
<1>2. QED
  BY <1>1, PrefetchInvariant, PTL

\* An operand specifier at an odd address, taken from T1 without a test of
\* isPrefetchValid, is the one in memory.
THEOREM OperandPrefetchFresh == Spec => []OperandPrefetchIsFresh
<1>1. PInv => OperandPrefetchIsFresh
  BY DEF PInv
<1>2. QED
  BY <1>1, PrefetchInvariant, PTL

-----------------------------------------------------------------------------
(***************************************************************************)
(* The microprogram implements the instruction set.                        *)
(*                                                                         *)
(* The proof follows the labels of the microprogram.  RInv says at each    *)
(* what the temporary registers are of `begun`, the state in which the     *)
(* instruction began: an address that the simulator computes, half of a    *)
(* word that is read or written in two accesses, the part of a trap's      *)
(* frame that is in memory.  There is one lemma for each group of actions: *)
(* a step within an instruction keeps RInv and `begun`, and its last step  *)
(* is the simulator's.  Arithmetic on bytes and words is kept behind the   *)
(* lemmas of the first section.                                            *)
(***************************************************************************)

\* A number below 2m wraps around at most once.
LEMMA ModuloOfSum ==
    ASSUME NEW m \in Nat \ {0}, NEW n \in 0..2 * m - 1
    PROVE  n % m = IF n >= m THEN n - m ELSE n
<1>1. CASE n < m
  BY <1>1
<1>2. CASE n >= m
  <2>1. n - m \in 0..m - 1
    BY <1>2
  <2>2. n = 1 * m + (n - m)
    OBVIOUS
  <2>3. QED
    BY <1>2, <2>1, <2>2, Z3T(30)
<1>3. QED
  BY <1>1, <1>2

\* The same of the sum of two numbers below m and a carry.
LEMMA WrapsOnce ==
    ASSUME NEW m \in Nat \ {0}, NEW a \in 0..m - 1, NEW b \in 0..m - 1, NEW cin \in {0, 1}
    PROVE  (a + b + cin) % m = IF a + b + cin >= m THEN a + b + cin - m ELSE a + b + cin
<1> DEFINE n == a + b + cin
<1>1. n \in 0..2 * m - 1
  OBVIOUS
<1> HIDE DEF n
<1>2. n % m = IF n >= m THEN n - m ELSE n
  BY <1>1, ModuloOfSum
<1>3. QED
  BY <1>2 DEF n

\* The comparison of the result with the operands is the carry out, but for
\* operands of all ones with a carry in.
LEMMA CarryOutIsExact ==
    ASSUME NEW m \in Nat \ {0}, NEW a \in 0..m - 1, NEW b \in 0..m - 1, NEW cin \in {0, 1}
    PROVE  Sum(a, b, cin, m).c <=>
               /\ a + b + cin >= m
               /\ ~(a = m - 1 /\ b = m - 1 /\ cin = 1)
<1>1. (a + b + cin) % m = IF a + b + cin >= m THEN a + b + cin - m ELSE a + b + cin
  BY WrapsOnce
<1>2. Sum(a, b, cin, m).c <=> (a + b + cin) % m < a \/ (a + b + cin) % m < b
  BY DEF Sum, CarryOut
<1>3. QED
  BY <1>1, <1>2


-----------------------------------------------------------------------------
(* Words and their bytes.                                                  *)

\* A word is its two bytes.
LEMMA JoinParts == ASSUME NEW h \in Byte, NEW l \in Byte
                   PROVE  Hi(Join(h, l)) = h /\ Lo(Join(h, l)) = l
<1>1. h \in Nat /\ l \in Nat /\ l < ByteValues /\ ByteValues \in Nat \ {0}
  BY ByteAssumption DEF Byte
<1>2. (h * ByteValues + l) \div ByteValues = h
  BY <1>1, Z3T(30)
<1>3. (h * ByteValues + l) % ByteValues = l
  BY <1>1, Z3T(30)
<1>4. QED
  BY <1>2, <1>3 DEF Join, Hi, Lo

LEMMA PartsJoin == ASSUME NEW w \in Word PROVE Join(Hi(w), Lo(w)) = w
<1>1. w \in Nat /\ ByteValues \in Nat \ {0}
  BY ByteAssumption DEF Word, Addresses
<1>2. (w \div ByteValues) * ByteValues + (w % ByteValues) = w
  BY <1>1, Z3T(30)
<1>3. QED
  BY <1>2 DEF Join, Hi, Lo

\* The high order bit and the zero of a word are those of its bytes.
LEMMA WordFlags ==
  ASSUME NEW w \in Word
  PROVE  /\ High(w, Addresses) <=> High(Hi(w), ByteValues)
         /\ w = 0 <=> Lo(w) = 0 /\ Hi(w) = 0
<1> DEFINE h == Hi(w)
           l == Lo(w)
<1>1. PICK k \in Nat : ByteValues = 2 * k
  BY ByteAssumption, EvenNumber
<1>2. h \in Nat /\ l \in Nat /\ l < ByteValues /\ w = h * ByteValues + l
  BY HiType, LoType, PartsJoin, ByteAssumption DEF Join, Byte
<1> HIDE DEF h, l
<1>3. w = 0 <=> l = 0 /\ h = 0
  BY <1>2, ByteAssumption
<1>4. High(w, Addresses) <=> h >= k
  <2>1. Addresses = 2 * (k * ByteValues)
    BY <1>1, ByteAssumption DEF Addresses
  <2>2. k * ByteValues \in Nat /\ h * ByteValues \in Nat
    BY <1>1, <1>2, ByteAssumption
  <2>3. High(w, Addresses) <=> h * ByteValues + l >= k * ByteValues
    BY <1>2, <2>1, <2>2 DEF High
  <2>4. ASSUME h >= k PROVE h * ByteValues >= k * ByteValues
    BY <1>1, <1>2, <2>4, ByteAssumption
  <2>5. ASSUME h < k PROVE h * ByteValues + ByteValues =< k * ByteValues
    <3>1. (h + 1) * ByteValues =< k * ByteValues
      BY <1>1, <1>2, <2>5, ByteAssumption
    <3>2. (h + 1) * ByteValues = h * ByteValues + ByteValues
      BY <1>2, ByteAssumption
    <3>3. QED
      BY <3>1, <3>2
  <2>6. QED
    BY <1>1, <1>2, <2>2, <2>3, <2>4, <2>5, ByteAssumption
<1>5. High(h, ByteValues) <=> h >= k
  BY <1>1, <1>2 DEF High
<1>6. QED
  BY <1>3, <1>4, <1>5 DEF h, l

\* Memory is larger than the frame of a trap.
LEMMA Offsets == Addresses \in Nat /\ Addresses > 15 /\ 0..15 \subseteq Word
<1>1. ByteValues > 15
  BY MachineAssumption
<1>2. ByteValues * ByteValues > 15
  BY <1>1, ByteAssumption
<1>3. QED
  BY <1>2, AddressesEven DEF Word, Addresses

LEMMA WordAtParts ==
  ASSUME NEW m \in [Word -> Byte], NEW n \in Word
  PROVE  Hi(WordAt(m, n)) = m[n] /\ Lo(WordAt(m, n)) = m[Plus(n, 1)]
  BY PlusType, SmallWords, JoinParts DEF WordAt

\* The simulator's words and addresses are those of the microcoded CPU.
LEMMA SameMachine ==
  /\ Simulator!Addresses = Addresses /\ Simulator!Word = Word
  /\ \A n, k : Simulator!Plus(n, k) = Plus(n, k) /\ Simulator!Minus(n, k) = Minus(n, k)
  /\ \A m, n : Simulator!WordAt(m, n) = WordAt(m, n)
  /\ \A m, n, w : Simulator!Stored(m, n, w) = Stored(m, n, w)
  /\ \A n : Simulator!Odd(n) <=> Odd(n)
  /\ \A n : Simulator!Hi(n) = Hi(n) /\ Simulator!Lo(n) = Lo(n)
  /\ \A h, l : Simulator!Join(h, l) = Join(h, l)
  /\ \A b : Simulator!StatusOf(b) = StatusOf(b)
  /\ \A s : Simulator!StatusByte(s) = StatusByte(s)
  BY DEF Simulator!Addresses, Simulator!Word, Simulator!Plus, Simulator!Minus, Simulator!WordAt,
       Simulator!Stored, Simulator!Odd, Simulator!Hi, Simulator!Lo, Simulator!Join,
       Simulator!StatusOf, Simulator!StatusByte, Simulator!Bit,
       Addresses, Word, Plus, Minus, WordAt, Stored, Odd, Hi, Lo, Join, StatusOf, StatusByte, Bit

-----------------------------------------------------------------------------
(* What the registers are of the state in which the instruction began.     *)

\* Before this instruction the simulator is where the microprogram is.
BegunInv ==
  /\ at = "start" => pc = begun.pc
  /\ at \in Straight => sp = begun.sp /\ reg = begun.reg /\ status = begun.status
  /\ begun.stopped <=> at = "stopped"

\* The specifiers have been fetched, and pc is behind them.
FetchInv ==
  /\ at \notin {"start", "stopped"} => is \in Simulator!Specifier
  /\ at = "os_fetch" => pc = Simulator!AfterUnary /\ Instr.op \notin Unary \cup Traps
  /\ at \in {"addr", "pointer", "n1_odd_shared", "operand", "d_odd_shared"} =>
         /\ pc = Simulator!AfterNonunary /\ os = Simulator!OperandSpecifier
         /\ Instr.op \notin Unary \cup Traps

\* Where the pointer of a deferred operand is.
PointerAddress == IF Instr.mode = "n" THEN os ELSE Plus(os, begun.sp)

AddressInv ==
  /\ at \in {"pointer", "n1_odd_shared"} => Instr.mode \in {"n", "sf", "sfx"}
  /\ at = "pointer" => t4 = PointerAddress
  /\ at = "n1_odd_shared" =>
         Odd(PointerAddress) /\ t4 = Plus(PointerAddress, 1) /\ held = begun.mem[PointerAddress]
  /\ at \in {"operand", "d_odd_shared"} =>
         Instr.mode # "i" /\ t5 = Simulator!Address(Instr.mode)
  /\ at = "d_odd_shared" => Odd(t5) /\ t4 = Plus(t5, 1) /\ held = begun.mem[t5]

\* The operand is ready.
OperandReady ==
  /\ pc = Simulator!AfterNonunary
  /\ t6 = Simulator!OperandWord(Instr.mode)
  /\ Instr.mode = "i" => t6 = Simulator!OperandSpecifier
  /\ Instr.mode # "i" => t5 = Simulator!Address(Instr.mode) /\ t6 = WordAt(begun.mem, t5)

ExecuteInv ==
  at = "execute" =>
     IF Instr.op \in Unary \cup Traps THEN pc = Simulator!AfterUnary ELSE OperandReady

\* The second half of an access to a word at an odd address.
SecondHalfInv ==
  /\ at = "stwr_o" =>
        /\ Instr.op = "STW" /\ pc = Simulator!AfterNonunary
        /\ sp = begun.sp /\ reg = begun.reg /\ status = begun.status
        /\ t5 = Simulator!Address(Instr.mode)
        /\ t4 = Plus(t5, 1) /\ held = Lo(reg[Instr.reg])
        /\ mem = [begun.mem EXCEPT ![t5] = Hi(reg[Instr.reg])]
  /\ at = "call_o" =>
        /\ Instr.op = "CALL" /\ Odd(begun.sp)
        /\ pc = Simulator!OperandWord(Instr.mode)
        /\ sp = Minus(begun.sp, 2) /\ reg = begun.reg /\ status = begun.status
        /\ held = Hi(Simulator!AfterNonunary)
        /\ mem = [begun.mem EXCEPT ![begun.sp - 1] = Lo(Simulator!AfterNonunary)]
  /\ at = "ret_o" =>
        /\ Instr.op = "RET" /\ Odd(begun.sp)
        /\ sp = Plus(begun.sp, 2) /\ reg = begun.reg /\ status = begun.status
        /\ held = begun.mem[begun.sp] /\ mem = begun.mem

\* Where a trap saves the registers, and what it saves there.
Top == WordAt(begun.mem, Addresses - 10)
Base == Plus(Minus(Top, 10), Top % 2)
Frame == << StatusByte(begun.status), Hi(begun.reg["A"]), Lo(begun.reg["A"]),
            Hi(begun.reg["X"]), Lo(begun.reg["X"]),
            Hi(Simulator!AfterUnary), Lo(Simulator!AfterUnary),
            Hi(begun.sp), Lo(begun.sp), is >>

\* Memory with the frame from offset k on.
SavedFrom(k) ==
  [n \in Word |-> IF Minus(n, Base) \in k..9 THEN Frame[Minus(n, Base) + 1] ELSE begun.mem[n]]

Saving(label, k) ==
  at = label => t4 = Minus(Top, 11 - k) /\ mem = SavedFrom(k)

SaveInv ==
  /\ at \in {"save_is", "save_sp", "save_pc", "save_x", "save_a", "enter"} =>
        /\ Instr.op \in Traps /\ pc = Simulator!AfterUnary
        /\ reg = begun.reg /\ status = begun.status
        /\ sp = IF at = "enter" THEN Minus(Top, 10) ELSE begun.sp
  /\ at \in {"save_x", "save_a"} => Lo(t5) = StatusByte(begun.status)
  /\ Saving("save_is", 10) /\ Saving("save_sp", 8) /\ Saving("save_pc", 6)
  /\ Saving("save_x", 4) /\ Saving("save_a", 2)
  /\ at = "enter" => mem = SavedFrom(0)

\* Where the return from a trap finds a byte.
Restored(k) == begun.mem[Plus(begun.sp - (begun.sp % 2), k)]

RestoreInv ==
  /\ at \in {"restore_a", "restore_x", "restore_pc", "restore_sp"} =>
        /\ Instr.op = "RETTR" /\ mem = begun.mem
        /\ status = StatusOf(Restored(0)) /\ Hi(reg["A"]) = Restored(1)
  /\ at = "restore_a" => t4 = Plus(begun.sp, 2) /\ sp = begun.sp
  /\ at \in {"restore_x", "restore_pc", "restore_sp"} =>
        Lo(reg["A"]) = Restored(2) /\ Hi(reg["X"]) = Restored(3)
  /\ at = "restore_x" => t4 = Plus(begun.sp, 4) /\ sp = begun.sp
  /\ at \in {"restore_pc", "restore_sp"} => Lo(reg["X"]) = Restored(4) /\ Hi(pc) = Restored(5)
  /\ at = "restore_pc" => t4 = Plus(begun.sp, 6) /\ sp = begun.sp
  /\ at = "restore_sp" =>
        t4 = Plus(begun.sp, 8) /\ Lo(pc) = Restored(6) /\ Hi(sp) = Restored(7)

RInv ==
  BegunInv /\ FetchInv /\ AddressInv /\ ExecuteInv /\ SecondHalfInv /\ SaveInv /\ RestoreInv

-----------------------------------------------------------------------------
(* Steps within an instruction.                                            *)

\* The state at the start of the instruction has its types.
LEMMA BegunTypes ==
  ASSUME TypeOk
  PROVE  /\ begun.pc \in Word /\ begun.sp \in Word /\ begun.reg \in Registers
         /\ begun.status \in Status
         /\ begun.mem \in [Word -> Byte] /\ begun.old \in [Word -> Byte]
         /\ Simulator!AfterUnary = Plus(begun.pc, 1) /\ Simulator!AfterUnary \in Word
         /\ Simulator!AfterNonunary = Plus(begun.pc, 3) /\ Simulator!AfterNonunary \in Word
         /\ Simulator!OperandSpecifier = WordAt(begun.mem, Plus(begun.pc, 1))
         /\ Simulator!OperandSpecifier \in Word
<1>1. /\ begun.pc \in Word /\ begun.sp \in Word /\ begun.reg \in Registers
      /\ begun.status \in Status
      /\ begun.mem \in [Word -> Byte] /\ begun.old \in [Word -> Byte]
  BY DEF TypeOk, Snapshot, Registers
<1>2. /\ Simulator!AfterUnary = Plus(begun.pc, 1)
      /\ Simulator!AfterNonunary = Plus(begun.pc, 3)
      /\ Simulator!OperandSpecifier = WordAt(begun.mem, Plus(begun.pc, 1))
  BY SameMachine DEF Simulator!AfterUnary, Simulator!AfterNonunary, Simulator!OperandSpecifier
<1>3. 1 \in Word /\ 3 \in Word
  BY Offsets
<1>4. Plus(begun.pc, 1) \in Word /\ Plus(begun.pc, 3) \in Word
  BY <1>1, <1>3, PlusType
<1>5. \A n \in Word : WordAt(begun.mem, n) \in Word
  BY <1>1, <1>3, PlusType, JoinType DEF WordAt
<1>6. QED
  BY <1>1, <1>2, <1>4, <1>5

LEMMA FetchFollows == PInv /\ RInv /\ Fetch => RInv' /\ begun' = begun
<1> SUFFICES ASSUME PInv, RInv, Fetch PROVE RInv' /\ begun' = begun
  OBVIOUS
<1>0. TypeOk
  BY DEF PInv
<1>1. CASE at = "start" /\ \E specifier : EndIsFetch(specifier)
  <2>1. /\ begun' = begun /\ mem' = mem /\ sp' = sp /\ reg' = reg /\ status' = status
        /\ pc' = Simulator!AfterUnary
        /\ pc = begun.pc
    BY <1>0, <1>1, BegunTypes DEF EndIsFetch, Goto, registers, RInv, BegunInv
  <2>2. at' = IF Instr'.op \in Unary \cup Traps THEN "execute" ELSE "os_fetch"
    BY <1>1 DEF EndIsFetch, Goto, Instr
  <2>3. BegunInv'
    BY <1>1, <2>1, <2>2 DEF RInv, BegunInv, Straight
  <2>4. is' \in Simulator!Specifier
    <3>1. pc \in Word /\ mem = begun.mem
      BY <1>0, <1>1 DEF TypeOk, PInv, MemInv, Straight
    <3>2. /\ ~Odd(pc) => Even(pc) = mem[pc]
          /\ Odd(pc) => OddByte(pc) = mem[pc]
      BY <3>1, Parity DEF Even, OddByte
    <3>3. is' = mem[pc] \/ (Odd(pc) /\ prefetched /\ is' = t1)
      BY <1>1, <3>2 DEF Fetch, IsFetchEven, IsFetchPrefetched, IsFetchOdd, EndIsFetch,
         OsFetchEven, OsFetchOdd
    <3>4. is' = mem[pc] \/ (Odd(pc) /\ is' = begun.old[pc])
      BY <1>1, <3>3 DEF PInv, PrefetchIsRecent
    <3>5. QED
      BY <2>1, <3>1, <3>4, SameMachine DEF Simulator!Specifier
  <2>5. FetchInv'
    BY <2>1, <2>2, <2>4 DEF FetchInv, Simulator!Specifier, Simulator!AfterUnary
  <2>6. ExecuteInv'
    BY <2>1, <2>2 DEF ExecuteInv, Simulator!AfterUnary
  <2>7. AddressInv' /\ SecondHalfInv' /\ SaveInv' /\ RestoreInv'
    BY <2>2 DEF AddressInv, SecondHalfInv, SaveInv, Saving, RestoreInv
  <2>8. QED
    BY <2>1, <2>3, <2>5, <2>6, <2>7 DEF RInv
<1>2. CASE OsFetchEven \/ OsFetchOdd
  <2>1. /\ begun' = begun /\ mem' = mem /\ sp' = sp /\ reg' = reg /\ status' = status /\ is' = is
        /\ at = "os_fetch" /\ at' = "addr" /\ pc' = Plus(pc, 2)
        /\ mem = begun.mem
    BY <1>2 DEF OsFetchEven, OsFetchOdd, Goto, registers, PInv, MemInv, Straight
  <2>2. pc = Plus(begun.pc, 1) /\ pc \in Word /\ begun.pc \in Word
    BY <1>0, <2>1, BegunTypes DEF RInv, FetchInv
  <2>3. pc' = Simulator!AfterNonunary
    <3>1. Plus(Plus(begun.pc, 1), 2) = Plus(begun.pc, 3)
      BY <2>2, SmallWords, VectorTypes, AddressesEven DEF Plus, Word
    <3>2. QED
      BY <1>0, <2>1, <2>2, <3>1, BegunTypes
  <2>4. os' = WordAt(mem, pc)
    <3>1. CASE OsFetchEven
      BY <2>2, <3>1, Parity DEF OsFetchEven, Even, OddByte, WordAt
    <3>2. CASE OsFetchOdd
      <4>1. t1 = mem[pc]
        BY <2>1, <3>2 DEF OsFetchOdd, PInv, OperandPrefetchIsFresh
      <4>2. Plus(pc, 2) \in Word /\ Odd(Plus(pc, 2))
        BY <2>2, <3>2, Parity, PlusType, SmallWords DEF OsFetchOdd
      <4>3. Plus(pc, 2) - (Plus(pc, 2) % 2) = Plus(pc, 1)
        <5>1. PICK h \in Nat : Addresses = 2 * h
          BY AddressesEven, EvenNumber
        <5>2. QED
          BY <2>2, <3>2, <4>2, <5>1, SmallWords, VectorTypes DEF Plus, Word, Odd, OsFetchOdd
      <4>4. QED
        BY <3>2, <4>1, <4>3 DEF OsFetchOdd, Even, WordAt
    <3>3. QED
      BY <1>2, <3>1, <3>2
  <2>5. BegunInv'
    BY <2>1 DEF RInv, BegunInv, Straight
  <2>6. FetchInv'
    <3>1. os' = Simulator!OperandSpecifier
      BY <1>0, <2>1, <2>2, <2>4, BegunTypes
    <3>2. is' \in Simulator!Specifier /\ Instr'.op \notin Unary \cup Traps
      BY <2>1 DEF RInv, FetchInv, Instr
    <3>3. QED
      BY <2>1, <2>3, <3>1, <3>2
         DEF FetchInv, Simulator!Specifier, Simulator!AfterNonunary, Simulator!OperandSpecifier
  <2>7. AddressInv' /\ ExecuteInv' /\ SecondHalfInv' /\ SaveInv' /\ RestoreInv'
    BY <2>1 DEF AddressInv, ExecuteInv, SecondHalfInv, SaveInv, Saving, RestoreInv
  <2>8. QED
    BY <2>1, <2>5, <2>6, <2>7 DEF RInv
<1>3. QED
  BY <1>1, <1>2 DEF Fetch, IsFetchEven, IsFetchPrefetched, IsFetchOdd

\* The simulator's address, mode by mode.
LEMMA AddressOfMode ==
  LET A(mode) == Simulator!Address(mode)
      spec == Simulator!OperandSpecifier
  IN  /\ A("d") = spec
      /\ A("n") = WordAt(begun.mem, spec)
      /\ A("s") = Plus(spec, begun.sp)
      /\ A("sf") = WordAt(begun.mem, Plus(spec, begun.sp))
      /\ A("x") = Plus(spec, begun.reg["X"])
      /\ A("sx") = Plus(Plus(spec, begun.sp), begun.reg["X"])
      /\ A("sfx") = Plus(WordAt(begun.mem, Plus(spec, begun.sp)), begun.reg["X"])
  BY SameMachine DEF Simulator!Address

LEMMA DecodeType == ASSUME TypeOk PROVE Instr \in Instruction
  BY MachineAssumption DEF TypeOk, Instr

\* A word is read in one access or in two.
LEMMA EvenWord ==
  ASSUME TypeOk, NEW n \in Word, ~Odd(n) PROVE Join(Even(n), OddByte(n)) = WordAt(mem, n)
  BY Parity DEF Even, OddByte, WordAt

LEMMA OddWord ==
  ASSUME TypeOk, NEW n \in Word, Odd(n)
  PROVE  /\ OddByte(n) = mem[n]
         /\ Even(Plus(n, 1)) = mem[Plus(n, 1)]
         /\ Join(mem[n], mem[Plus(n, 1)]) = WordAt(mem, n)
<1>1. ~Odd(Plus(n, 1)) /\ Plus(n, 1) \in Word
  BY Parity, PlusType, SmallWords
<1>2. QED
  BY <1>1, Parity DEF OddByte, Even, WordAt

LEMMA OperandFollows == PInv /\ RInv /\ OperandFetch => RInv' /\ begun' = begun
<1> SUFFICES ASSUME PInv, RInv, OperandFetch PROVE RInv' /\ begun' = begun
  OBVIOUS
<1>0. TypeOk /\ TypeOk'
  BY OperandTypes DEF PInv
<1>1. Addressing /\ at \in {"addr", "pointer", "n1_odd_shared", "operand", "d_odd_shared"}
      /\ begun' = begun
  BY DEF OperandFetch, Immediate, Direct, Indirect, PointerEven, PointerOdd, PointerOddShared,
         OperandEven, OperandOdd, OperandOddShared, Pointer, Goto
<1>2. at' \in {"pointer", "n1_odd_shared", "operand", "d_odd_shared", "execute"}
  BY DEF OperandFetch, Immediate, Direct, Indirect, PointerEven, PointerOdd, PointerOddShared,
         OperandEven, OperandOdd, OperandOddShared, Pointer, Goto
<1>3. /\ pc' = pc /\ mem' = mem /\ sp' = sp /\ reg' = reg /\ status' = status
      /\ is' = is /\ os' = os /\ Instr' = Instr
  BY <1>1 DEF Addressing, registers, fetch, Instr
<1>4. /\ mem = begun.mem /\ sp = begun.sp /\ reg = begun.reg /\ status = begun.status
      /\ begun.stopped = FALSE
      /\ pc = Simulator!AfterNonunary /\ os = Simulator!OperandSpecifier
      /\ Instr.op \notin Unary \cup Traps /\ is \in Simulator!Specifier
  <2>1. begun.stopped \in BOOLEAN
    BY <1>0 DEF TypeOk, Snapshot
  <2>2. QED
    BY <1>1, <2>1 DEF RInv, BegunInv, FetchInv, PInv, MemInv, Straight
<1>5. /\ os \in Word /\ sp \in Word /\ reg["X"] \in Word /\ mem \in [Word -> Byte]
      /\ t4 \in Word /\ t5 \in Word
      /\ PointerAddress \in Word
      /\ PointerAddress' = PointerAddress
  <2>1. os \in Word /\ sp \in Word /\ reg["X"] \in Word /\ mem \in [Word -> Byte]
        /\ t4 \in Word /\ t5 \in Word
    BY <1>0 DEF TypeOk
  <2>2. PointerAddress' = PointerAddress
    BY <1>1, <1>3 DEF PointerAddress
  <2>3. QED
    BY <1>4, <2>1, <2>2, PlusType DEF PointerAddress
<1>6. \A mode : /\ Simulator!Address(mode)' = Simulator!Address(mode)
                /\ Simulator!OperandWord(mode)' = Simulator!OperandWord(mode)
  BY <1>1 DEF Simulator!Address, Simulator!OperandWord, Simulator!OperandSpecifier
<1>7. /\ Simulator!AfterNonunary' = Simulator!AfterNonunary
      /\ Simulator!OperandSpecifier' = Simulator!OperandSpecifier
      /\ Simulator!Specifier' = Simulator!Specifier
  BY <1>1 DEF Simulator!AfterNonunary, Simulator!OperandSpecifier, Simulator!Specifier
<1>8. BegunInv' /\ FetchInv'
  BY <1>1, <1>2, <1>3, <1>4, <1>7 DEF BegunInv, FetchInv
<1>9. SecondHalfInv' /\ SaveInv' /\ RestoreInv'
  BY <1>2 DEF SecondHalfInv, SaveInv, Saving, RestoreInv
<1>10. SUFFICES AddressInv' /\ ExecuteInv'
  BY <1>1, <1>8, <1>9 DEF RInv
\* The address of a deferred operand, when its pointer has been read.
<1>11. ASSUME Instr.mode \in {"n", "sf", "sfx"}, Pointer(WordAt(mem, PointerAddress))
       PROVE  AddressInv' /\ ExecuteInv'
  <2>1. at' = "operand"
    BY <1>11 DEF Pointer, Goto
  <2>2. t5' = Simulator!Address(Instr.mode)
    BY <1>4, <1>11, AddressOfMode DEF Pointer, PointerAddress
  <2>3. QED
    BY <1>3, <1>6, <1>11, <2>1, <2>2 DEF AddressInv, ExecuteInv
\* The operand has been read from its address.
<1>12. ASSUME t6' = WordAt(mem, t5), t5' = t5, at' = "execute",
              Instr.mode # "i", t5 = Simulator!Address(Instr.mode)
       PROVE  AddressInv' /\ ExecuteInv'
  <2>1. t6' = Simulator!OperandWord(Instr.mode)
    BY <1>4, <1>12, SameMachine DEF Simulator!OperandWord
  <2>2. OperandReady'
    BY <1>1, <1>3, <1>4, <1>6, <1>7, <1>12, <2>1 DEF OperandReady
  <2>3. QED
    BY <1>3, <1>4, <1>12, <2>2 DEF AddressInv, ExecuteInv
<1>13. CASE Immediate
  <2>1. at' = "execute" /\ t6' = os /\ Instr.mode = "i"
    BY <1>13 DEF Immediate, Goto
  <2>2. os = Simulator!OperandWord(Instr.mode)
    BY <1>4, <2>1 DEF Simulator!OperandWord
  <2>3. OperandReady'
    BY <1>3, <1>4, <1>6, <1>7, <2>1, <2>2 DEF OperandReady
  <2>4. QED
    BY <1>3, <1>4, <2>1, <2>3 DEF AddressInv, ExecuteInv
<1>14. CASE Direct
  <2>1. at' = "operand" /\ Instr.mode \in {"d", "s", "x", "sx"}
    BY <1>14 DEF Direct, Goto
  <2>2. t5' = Simulator!Address(Instr.mode)
    BY <1>4, <1>14, <2>1, AddressOfMode DEF Direct
  <2>3. QED
    BY <1>3, <1>6, <2>1, <2>2 DEF AddressInv, ExecuteInv
<1>15. CASE Indirect
  BY <1>3, <1>4, <1>5, <1>15 DEF Indirect, Goto, AddressInv, ExecuteInv, PointerAddress
<1>16. CASE PointerEven
  <2>1. Instr.mode \in {"n", "sf", "sfx"} /\ t4 = PointerAddress /\ ~Odd(t4)
    BY <1>16 DEF PointerEven, RInv, AddressInv
  <2>2. Pointer(WordAt(mem, PointerAddress))
    BY <1>0, <1>5, <1>16, <2>1, EvenWord DEF PointerEven
  <2>3. QED
    BY <1>11, <2>1, <2>2
<1>17. CASE PointerOdd
  <2>1. Instr.mode \in {"n", "sf", "sfx"} /\ t4 = PointerAddress /\ Odd(t4)
    BY <1>17 DEF PointerOdd, RInv, AddressInv
  <2>2. held' = begun.mem[PointerAddress] /\ t4' = Plus(PointerAddress, 1) /\ at' = "n1_odd_shared"
    BY <1>0, <1>4, <1>5, <1>17, <2>1, OddWord DEF PointerOdd, Goto
  <2>3. QED
    BY <1>1, <1>3, <1>5, <2>1, <2>2 DEF AddressInv, ExecuteInv, Odd
<1>18. CASE PointerOddShared
  <2>1. /\ Instr.mode \in {"n", "sf", "sfx"} /\ Odd(PointerAddress)
        /\ t4 = Plus(PointerAddress, 1) /\ held = mem[PointerAddress]
    BY <1>4, <1>18 DEF PointerOddShared, RInv, AddressInv
  <2>2. Pointer(WordAt(mem, PointerAddress))
    BY <1>0, <1>5, <1>18, <2>1, OddWord DEF PointerOddShared
  <2>3. QED
    BY <1>11, <2>1, <2>2
<1>19. CASE OperandEven
  <2>1. Instr.mode # "i" /\ t5 = Simulator!Address(Instr.mode) /\ ~Odd(t5)
    BY <1>19 DEF OperandEven, RInv, AddressInv
  <2>2. t6' = WordAt(mem, t5) /\ t5' = t5 /\ at' = "execute"
    BY <1>0, <1>5, <1>19, <2>1, EvenWord DEF OperandEven, Goto
  <2>3. QED
    BY <1>12, <2>1, <2>2
<1>20. CASE OperandOdd
  <2>1. Instr.mode # "i" /\ t5 = Simulator!Address(Instr.mode) /\ Odd(t5)
    BY <1>20 DEF OperandOdd, RInv, AddressInv
  <2>2. held' = begun.mem[t5] /\ t4' = Plus(t5, 1) /\ t5' = t5 /\ at' = "d_odd_shared"
    BY <1>0, <1>4, <1>5, <1>20, <2>1, OddWord DEF OperandOdd, Goto
  <2>3. QED
    BY <1>1, <1>3, <1>6, <2>1, <2>2 DEF AddressInv, ExecuteInv, Odd
<1>21. CASE OperandOddShared
  <2>1. /\ Instr.mode # "i" /\ t5 = Simulator!Address(Instr.mode) /\ Odd(t5)
        /\ t4 = Plus(t5, 1) /\ held = mem[t5]
    BY <1>4, <1>21 DEF OperandOddShared, RInv, AddressInv
  <2>2. t6' = WordAt(mem, t5) /\ t5' = t5 /\ at' = "execute"
    BY <1>0, <1>5, <1>21, <2>1, OddWord DEF OperandOddShared, Goto
  <2>3. QED
    BY <1>12, <2>1, <2>2
<1>22. QED
  BY <1>13, <1>14, <1>15, <1>16, <1>17, <1>18, <1>19, <1>20, <1>21 DEF OperandFetch

-----------------------------------------------------------------------------
(* Instructions of one step.                                               *)

\* When an instruction executes, nothing has changed yet but pc.
LEMMA WhenExecuting ==
  ASSUME PInv, RInv, at = "execute"
  PROVE  /\ TypeOk
         /\ sp = begun.sp /\ reg = begun.reg /\ status = begun.status /\ mem = begun.mem
         /\ begun.stopped = FALSE /\ is \in Simulator!Specifier
         /\ Instr.op \in Unary \cup Traps => pc = Simulator!AfterUnary
         /\ Instr.op \notin Unary \cup Traps => OperandReady
<1>1. begun.stopped \in BOOLEAN
  BY DEF PInv, TypeOk, Snapshot
<1>2. QED
  BY <1>1 DEF PInv, MemInv, RInv, BegunInv, FetchInv, ExecuteInv, Straight

\* The state that the next instruction begins in.
LEMMA EndState ==
  ASSUME NEW label, EndAt(label)
  PROVE  /\ begun'.pc = pc' /\ begun'.sp = sp' /\ begun'.reg = reg'
         /\ begun'.status = status' /\ begun'.mem = mem' /\ begun'.old = begun.mem
         /\ begun'.stopped = (label = "stopped")
  BY DEF EndAt

LEMMA EndStates ==
  /\ EndAt("start") => begun'.stopped = FALSE
  /\ EndAt("stopped") => begun'.stopped = TRUE
<1>1. ("start" = "stopped") = FALSE /\ ("stopped" = "stopped") = TRUE
  OBVIOUS
<1>2. EndAt("start") => begun'.stopped = ("start" = "stopped")
  BY EndState
<1>3. EndAt("stopped") => begun'.stopped = ("stopped" = "stopped")
  BY EndState
<1>4. QED
  BY <1>1, <1>2, <1>3

\* What the microprogram has computed when it ends an instruction is the
\* simulator's next state.
LEMMA Completes ==
  ASSUME RInv, at \notin {"start", "stopped"},
         EndAt("start") \/ EndAt("stopped"),
         Simulator!Execute(Instr) \/ Simulator!Trap(Instr, is)
  PROVE  RInv' /\ Simulator!Next
<1>1. /\ at' \in {"start", "stopped"}
      /\ begun' = [pc |-> pc', sp |-> sp', reg |-> reg', status |-> status', mem |-> mem',
                   old |-> begun.mem, stopped |-> at' = "stopped"]
  BY DEF EndAt
<1>2. RInv'
  BY <1>1 DEF RInv, BegunInv, FetchInv, AddressInv, ExecuteInv, SecondHalfInv, SaveInv, Saving,
     RestoreInv, Straight
<1>3. ~begun.stopped /\ is \in Simulator!Specifier
  BY DEF RInv, BegunInv, FetchInv
<1>4. Simulator!Next
  BY <1>1, <1>3 DEF Simulator!Next, Instr
<1>5. QED
  BY <1>2, <1>4

\* The simulator's operand bytes are those of the word in T6.
LEMMA OperandBytes ==
  ASSUME TypeOk, mem = begun.mem, OperandReady, Instr.op \notin Stores \/ Instr.mode # "i"
  PROVE  Simulator!OperandByte(Instr.mode) = IF Instr.mode = "i" THEN Lo(t6) ELSE Hi(t6)
<1>1. t5 \in Word /\ mem \in [Word -> Byte]
  BY DEF TypeOk
<1>2. QED
  BY <1>1, WordAtParts, SameMachine DEF Simulator!OperandByte, OperandReady

LEMMA UnaryFollows ==
  PInv /\ RInv /\ (StopCPU \/ MovSpA \/ MovFlgA \/ MovAFlg) => RInv' /\ Simulator!Next
<1> SUFFICES ASSUME PInv, RInv, StopCPU \/ MovSpA \/ MovFlgA \/ MovAFlg
             PROVE  RInv' /\ Simulator!Next
  OBVIOUS
<1>1. /\ at = "execute" /\ Instr.op \in Unary
      /\ EndAt("start") \/ EndAt("stopped")
  BY DEF StopCPU, MovSpA, MovFlgA, MovAFlg, Executing, EndInstruction, Unary
<1>2. /\ sp = begun.sp /\ reg = begun.reg /\ status = begun.status /\ mem = begun.mem
      /\ pc = Simulator!AfterUnary
  BY <1>1, WhenExecuting
<1>3. /\ begun'.pc = pc' /\ begun'.sp = sp' /\ begun'.reg = reg' /\ begun'.status = status'
      /\ begun'.mem = mem'
  BY <1>1, EndState
<1>4. /\ begun.stopped = FALSE
      /\ EndAt("start") => begun'.stopped = FALSE
      /\ EndAt("stopped") => begun'.stopped = TRUE
  BY <1>1, WhenExecuting, EndStates
<1>5. SUFFICES Simulator!Execute(Instr)
  BY <1>1, Completes
<1>6. CASE StopCPU
  <2>1. Simulator!Stop(Instr)
    BY <1>2, <1>3, <1>4, <1>6 DEF StopCPU, Simulator!Stop, Executing, registers
  <2>2. QED
    BY <2>1 DEF Simulator!Execute
<1>7. CASE MovSpA
  <2>1. Simulator!MoveSpToA(Instr)
    BY <1>2, <1>3, <1>4, <1>7 DEF MovSpA, Simulator!MoveSpToA, Executing, EndInstruction
  <2>2. QED
    BY <2>1 DEF Simulator!Execute
<1>8. CASE MovFlgA
  <2>1. Simulator!MoveFlagsToA(Instr)
    BY <1>2, <1>3, <1>4, <1>8, SameMachine
       DEF MovFlgA, Simulator!MoveFlagsToA, Executing, EndInstruction
  <2>2. QED
    BY <2>1 DEF Simulator!Execute
<1>9. CASE MovAFlg
  <2>1. Simulator!MoveAToFlags(Instr)
    BY <1>2, <1>3, <1>4, <1>9, SameMachine
       DEF MovAFlg, Simulator!MoveAToFlags, Executing, EndInstruction
  <2>2. QED
    BY <2>1 DEF Simulator!Execute
<1>10. QED
  BY <1>6, <1>7, <1>8, <1>9

LEMMA ControlFollows ==
  PInv /\ RInv /\ (Branch \/ BranchTaken \/ BranchNotTaken) => RInv' /\ Simulator!Next
<1> SUFFICES ASSUME PInv, RInv, Branch \/ BranchTaken \/ BranchNotTaken
             PROVE  RInv' /\ Simulator!Next
  OBVIOUS
<1>1. at = "execute" /\ Instr.op \in {"BR"} \cup Conditionals /\ EndAt("start")
  BY DEF Branch, BranchTaken, BranchNotTaken, Executing, EndInstruction
<1>2. /\ sp = begun.sp /\ reg = begun.reg /\ status = begun.status /\ mem = begun.mem
      /\ pc = Simulator!AfterNonunary /\ t6 = Simulator!OperandWord(Instr.mode)
  BY <1>1, WhenExecuting
     DEF OperandReady, Conditionals, Unary, Traps, UnaryTraps, NonunaryTraps
<1>3. /\ begun'.pc = pc' /\ begun'.sp = sp' /\ begun'.reg = reg' /\ begun'.status = status'
      /\ begun'.mem = mem' /\ begun'.stopped = begun.stopped
  BY <1>1, WhenExecuting, EndState, EndStates
<1>4. sp' = sp /\ reg' = reg /\ status' = status /\ mem' = mem
  BY DEF Branch, BranchTaken, BranchNotTaken, registers
<1>5. SUFFICES Simulator!Branch(Instr) \/ Simulator!BranchIf(Instr)
  BY <1>1, Completes DEF Simulator!Execute
<1>6. CASE Branch
  BY <1>2, <1>3, <1>4, <1>6 DEF Branch, Executing, Simulator!Branch
<1>7. Instr.op \in Conditionals => Simulator!Taken(Instr.op) = Condition(Instr.op)
  BY <1>2 DEF Simulator!Taken, Condition, Conditionals
<1>8. CASE BranchTaken \/ BranchNotTaken
  <2>1. Instr.op \in Simulator!Conditionals
    BY <1>8 DEF BranchTaken, BranchNotTaken, Executing, Conditionals, Simulator!Conditionals
  <2>2. pc' = IF Condition(Instr.op) THEN t6 ELSE pc
    BY <1>8 DEF BranchTaken, BranchNotTaken
  <2>3. Instr.op \in Conditionals
    BY <1>8 DEF BranchTaken, BranchNotTaken, Executing
  <2>4. QED
    BY <1>2, <1>3, <1>4, <1>7, <2>1, <2>2, <2>3 DEF Simulator!BranchIf
<1>9. QED
  BY <1>6, <1>8

\* The subtraction of two words byte by byte may lose the carry of the low byte.
LEMMA SubtractWords ==
  ASSUME NEW a \in Word, NEW b \in Word
  PROVE  LET low == ALU("ApnBp1", Lo(a), Lo(b), 0)
             high == ALU("ApnBpCin", Hi(a), Hi(b), Bit(low.c))
         IN  Join(high.res, low.res) \in Simulator!Difference(a, b)
<1> DEFINE low == ALU("ApnBp1", Lo(a), Lo(b), 0)
           high == ALU("ApnBpCin", Hi(a), Hi(b), Bit(low.c))
           la == Lo(a)  lb == Lo(b)  ha == Hi(a)  hb == Hi(b)
           B == ByteValues
           lost == la = B - 1 /\ lb = 0
           cin == IF la >= lb /\ ~lost THEN 1 ELSE 0
           d == ha - hb - 1 + cin
           x == ha * B
           y == hb * B
<1>1. /\ la \in 0..B - 1 /\ lb \in 0..B - 1 /\ ha \in 0..B - 1 /\ hb \in 0..B - 1
      /\ B \in Nat \ {0}
      /\ Not(lb, B) = B - 1 - lb /\ Not(hb, B) = B - 1 - hb
      /\ Not(lb, B) \in 0..B - 1 /\ Not(hb, B) \in 0..B - 1
  BY HiType, LoType, ByteAssumption DEF Byte, Not
<1>2. a = x + la /\ b = y + lb
  BY PartsJoin DEF Join
<1>3. low = Sum(la, Not(lb, B), 1, B) /\ high = Sum(ha, Not(hb, B), Bit(low.c), B)
  BY DEF ALU
<1> HIDE DEF low, high, la, lb, ha, hb
<1>4. low.res = IF la >= lb THEN la - lb ELSE la - lb + B
  <2>1. low.res = (la + Not(lb, B) + 1) % B
    BY <1>3 DEF Sum
  <2>2. (la + Not(lb, B) + 1) % B = IF la + Not(lb, B) + 1 >= B
                                  THEN la + Not(lb, B) + 1 - B ELSE la + Not(lb, B) + 1
    BY <1>1, WrapsOnce
  <2>3. QED
    BY <1>1, <2>1, <2>2
<1>5. Bit(low.c) = cin
  <2>1. Sum(la, Not(lb, B), 1, B).c <=>
            la + Not(lb, B) + 1 >= B /\ ~(la = B - 1 /\ Not(lb, B) = B - 1 /\ 1 = 1)
    BY <1>1, CarryOutIsExact
  <2>2. low.c <=> la >= lb /\ ~lost
    BY <1>1, <1>3, <2>1
  <2>3. QED
    BY <2>2 DEF Bit
<1>6. high.res = IF d >= 0 THEN d ELSE d + B
  <2>1. high.res = (ha + Not(hb, B) + cin) % B
    BY <1>3, <1>5 DEF Sum
  <2>2. cin \in {0, 1}
    OBVIOUS
  <2> HIDE DEF cin
  <2>3. (ha + Not(hb, B) + cin) % B = IF ha + Not(hb, B) + cin >= B
                                    THEN ha + Not(hb, B) + cin - B ELSE ha + Not(hb, B) + cin
    BY <1>1, <2>2, WrapsOnce
  <2>4. QED
    BY <1>1, <2>1, <2>2, <2>3
<1>7. /\ x \in Nat /\ y \in Nat /\ Addresses = B * B /\ B * B \in Nat
      /\ (ha - hb) * B = x - y
      /\ (ha - hb - 1) * B = x - y - B
      /\ (ha - hb + B) * B = x - y + B * B
      /\ (ha - hb - 1 + B) * B = x - y - B + B * B
  BY <1>1 DEF Addresses
<1>8. /\ ha >= hb => x >= y
      /\ ha > hb => x >= y + B
      /\ ha < hb => x + B =< y
      /\ y + B =< B * B
  <2>1. ASSUME NEW m \in 0..B, NEW n \in 0..B, m >= n PROVE m * B >= n * B
    BY <1>1, <2>1
  <2>2. (hb + 1) * B = y + B /\ (ha + 1) * B = x + B
    BY <1>1
  <2>3. hb + 1 \in 0..B /\ ha + 1 \in 0..B /\ ha \in 0..B /\ hb \in 0..B /\ B \in 0..B
    BY <1>1
  <2>4. ha > hb => ha * B >= (hb + 1) * B
    BY <2>1, <2>3
  <2>5. ha < hb => hb * B >= (ha + 1) * B
    BY <2>1, <2>3
  <2>6. ha >= hb => ha * B >= hb * B
    BY <2>1, <2>3
  <2>7. B * B >= (hb + 1) * B
    BY <2>1, <2>3
  <2>8. QED
    BY <1>7, <2>2, <2>4, <2>5, <2>6, <2>7
<1>9. high.res * B = x - y - (IF cin = 1 THEN 0 ELSE B) + (IF d >= 0 THEN 0 ELSE B * B)
  BY <1>1, <1>6, <1>7
<1> DEFINE exact == Minus(a, b)
           r == high.res * B
           q == B * B
<1>10. /\ r = x - y - (IF cin = 1 THEN 0 ELSE B) + (IF d >= 0 THEN 0 ELSE q)
       /\ Addresses = q /\ q \in Nat /\ y + B =< q
       /\ x \in Nat /\ y \in Nat
       /\ ha = hb => x = y
       /\ ha > hb => x >= y + B
       /\ ha < hb => x + B =< y
  BY <1>7, <1>8, <1>9
<1> HIDE DEF x, y, r, q
<1>11. CASE ~lost
  <2>1. r + low.res = exact
    BY <1>1, <1>2, <1>4, <1>10, <1>11 DEF Minus
  <2>2. QED
    BY <2>1, SameMachine DEF Simulator!Difference, Join, low, high, r
<1>12. CASE lost
  <2>1. r + low.res = Minus(exact, B)
    BY <1>1, <1>2, <1>4, <1>10, <1>12 DEF Minus
  <2>2. QED
    BY <1>12, <2>1, SameMachine DEF Simulator!Difference, Join, low, high, la, lb, r
<1>13. QED
  BY <1>11, <1>12

LEMMA NonunaryExecutes ==
  ASSUME PInv, RInv, at = "execute", Instr.op \notin Unary \cup Traps, EndAt("start")
  PROVE  /\ sp = begun.sp /\ reg = begun.reg /\ status = begun.status /\ mem = begun.mem
         /\ OperandReady
         /\ begun'.pc = pc' /\ begun'.sp = sp' /\ begun'.reg = reg'
         /\ begun'.status = status' /\ begun'.mem = mem' /\ begun'.stopped = begun.stopped
  BY WhenExecuting, EndState, EndStates

LEMMA NonunaryOps ==
  {"ADDSP", "SUBSP", "LDW", "LDB", "STB", "STW", "CALL"} \cap (Unary \cup Traps) = {}
  BY DEF Unary, Traps, UnaryTraps, NonunaryTraps

LEMMA RegisterFollows ==
  PInv /\ RInv /\ (AddSp \/ SubSp \/ LdW \/ LdB) => RInv' /\ Simulator!Next
<1> SUFFICES ASSUME PInv, RInv, AddSp \/ SubSp \/ LdW \/ LdB
             PROVE  RInv' /\ Simulator!Next
  OBVIOUS
<1>0. TypeOk /\ t6 \in Word
  BY DEF PInv, TypeOk
<1>1. /\ at = "execute" /\ Instr.op \in {"ADDSP", "SUBSP", "LDW", "LDB"} /\ EndAt("start")
      /\ pc' = pc /\ mem' = mem
  BY DEF AddSp, SubSp, LdW, LdB, Executing, EndInstruction
<1>2. /\ sp = begun.sp /\ reg = begun.reg /\ status = begun.status /\ mem = begun.mem
      /\ pc = Simulator!AfterNonunary /\ t6 = Simulator!OperandWord(Instr.mode)
      /\ OperandReady
      /\ begun'.pc = pc' /\ begun'.sp = sp' /\ begun'.reg = reg'
      /\ begun'.status = status' /\ begun'.mem = mem' /\ begun'.stopped = begun.stopped
  BY <1>1, NonunaryExecutes, NonunaryOps DEF OperandReady
<1>3. SUFFICES Simulator!Execute(Instr)
  BY <1>1, Completes
<1>4. CASE AddSp
  <2>1. Simulator!MoveStackPointer(Instr)
    BY <1>1, <1>2, <1>4, SameMachine DEF AddSp, Executing, Simulator!MoveStackPointer
  <2>2. QED
    BY <2>1 DEF Simulator!Execute
<1>5. CASE SubSp
  <2>1. sp' \in Simulator!Difference(sp, t6)
    BY <1>0, <1>5, SubtractWords DEF SubSp, TypeOk
  <2>2. Simulator!MoveStackPointer(Instr)
    BY <1>1, <1>2, <1>5, <2>1 DEF SubSp, Executing, Simulator!MoveStackPointer
  <2>3. QED
    BY <2>2 DEF Simulator!Execute
<1>6. CASE LdW
  <2>1. High(Hi(t6), ByteValues) = Simulator!High(t6, Addresses)
    BY <1>0, WordFlags DEF Simulator!High, High
  <2>2. (Lo(t6) = 0 /\ Hi(t6) = 0) = (t6 = 0)
    BY <1>0, WordFlags
  <2>3. status' = [status EXCEPT !.n = Simulator!High(t6, Addresses), !.z = (t6 = 0)]
    BY <1>6, <2>1, <2>2 DEF LdW
  <2>4. Simulator!LoadWord(Instr)
    BY <1>1, <1>2, <1>6, <2>3, SameMachine DEF LdW, Executing, Simulator!LoadWord
  <2>5. QED
    BY <2>4 DEF Simulator!Execute
<1>7. CASE LdB
  <2>1. Simulator!OperandByte(Instr.mode) = IF Instr.mode = "i" THEN Lo(t6) ELSE Hi(t6)
    BY <1>0, <1>1, <1>2, OperandBytes DEF Stores
  <2>2. Simulator!LoadByte(Instr)
    BY <1>1, <1>2, <1>7, <2>1, SameMachine DEF LdB, Executing, Simulator!LoadByte
  <2>3. QED
    BY <2>2 DEF Simulator!Execute
<1>8. QED
  BY <1>4, <1>5, <1>6, <1>7

-----------------------------------------------------------------------------
(* Instructions that write or read a word in memory.                       *)

\* A word is written in one access or in two, in either order.
LEMMA EvenStored ==
  ASSUME NEW m \in [Word -> Byte], NEW n \in Word, ~Odd(n), NEW w
  PROVE  [m EXCEPT ![n] = Hi(w), ![n + 1] = Lo(w)] = Stored(m, n, w)
  BY Parity DEF Stored

LEMMA OddStored ==
  ASSUME NEW m \in [Word -> Byte], NEW n \in Word, NEW w \in Word
  PROVE  /\ [[m EXCEPT ![n] = Hi(w)] EXCEPT ![Plus(n, 1)] = Lo(w)] = Stored(m, n, w)
         /\ [[m EXCEPT ![Plus(n, 1)] = Lo(w)] EXCEPT ![n] = Hi(w)] = Stored(m, n, w)
<1>1. Plus(n, 1) \in Word /\ Plus(n, 1) # n
  BY PlusType, SmallWords, Parity
<1>2. Hi(w) \in Byte /\ Lo(w) \in Byte
  BY HiType, LoType
<1> DEFINE f == [[m EXCEPT ![n] = Hi(w)] EXCEPT ![Plus(n, 1)] = Lo(w)]
           g == [[m EXCEPT ![Plus(n, 1)] = Lo(w)] EXCEPT ![n] = Hi(w)]
           s == Stored(m, n, w)
<1>3. f = s
  BY DEF Stored
<1>4. f \in [Word -> Byte] /\ g \in [Word -> Byte]
  BY <1>1, <1>2
<1>5. \A k \in Word : f[k] = g[k]
  BY <1>1, <1>2
<1>6. f = g
  <2> HIDE DEF f, g
  <2>1. QED
    BY <1>4, <1>5
<1>7. QED
  BY <1>3, <1>6

LEMMA StoreFollows ==
  PInv /\ RInv /\ (StB \/ StWEven \/ StWOddShared) => RInv' /\ Simulator!Next
<1> SUFFICES ASSUME PInv, RInv, StB \/ StWEven \/ StWOddShared
             PROVE  RInv' /\ Simulator!Next
  OBVIOUS
<1>0. TypeOk /\ Instr \in Instruction /\ (Instr.op \in Stores => Instr.mode # "i")
  BY DecodeType, MachineAssumption DEF PInv, TypeOk, Instr
<1>1. /\ EndAt("start") /\ Instr.op \in {"STB", "STW"}
      /\ pc' = pc /\ sp' = sp /\ reg' = reg /\ status' = status
  BY DEF StB, StWEven, StWOddShared, Executing, EndInstruction, registers, RInv, SecondHalfInv
<1>2. /\ sp = begun.sp /\ reg = begun.reg /\ status = begun.status
      /\ pc = Simulator!AfterNonunary /\ t5 = Simulator!Address(Instr.mode)
      /\ begun'.pc = pc' /\ begun'.sp = sp' /\ begun'.reg = reg'
      /\ begun'.status = status' /\ begun'.mem = mem' /\ begun'.stopped = begun.stopped
  <2>1. CASE at = "execute"
    BY <1>0, <1>1, <2>1, NonunaryExecutes, NonunaryOps DEF OperandReady, Stores
  <2>2. CASE at = "stwr_o"
    <3>1. begun.stopped = FALSE
      BY <1>0, <2>2 DEF RInv, BegunInv, TypeOk, Snapshot
    <3>2. QED
      BY <1>1, <2>2, <3>1, EndState, EndStates DEF RInv, SecondHalfInv
  <2>3. QED
    BY <2>1, <2>2 DEF StB, StWEven, StWOddShared, Executing
<1>3. t5 \in Word /\ begun.mem \in [Word -> Byte] /\ reg[Instr.reg] \in Word
  BY <1>0, BegunTypes DEF TypeOk, Instruction
<1>4. SUFFICES Simulator!Execute(Instr)
  <2>1. at \notin {"start", "stopped"}
    BY DEF StB, StWEven, StWOddShared, Executing
  <2>2. QED
    BY <1>1, <1>4, <2>1, Completes
<1>5. ASSUME at = "execute" PROVE mem = begun.mem
  BY <1>5, WhenExecuting
<1>6. CASE StB
  <2>1. Simulator!StoreByte(Instr)
    BY <1>1, <1>2, <1>5, <1>6, SameMachine DEF StB, Executing, Simulator!StoreByte
  <2>2. QED
    BY <2>1 DEF Simulator!Execute
<1>7. CASE StWEven \/ StWOddShared
  <2>1. mem' = Stored(begun.mem, t5, reg[Instr.reg])
    <3> DEFINE m == begun.mem
               w == reg[Instr.reg]
    <3>1. CASE StWEven
      <4>1. mem' = [m EXCEPT ![t5] = Hi(w), ![t5 + 1] = Lo(w)] /\ ~Odd(t5)
        BY <1>5, <3>1 DEF StWEven, Executing
      <4>2. [m EXCEPT ![t5] = Hi(w), ![t5 + 1] = Lo(w)] = Stored(m, t5, w)
        BY <1>3, <4>1, EvenStored
      <4>3. QED
        BY <4>1, <4>2
    <3>2. CASE StWOddShared
      <4>1. mem' = [[m EXCEPT ![t5] = Hi(w)] EXCEPT ![Plus(t5, 1)] = Lo(w)]
        BY <3>2 DEF StWOddShared, RInv, SecondHalfInv
      <4>2. [[m EXCEPT ![t5] = Hi(w)] EXCEPT ![Plus(t5, 1)] = Lo(w)] = Stored(m, t5, w)
        BY <1>3, OddStored
      <4>3. QED
        BY <4>1, <4>2
    <3>3. QED
      BY <1>7, <3>1, <3>2
  <2>2. Instr.op = "STW"
    BY <1>7 DEF StWEven, StWOddShared, Executing, RInv, SecondHalfInv
  <2>3. Simulator!StoreWord(Instr)
    BY <1>1, <1>2, <2>1, <2>2, SameMachine DEF Simulator!StoreWord
  <2>4. QED
    BY <2>3 DEF Simulator!Execute
<1>8. QED
  BY <1>6, <1>7

LEMMA CallFollows ==
  PInv /\ RInv /\ (CallEven \/ CallOddShared) => RInv' /\ Simulator!Next
<1> SUFFICES ASSUME PInv, RInv, CallEven \/ CallOddShared
             PROVE  RInv' /\ Simulator!Next
  OBVIOUS
<1>0. /\ TypeOk /\ begun.sp \in Word /\ begun.mem \in [Word -> Byte]
      /\ Simulator!AfterNonunary \in Word
  BY BegunTypes DEF PInv
<1> DEFINE m == begun.mem
           n == Minus(begun.sp, 2)
           w == Simulator!AfterNonunary
<1>1. /\ at \in {"execute", "call_o"} /\ EndAt("start")
      /\ Instr.op = "CALL" /\ reg' = reg /\ status' = status
  BY DEF CallEven, CallOddShared, Executing, EndInstruction, registers, RInv, SecondHalfInv
<1>2. n \in Word
  BY <1>0, MinusType, SmallWords
<1>3. begun.stopped = FALSE
  BY <1>0, <1>1 DEF RInv, BegunInv, TypeOk, Snapshot
<1>4. /\ sp' = n /\ pc' = Simulator!OperandWord(Instr.mode)
      /\ reg = begun.reg /\ status = begun.status
      /\ mem' = Stored(m, n, w)
  <2>1. CASE CallEven
    <3>1. /\ at = "execute" /\ ~Odd(sp) /\ sp' = Minus(sp, 2)
          /\ mem' = [mem EXCEPT ![sp'] = Hi(pc), ![sp' + 1] = Lo(pc)]
          /\ pc' = t6
      BY <2>1 DEF CallEven, Executing
    <3>2. /\ sp = begun.sp /\ mem = m /\ pc = w /\ t6 = Simulator!OperandWord(Instr.mode)
          /\ reg = begun.reg /\ status = begun.status
      BY <1>1, <3>1, NonunaryExecutes, NonunaryOps DEF OperandReady
    <3>3. ~Odd(n)
      <4>1. PICK h \in Nat : Addresses = 2 * h
        BY AddressesEven, EvenNumber
      <4>2. QED
        BY <1>0, <3>1, <3>2, <4>1 DEF Minus, Word, Odd
    <3>4. [m EXCEPT ![n] = Hi(w), ![n + 1] = Lo(w)] = Stored(m, n, w)
      BY <1>0, <1>2, <3>3, EvenStored
    <3>5. QED
      BY <3>1, <3>2, <3>4
  <2>2. CASE CallOddShared
    <3>1. /\ sp' = n /\ pc' = Simulator!OperandWord(Instr.mode) /\ Odd(begun.sp)
          /\ reg = begun.reg /\ status = begun.status
          /\ mem' = [[m EXCEPT ![begun.sp - 1] = Lo(w)] EXCEPT ![n] = Hi(w)]
      BY <2>2 DEF CallOddShared, registers, RInv, SecondHalfInv
    <3>2. begun.sp - 1 = Plus(n, 1)
      <4>1. begun.sp \in 0..Addresses - 1 /\ begun.sp # 0 /\ begun.sp # 2
        BY <1>0, <3>1 DEF Word, Odd
      <4>2. n = IF begun.sp = 1 THEN Addresses - 1 ELSE begun.sp - 2
        BY <4>1, Offsets DEF Minus
      <4> HIDE DEF n
      <4>3. QED
        BY <4>1, <4>2, Offsets DEF Plus
    <3>3. [[m EXCEPT ![Plus(n, 1)] = Lo(w)] EXCEPT ![n] = Hi(w)] = Stored(m, n, w)
      BY <1>0, <1>2, OddStored
    <3>4. QED
      BY <3>1, <3>2, <3>3
  <2>3. QED
    BY <2>1, <2>2
<1>5. Simulator!Call(Instr)
  BY <1>1, <1>3, <1>4, EndState, EndStates, SameMachine DEF Simulator!Call
<1>6. QED
  BY <1>1, <1>5, Completes DEF Simulator!Execute

LEMMA ReturnFollows ==
  PInv /\ RInv /\ (RetEven \/ RetOddShared) => RInv' /\ Simulator!Next
<1> SUFFICES ASSUME PInv, RInv, RetEven \/ RetOddShared
             PROVE  RInv' /\ Simulator!Next
  OBVIOUS
<1>0. /\ TypeOk /\ begun.sp \in Word
  BY BegunTypes DEF PInv
<1>1. /\ at \in {"execute", "ret_o"} /\ EndAt("start")
      /\ Instr.op = "RET" /\ reg' = reg /\ status' = status /\ mem' = mem
  BY DEF RetEven, RetOddShared, Executing, EndInstruction, registers, RInv, SecondHalfInv
<1>3. begun.stopped = FALSE
  BY <1>0, <1>1 DEF RInv, BegunInv, TypeOk, Snapshot
<1>4. /\ sp' = Plus(begun.sp, 2) /\ pc' = WordAt(begun.mem, begun.sp)
      /\ reg = begun.reg /\ status = begun.status /\ mem = begun.mem
  <2>1. CASE RetEven
    <3>1. at = "execute" /\ ~Odd(sp) /\ sp' = Plus(sp, 2) /\ pc' = Join(Even(sp), OddByte(sp))
      BY <2>1 DEF RetEven, Executing
    <3>2. /\ sp = begun.sp /\ mem = begun.mem /\ reg = begun.reg /\ status = begun.status
      BY <3>1, WhenExecuting
    <3>3. QED
      BY <1>0, <3>1, <3>2, EvenWord
  <2>2. CASE RetOddShared
    <3>1. /\ sp' = sp /\ sp = Plus(begun.sp, 2) /\ Odd(begun.sp) /\ mem = begun.mem
          /\ reg = begun.reg /\ status = begun.status
          /\ pc' = Join(begun.mem[begun.sp], Even(sp))
      BY <2>2 DEF RetOddShared, registers, RInv, SecondHalfInv
    <3>2. sp - (sp % 2) = Plus(begun.sp, 1)
      <4>1. PICK h \in Nat : Addresses = 2 * h
        BY AddressesEven, EvenNumber
      <4>2. QED
        BY <1>0, <3>1, <4>1, Offsets DEF Plus, Word, Odd
    <3>3. QED
      BY <3>1, <3>2 DEF Even, WordAt
  <2>3. QED
    BY <2>1, <2>2
<1>5. Simulator!Return(Instr)
  BY <1>1, <1>3, <1>4, EndState, EndStates, SameMachine DEF Simulator!Return
<1>6. QED
  BY <1>1, <1>5, Completes DEF Simulator!Execute

\* The first half of an access to a word at an odd address.
LEMMA FirstHalfFollows ==
  PInv /\ RInv /\ (StWOdd \/ CallOdd \/ RetOdd) => RInv' /\ begun' = begun
<1> SUFFICES ASSUME PInv, RInv, StWOdd \/ CallOdd \/ RetOdd
             PROVE  RInv' /\ begun' = begun
  OBVIOUS
<1>0. TypeOk /\ begun.sp \in Word /\ begun.mem \in [Word -> Byte]
  BY BegunTypes DEF PInv
<1>1. /\ at = "execute" /\ begun' = begun /\ is' = is /\ Instr' = Instr
      /\ at' \in {"stwr_o", "call_o", "ret_o"}
  BY DEF StWOdd, CallOdd, RetOdd, Executing, Goto, KeepFetch, DropPrefetch, fetch, Instr
<1>2. /\ sp = begun.sp /\ reg = begun.reg /\ status = begun.status /\ mem = begun.mem
      /\ is \in Simulator!Specifier /\ begun.stopped = FALSE
      /\ Instr.op \notin Unary \cup Traps => OperandReady
  BY <1>1, WhenExecuting
<1>3. /\ Simulator!AfterNonunary' = Simulator!AfterNonunary
      /\ Simulator!Specifier' = Simulator!Specifier
      /\ Simulator!Address(Instr.mode)' = Simulator!Address(Instr.mode)
      /\ Simulator!OperandWord(Instr.mode)' = Simulator!OperandWord(Instr.mode)
  BY <1>1 DEF Simulator!AfterNonunary, Simulator!OperandSpecifier, Simulator!Specifier,
     Simulator!Address, Simulator!OperandWord
<1>4. BegunInv' /\ FetchInv'
  BY <1>1, <1>2, <1>3 DEF BegunInv, FetchInv, Straight
<1>5. AddressInv' /\ ExecuteInv' /\ SaveInv' /\ RestoreInv'
  BY <1>1 DEF AddressInv, ExecuteInv, SaveInv, Saving, RestoreInv
<1>6. SecondHalfInv'
  <2>1. CASE StWOdd
    <3>1. OperandReady /\ Instr.op = "STW" /\ Instr.mode # "i"
      BY <1>0, <1>2, <2>1, NonunaryOps, MachineAssumption
         DEF StWOdd, Executing, Stores, TypeOk, Instr
    <3>2. QED
      BY <1>1, <1>2, <1>3, <2>1, <3>1
         DEF StWOdd, Goto, registers, SecondHalfInv, OperandReady
  <2>2. CASE CallOdd
    <3>1. OperandReady /\ Instr.op = "CALL"
      BY <1>2, <2>2, NonunaryOps DEF CallOdd, Executing
    <3>2. QED
      BY <1>1, <1>2, <1>3, <2>2, <3>1 DEF CallOdd, Goto, SecondHalfInv, OperandReady, Odd
  <2>3. CASE RetOdd
    <3>1. OddByte(sp) = begun.mem[begun.sp]
      BY <1>0, <1>2, <2>3, OddWord DEF RetOdd
    <3>2. QED
      BY <1>1, <1>2, <2>3, <3>1 DEF RetOdd, Executing, Goto, SecondHalfInv, Odd
  <2>4. QED
    BY <2>1, <2>2, <2>3
<1>7. QED
  BY <1>1, <1>4, <1>5, <1>6 DEF RInv

-----------------------------------------------------------------------------
(* Traps.                                                                  *)

LEMMA Half == ASSUME NEW n \in Nat PROVE \E q \in Nat : n = 2 * q \/ n = 2 * q + 1
<1>1. /\ n \div 2 \in Nat /\ n % 2 \in {0, 1}
      /\ n = 2 * (n \div 2) + (n % 2)
  OBVIOUS
<1>2. QED
  BY <1>1

\* The words of the frame, from the top, are aligned whatever the top is.
LEMMA FrameAddress ==
  ASSUME Top \in Word, NEW k \in {2, 4, 6, 8, 10}, NEW t, t = Minus(Top, 11 - k)
  PROVE  /\ Base \in Word
         /\ t - (t % 2) = Plus(Base, k - 2) /\ t - (t % 2) + 1 = Plus(Base, k - 1)
         /\ Minus(t, 2) = Minus(Top, 13 - k)
         /\ k = 2 => Minus(t, 1) = Minus(Top, 10)
<1>1. PICK h \in Nat : Addresses = 2 * h
  BY AddressesEven, EvenNumber
<1>2. Top \in Nat /\ Top < Addresses /\ Addresses \in Nat /\ Addresses > 15
  BY Offsets DEF Word
<1>3. PICK q \in Nat : Top = 2 * q \/ Top = 2 * q + 1
  BY <1>2, Half
<1> HIDE DEF Top
<1>4. Base = IF Top = 2 * q THEN Minus(Top, 10) ELSE Minus(Top, 9)
  <2>1. Top % 2 = IF Top = 2 * q THEN 0 ELSE 1
    BY <1>3
  <2>2. QED
    BY <1>2, <1>3, <2>1 DEF Base, Minus, Plus
<1>5. Base \in Word
  BY <1>2, <1>4 DEF Minus, Word
<1>6. t % 2 = IF Top = 2 * q THEN 1 ELSE 0
  BY <1>1, <1>2, <1>3 DEF Minus
<1>7. t - (t % 2) = Plus(Base, k - 2) /\ t - (t % 2) + 1 = Plus(Base, k - 1)
  BY <1>1, <1>2, <1>3, <1>4, <1>6 DEF Minus, Plus
<1>8. Minus(t, 2) = Minus(Top, 13 - k) /\ (k = 2 => Minus(t, 1) = Minus(Top, 10))
  BY <1>2 DEF Minus
<1>9. QED
  BY <1>5, <1>7, <1>8

LEMMA TopType ==
  ASSUME TypeOk
  PROVE  Top \in Word /\ Base \in Word
<1>1. \A n \in Word : WordAt(begun.mem, n) \in Word
  BY BegunTypes, SmallWords, PlusType, JoinType DEF WordAt
<1>2. Top \in Word
  BY <1>1, VectorTypes DEF Top
<1>3. QED
  BY <1>2, FrameAddress

\* The offset of a byte of the frame.
LEMMA FrameOffset ==
  ASSUME NEW b \in Word, NEW k \in 0..9, NEW n \in Word
  PROVE  /\ Plus(b, k) \in Word /\ Minus(n, b) \in Word
         /\ Minus(n, b) = k <=> n = Plus(b, k)
  BY Offsets DEF Word, Plus, Minus

\* A step writes the next word of the frame.
LEMMA SavedMore ==
  ASSUME TypeOk, NEW k \in {2, 4, 6, 8, 10}, mem = SavedFrom(k), t4 = Minus(Top, 11 - k),
         mem' = [mem EXCEPT ![t4 - (t4 % 2)] = Frame[k - 1], ![t4 - (t4 % 2) + 1] = Frame[k]]
  PROVE  mem' = SavedFrom(k - 2)
<1> DEFINE a == Plus(Base, k - 2)
           b == Plus(Base, k - 1)
<1>1. Base \in Word /\ t4 - (t4 % 2) = a /\ t4 - (t4 % 2) + 1 = b
  BY TopType, FrameAddress
<1>2. a \in Word /\ b \in Word
  BY <1>1, FrameOffset
<1>3. mem' = [mem EXCEPT ![a] = Frame[k - 1], ![b] = Frame[k]]
  BY <1>1
<1>4. ASSUME NEW n \in Word
      PROVE  /\ Minus(n, Base) \in Nat
             /\ Minus(n, Base) = k - 2 <=> n = a
             /\ Minus(n, Base) = k - 1 <=> n = b
  <2>1. k - 2 \in 0..9 /\ k - 1 \in 0..9
    OBVIOUS
  <2>2. Minus(n, Base) \in Word /\ (Minus(n, Base) = k - 2 <=> n = a)
    BY <1>1, <2>1, FrameOffset
  <2>3. Minus(n, Base) = k - 1 <=> n = b
    BY <1>1, <2>1, FrameOffset
  <2>4. QED
    BY <2>2, <2>3 DEF Word
<1> HIDE DEF a, b
<1>5. ASSUME NEW n \in Word PROVE mem'[n] = SavedFrom(k - 2)[n]
  <2>1. mem[n] = IF Minus(n, Base) \in k..9 THEN Frame[Minus(n, Base) + 1] ELSE begun.mem[n]
    BY DEF SavedFrom
  <2>2. SavedFrom(k - 2)[n] = IF Minus(n, Base) \in (k - 2)..9
                              THEN Frame[Minus(n, Base) + 1] ELSE begun.mem[n]
    BY DEF SavedFrom
  <2> DEFINE o == Minus(n, Base)
  <2>3. /\ o \in Nat
        /\ o = k - 2 <=> n = a
        /\ o = k - 1 <=> n = b
    BY <1>4
  <2> HIDE DEF o
  <2>4. CASE o = k - 2
    <3>1. mem'[n] = Frame[k - 1] /\ o + 1 = k - 1 /\ o \in (k - 2)..9
      <4>1. a # b
        BY <2>3, <2>4
      <4>2. QED
        BY <1>2, <1>3, <2>3, <2>4, <4>1 DEF TypeOk
    <3>2. QED
      BY <2>2, <3>1 DEF o
  <2>5. CASE o = k - 1
    <3>1. mem'[n] = Frame[k] /\ o + 1 = k /\ o \in (k - 2)..9
      BY <1>2, <1>3, <2>3, <2>5 DEF TypeOk
    <3>2. QED
      BY <2>2, <3>1 DEF o
  <2>6. CASE o # k - 2 /\ o # k - 1
    <3>1. mem'[n] = mem[n]
      BY <1>3, <2>3, <2>6 DEF TypeOk
    <3>2. o \in k..9 <=> o \in (k - 2)..9
      BY <2>3, <2>6
    <3>3. QED
      BY <2>1, <2>2, <3>1, <3>2 DEF o
  <2>7. QED
    BY <2>4, <2>5, <2>6
<1>6. /\ DOMAIN mem' = Word /\ DOMAIN SavedFrom(k - 2) = Word
      /\ mem' = [n \in Word |-> mem'[n]]
      /\ SavedFrom(k - 2) = [n \in Word |-> SavedFrom(k - 2)[n]]
  BY <1>3 DEF TypeOk, SavedFrom
<1>7. QED
  BY <1>5, <1>6

LEMMA TrapFollows ==
  PInv /\ RInv /\ (TrapCall \/ SaveIS \/ SaveSP \/ SavePC \/ SaveX \/ SaveA)
      => RInv' /\ begun' = begun
<1> SUFFICES ASSUME PInv, RInv, TrapCall \/ SaveIS \/ SaveSP \/ SavePC \/ SaveX \/ SaveA
             PROVE  RInv' /\ begun' = begun
  OBVIOUS
<1>0. TypeOk /\ TypeOk'
  BY SwitchTypes DEF PInv, ContextSwitch
<1> DEFINE Places == {"save_is", "save_sp", "save_pc", "save_x", "save_a", "enter"}
<1>1. /\ begun' = begun /\ is' = is /\ Instr' = Instr
      /\ at \in {"execute"} \cup Places /\ at' \in Places
      /\ pc' = pc /\ reg' = reg /\ status' = status
  BY DEF TrapCall, Save, SaveIS, SaveSP, SavePC, SaveX, SaveA, Executing, Goto, KeepFetch,
     DropPrefetch, fetch, registers, Instr
<1>2. /\ reg = begun.reg /\ status = begun.status
      /\ begun.stopped = FALSE /\ is \in Simulator!Specifier
      /\ Instr.op \in Traps /\ pc = Simulator!AfterUnary
      /\ sp = begun.sp
  <2>1. CASE TrapCall
    BY <2>1, WhenExecuting DEF TrapCall, Executing
  <2>2. CASE ~TrapCall
    <3>1. at \in Places \ {"enter"}
      BY <2>2 DEF SaveIS, SaveSP, SavePC, SaveX, SaveA
    <3>2. QED
      BY <1>0, <3>1 DEF RInv, BegunInv, FetchInv, SaveInv, TypeOk, Snapshot
  <2>3. QED
    BY <2>1, <2>2
<1>3. /\ Simulator!AfterUnary' = Simulator!AfterUnary
      /\ Simulator!Specifier' = Simulator!Specifier
      /\ Top' = Top /\ \A k : SavedFrom(k)' = SavedFrom(k)
  BY <1>1 DEF Simulator!AfterUnary, Simulator!Specifier, Top, SavedFrom, Base, Frame
<1>4. BegunInv' /\ FetchInv'
  BY <1>1, <1>2, <1>3 DEF BegunInv, FetchInv, Straight
<1>5. AddressInv' /\ ExecuteInv' /\ SecondHalfInv' /\ RestoreInv'
  BY <1>1 DEF AddressInv, ExecuteInv, SecondHalfInv, RestoreInv
<1>6. SUFFICES SaveInv'
  BY <1>1, <1>4, <1>5 DEF RInv
<1>7. Top \in Word
  BY <1>0, TopType
<1>8. CASE TrapCall
  <2>1. t4' = Minus(Top, 1) /\ at' = "save_is" /\ mem' = mem /\ mem = begun.mem /\ sp' = sp
    BY <1>8, WhenExecuting DEF TrapCall, Executing, Goto, Top, registers
  <2>2. SavedFrom(10) = begun.mem
    <3>1. \A n \in Word : Minus(n, Base) \notin 10..9
      OBVIOUS
    <3>2. begun.mem = [n \in Word |-> begun.mem[n]]
      BY <1>0, BegunTypes
    <3>3. QED
      BY <3>1, <3>2 DEF SavedFrom
  <2>3. QED
    BY <1>1, <1>2, <1>3, <2>1, <2>2 DEF SaveInv, Saving
\* One step that writes a word of the frame.
<1>9. ASSUME NEW k \in {2, 4, 6, 8, 10}, NEW label, NEW next,
             Saving(label, k), at = label,
             Save(next, Frame[k - 1], Frame[k])
      PROVE  /\ mem' = SavedFrom(k - 2) /\ t4' = Minus(Top, 13 - k) /\ at' = next
             /\ k = 2 => Minus(t4, 1) = Minus(Top, 10)
  <2>1. mem = SavedFrom(k) /\ t4 = Minus(Top, 11 - k)
    BY <1>9 DEF Saving
  <2>2. mem' = SavedFrom(k - 2)
    BY <1>0, <1>9, <2>1, SavedMore DEF Save
  <2>3. Minus(t4, 2) = Minus(Top, 13 - k) /\ (k = 2 => Minus(t4, 1) = Minus(Top, 10))
    BY <1>7, <2>1, FrameAddress
  <2>4. QED
    BY <1>9, <2>2, <2>3 DEF Save, Goto
<1>10. /\ Frame[1] = StatusByte(status) /\ Frame[2] = Hi(reg["A"]) /\ Frame[3] = Lo(reg["A"])
       /\ Frame[4] = Hi(reg["X"]) /\ Frame[5] = Lo(reg["X"])
       /\ Frame[6] = Hi(pc) /\ Frame[7] = Lo(pc) /\ Frame[8] = Hi(sp) /\ Frame[9] = Lo(sp)
       /\ Frame[10] = is
  BY <1>2 DEF Frame
<1>11. CASE SaveIS
  <2>1. Save("save_sp", Frame[9], Frame[10]) /\ at = "save_is" /\ Saving("save_is", 10)
    BY <1>10, <1>11 DEF SaveIS, RInv, SaveInv
  <2>2. mem' = SavedFrom(8) /\ t4' = Minus(Top, 3) /\ at' = "save_sp"
    BY <1>9, <2>1
  <2>3. QED
    BY <1>1, <1>2, <1>3, <1>11, <2>2 DEF SaveIS, SaveInv, Saving
<1>12. CASE SaveSP
  <2>1. Save("save_pc", Frame[7], Frame[8]) /\ at = "save_sp" /\ Saving("save_sp", 8)
    BY <1>10, <1>12 DEF SaveSP, RInv, SaveInv
  <2>2. mem' = SavedFrom(6) /\ t4' = Minus(Top, 5) /\ at' = "save_pc"
    BY <1>9, <2>1
  <2>3. QED
    BY <1>1, <1>2, <1>3, <1>12, <2>2 DEF SaveSP, SaveInv, Saving
<1>13. CASE SavePC
  <2>1. Save("save_x", Frame[5], Frame[6]) /\ at = "save_pc" /\ Saving("save_pc", 6)
    BY <1>10, <1>13 DEF SavePC, RInv, SaveInv
  <2>2. mem' = SavedFrom(4) /\ t4' = Minus(Top, 7) /\ at' = "save_x"
    BY <1>9, <2>1
  <2>3. Lo(t5') = StatusByte(begun.status)
    <3>1. Hi(t5) \in Byte /\ StatusByte(status) \in Byte
      BY <1>0, HiType, StatusByteType DEF TypeOk
    <3>2. QED
      BY <1>2, <1>13, <3>1, JoinParts DEF SavePC
  <2>4. QED
    BY <1>1, <1>2, <1>3, <1>13, <2>2, <2>3 DEF SavePC, SaveInv, Saving
<1>14. CASE SaveX
  <2>1. Save("save_a", Frame[3], Frame[4]) /\ at = "save_x" /\ Saving("save_x", 4)
    BY <1>10, <1>14 DEF SaveX, RInv, SaveInv
  <2>2. mem' = SavedFrom(2) /\ t4' = Minus(Top, 9) /\ at' = "save_a"
    BY <1>9, <2>1
  <2>3. Lo(t5') = StatusByte(begun.status)
    BY <1>14 DEF SaveX, RInv, SaveInv
  <2>4. QED
    BY <1>1, <1>2, <1>3, <1>14, <2>2, <2>3 DEF SaveX, SaveInv, Saving
<1>15. CASE SaveA
  <2>1. Save("enter", Frame[1], Frame[2]) /\ at = "save_a" /\ Saving("save_a", 2)
    BY <1>2, <1>10, <1>15 DEF SaveA, RInv, SaveInv
  <2>2. mem' = SavedFrom(0) /\ at' = "enter" /\ Minus(t4, 1) = Minus(Top, 10)
    BY <1>9, <2>1
  <2>3. QED
    BY <1>1, <1>2, <1>3, <1>15, <2>2 DEF SaveA, SaveInv, Saving
<1>16. QED
  BY <1>8, <1>11, <1>12, <1>13, <1>14, <1>15

LEMMA HandlerFollows == PInv /\ RInv /\ EnterHandler => RInv' /\ Simulator!Next
<1> SUFFICES ASSUME PInv, RInv, EnterHandler PROVE RInv' /\ Simulator!Next
  OBVIOUS
<1>0. TypeOk
  BY DEF PInv
<1>1. /\ at = "enter" /\ EndAt("start") /\ pc' = WordAt(mem, Addresses - 2)
      /\ sp' = sp /\ reg' = reg /\ status' = status /\ mem' = mem
  BY DEF EnterHandler, EndInstruction, registers
<1>2. /\ Instr.op \in Traps /\ pc = Simulator!AfterUnary
      /\ sp = Minus(Top, 10) /\ reg = begun.reg /\ status = begun.status
      /\ mem = SavedFrom(0)
  BY <1>1 DEF RInv, SaveInv
<1>3. begun.stopped = FALSE
  BY <1>0, <1>1 DEF RInv, BegunInv, TypeOk, Snapshot
<1>4. /\ begun'.pc = WordAt(mem, Addresses - 2) /\ begun'.sp = Minus(Top, 10)
      /\ begun'.reg = begun.reg /\ begun'.status = begun.status
      /\ begun'.mem = SavedFrom(0) /\ begun'.stopped = begun.stopped
  BY <1>1, <1>2, <1>3, EndState, EndStates
<1>5. /\ Minus(Addresses - 1, 9) = Addresses - 10 /\ Minus(Addresses - 1, 1) = Addresses - 2
  BY Offsets DEF Minus
<1>6. Top \in Word /\ Base \in Word
  BY <1>0, TopType
<1>7. Base = Plus(Minus(Top, 10), Minus(Top, 10) % 2)
  <2>1. PICK h \in Nat : Addresses = 2 * h
    BY AddressesEven, EvenNumber
  <2>2. Top \in Nat /\ Top < Addresses /\ Addresses \in Nat /\ Addresses > 15
    BY <1>6, Offsets DEF Word
  <2> HIDE DEF Top
  <2>3. PICK q \in Nat : Top = 2 * q \/ Top = 2 * q + 1
    BY <2>2, Half
  <2>4. Minus(Top, 10) % 2 = Top % 2
    BY <2>1, <2>2, <2>3 DEF Minus
  <2>5. QED
    BY <2>4 DEF Base
<1>8. SavedFrom(0) = [n \in Word |-> IF Minus(n, Base) < 10
                                     THEN Frame[Minus(n, Base) + 1] ELSE begun.mem[n]]
  <2>1. \A n \in Word : Minus(n, Base) \in 0..9 <=> Minus(n, Base) < 10
    <3>1. \A n \in Word : Minus(n, Base) \in Nat
      BY <1>6, MinusType DEF Word
    <3>2. QED
      BY <3>1
  <2>2. QED
    BY <2>1 DEF SavedFrom
<1>9. Instr.op \in Simulator!Traps
  BY <1>2 DEF Traps, UnaryTraps, NonunaryTraps, Simulator!Traps, Simulator!UnaryTraps,
     Simulator!NonunaryTraps
<1>10. Simulator!Trap(Instr, is)
  BY <1>1, <1>2, <1>4, <1>5, <1>7, <1>8, <1>9, SameMachine DEF Simulator!Trap, Top, Frame
<1>11. QED
  BY <1>1, <1>10, Completes

-----------------------------------------------------------------------------
(* The return from a trap.                                                 *)

\* The words of the frame, from the stack pointer.
LEMMA RestoredBytes ==
  ASSUME TypeOk, mem = begun.mem, NEW k \in {0, 2, 4, 6, 8}, NEW t, t = Plus(begun.sp, k)
  PROVE  Even(t) = Restored(k) /\ OddByte(t) = Restored(k + 1)
<1>1. PICK h \in Nat : Addresses = 2 * h
  BY AddressesEven, EvenNumber
<1>2. begun.sp \in Nat /\ begun.sp < Addresses /\ Addresses \in Nat /\ Addresses > 15
  BY BegunTypes, Offsets DEF Word
<1>3. PICK q \in Nat : begun.sp = 2 * q \/ begun.sp = 2 * q + 1
  BY <1>2, Half
<1>4. /\ t % 2 = begun.sp % 2
      /\ begun.sp % 2 = IF begun.sp = 2 * q THEN 0 ELSE 1
  BY <1>1, <1>2, <1>3 DEF Plus
<1>5. begun.sp - (begun.sp % 2) = 2 * q
  BY <1>2, <1>3, <1>4
<1>6. t - (t % 2) = Plus(2 * q, k) /\ t - (t % 2) + 1 = Plus(2 * q, k + 1)
  <2>1. t = IF begun.sp + k < 2 * h THEN begun.sp + k ELSE begun.sp + k - 2 * h
    BY <1>1 DEF Plus
  <2>2. begun.sp + k < 2 * h <=> 2 * q + k < 2 * h
    BY <1>1, <1>2, <1>3
  <2>3. 2 * q + k < 2 * h => 2 * q + k + 1 < 2 * h
    BY <1>2, <1>3
  <2>4. t % 2 = IF begun.sp = 2 * q THEN 0 ELSE 1
    BY <1>4
  <2>5. t - (t % 2) = IF 2 * q + k < 2 * h THEN 2 * q + k ELSE 2 * q + k - 2 * h
    BY <1>2, <1>3, <2>1, <2>2, <2>4
  <2>6. /\ Plus(2 * q, k) = IF 2 * q + k < 2 * h THEN 2 * q + k ELSE 2 * q + k - 2 * h
        /\ Plus(2 * q, k + 1) =
              IF 2 * q + (k + 1) < 2 * h THEN 2 * q + (k + 1) ELSE 2 * q + (k + 1) - 2 * h
    BY <1>1 DEF Plus
  <2>7. QED
    BY <1>1, <2>3, <2>5, <2>6
<1>7. QED
  BY <1>5, <1>6 DEF Even, OddByte, Restored

LEMMA RestoredType ==
  ASSUME TypeOk, NEW k \in 0..9 PROVE Restored(k) \in Byte
<1>1. begun.sp - (begun.sp % 2) \in Word
  BY BegunTypes, Parity
<1>2. Plus(begun.sp - (begun.sp % 2), k) \in Word
  BY <1>1, Offsets, PlusType
<1>3. QED
  BY <1>2, BegunTypes DEF Restored

LEMMA RestoreContinues ==
  PInv /\ RInv /\ (RetTr \/ RestoreA \/ RestoreX \/ RestorePC) => RInv' /\ begun' = begun
<1> SUFFICES ASSUME PInv, RInv, RetTr \/ RestoreA \/ RestoreX \/ RestorePC
             PROVE  RInv' /\ begun' = begun
  OBVIOUS
<1>0. TypeOk /\ TypeOk'
  BY SwitchTypes DEF PInv, ContextSwitch
<1> DEFINE Places == {"restore_a", "restore_x", "restore_pc", "restore_sp"}
<1>1. /\ begun' = begun /\ is' = is /\ Instr' = Instr /\ mem' = mem
      /\ at \in {"execute"} \cup Places /\ at' \in Places
  BY DEF RetTr, RestoreA, RestoreX, RestorePC, RestoreNext, Executing, Goto, KeepFetch,
     DropPrefetch, fetch, Instr
<1>2. /\ begun.stopped = FALSE /\ is \in Simulator!Specifier
      /\ Instr.op = "RETTR" /\ mem = begun.mem /\ sp = begun.sp
  <2>1. CASE RetTr
    BY <2>1, WhenExecuting DEF RetTr, Executing
  <2>2. CASE RestoreA \/ RestoreX \/ RestorePC
    BY <1>0, <2>2 DEF RestoreA, RestoreX, RestorePC, RInv, BegunInv, FetchInv,
       RestoreInv, TypeOk, Snapshot
  <2>3. QED
    BY <2>1, <2>2
<1>3. /\ Simulator!Specifier' = Simulator!Specifier
      /\ \A k : Restored(k)' = Restored(k)
  BY <1>1 DEF Simulator!Specifier, Restored
<1>4. BegunInv' /\ FetchInv'
  BY <1>1, <1>2, <1>3 DEF BegunInv, FetchInv, Straight
<1>5. AddressInv' /\ ExecuteInv' /\ SecondHalfInv' /\ SaveInv'
  BY <1>1 DEF AddressInv, ExecuteInv, SecondHalfInv, SaveInv, Saving
<1>6. SUFFICES RestoreInv'
  BY <1>1, <1>4, <1>5 DEF RInv
<1>7. /\ \A w \in Word : Hi(w) \in Byte /\ Lo(w) \in Byte
      /\ \A h \in Byte, l \in Byte : Hi(Join(h, l)) = h /\ Lo(Join(h, l)) = l
      /\ \A k \in 0..9 : Restored(k) \in Byte
  BY <1>0, HiType, LoType, JoinParts, RestoredType
<1>8. reg["A"] \in Word /\ reg["X"] \in Word /\ pc \in Word /\ sp \in Word /\ begun.sp \in Word
  BY <1>0, BegunTypes DEF TypeOk
<1>9. \A k \in {2, 4, 6} : Plus(Plus(begun.sp, k), 2) = Plus(begun.sp, k + 2)
  BY <1>8, Offsets DEF Plus, Word
<1>10. CASE RetTr
  <2>1. Even(sp) = Restored(0) /\ OddByte(sp) = Restored(1)
    <3>1. sp = Plus(begun.sp, 0)
      BY <1>2, <1>8, Offsets DEF Plus, Word
    <3>2. QED
      BY <1>0, <1>2, <3>1, RestoredBytes
  <2>2. Hi(reg'["A"]) = Restored(1)
    BY <1>0, <1>7, <1>8, <1>10, <2>1 DEF RetTr, TypeOk
  <2>3. QED
    BY <1>1, <1>2, <1>3, <1>10, <2>1, <2>2 DEF RetTr, RestoreNext, Goto, RestoreInv
<1>11. CASE RestoreA
  <2>1. /\ t4 = Plus(begun.sp, 2) /\ at' = "restore_x" /\ t4' = Plus(t4, 2)
        /\ sp' = sp /\ status' = status
        /\ status = StatusOf(Restored(0)) /\ Hi(reg["A"]) = Restored(1)
    BY <1>11 DEF RestoreA, RestoreNext, Goto, RInv, RestoreInv
  <2>2. Even(t4) = Restored(2) /\ OddByte(t4) = Restored(3)
    BY <1>0, <1>2, <2>1, RestoredBytes
  <2>3. /\ reg'["A"] = Join(Restored(1), Restored(2))
        /\ reg'["X"] = Join(Restored(3), Lo(reg["X"]))
    BY <1>11, <2>1, <2>2 DEF RestoreA
  <2>4. /\ Hi(reg'["A"]) = Restored(1) /\ Lo(reg'["A"]) = Restored(2)
        /\ Hi(reg'["X"]) = Restored(3)
    BY <1>7, <1>8, <2>3
  <2>5. t4' = Plus(begun.sp, 4)
    BY <1>9, <2>1
  <2>6. QED
    BY <1>1, <1>2, <1>3, <2>1, <2>4, <2>5 DEF RestoreInv
<1>12. CASE RestoreX
  <2>1. /\ t4 = Plus(begun.sp, 4) /\ at' = "restore_pc" /\ t4' = Plus(t4, 2)
        /\ sp' = sp /\ status' = status
        /\ status = StatusOf(Restored(0)) /\ Hi(reg["A"]) = Restored(1)
        /\ Lo(reg["A"]) = Restored(2) /\ Hi(reg["X"]) = Restored(3)
    BY <1>12 DEF RestoreX, RestoreNext, Goto, RInv, RestoreInv
  <2>2. Even(t4) = Restored(4) /\ OddByte(t4) = Restored(5)
    BY <1>0, <1>2, <2>1, RestoredBytes
  <2>3. /\ reg'["A"] = reg["A"]
        /\ reg'["X"] = Join(Restored(3), Restored(4))
        /\ pc' = Join(Restored(5), Lo(pc))
    BY <1>0, <1>12, <2>1, <2>2 DEF RestoreX, TypeOk
  <2>4. /\ Hi(reg'["X"]) = Restored(3) /\ Lo(reg'["X"]) = Restored(4) /\ Hi(pc') = Restored(5)
    BY <1>7, <1>8, <2>3
  <2>5. t4' = Plus(begun.sp, 6)
    BY <1>9, <2>1
  <2>6. QED
    BY <1>1, <1>2, <1>3, <2>1, <2>3, <2>4, <2>5 DEF RestoreInv
<1>13. CASE RestorePC
  <2>1. /\ t4 = Plus(begun.sp, 6) /\ at' = "restore_sp" /\ t4' = Plus(t4, 2)
        /\ reg' = reg /\ status' = status
        /\ status = StatusOf(Restored(0)) /\ Hi(reg["A"]) = Restored(1)
        /\ Lo(reg["A"]) = Restored(2) /\ Hi(reg["X"]) = Restored(3)
        /\ Lo(reg["X"]) = Restored(4) /\ Hi(pc) = Restored(5)
    BY <1>13 DEF RestorePC, RestoreNext, Goto, RInv, RestoreInv
  <2>2. Even(t4) = Restored(6) /\ OddByte(t4) = Restored(7)
    BY <1>0, <1>2, <2>1, RestoredBytes
  <2>3. pc' = Join(Restored(5), Restored(6)) /\ sp' = Join(Restored(7), Lo(sp))
    BY <1>13, <2>1, <2>2 DEF RestorePC
  <2>4. Hi(pc') = Restored(5) /\ Lo(pc') = Restored(6) /\ Hi(sp') = Restored(7)
    BY <1>7, <1>8, <2>3
  <2>5. t4' = Plus(begun.sp, 8)
    BY <1>9, <2>1
  <2>6. QED
    BY <1>1, <1>2, <1>3, <2>1, <2>4, <2>5 DEF RestoreInv
<1>14. QED
  BY <1>10, <1>11, <1>12, <1>13

LEMMA RestoreFollows == PInv /\ RInv /\ RestoreSP => RInv' /\ Simulator!Next
<1> SUFFICES ASSUME PInv, RInv, RestoreSP PROVE RInv' /\ Simulator!Next
  OBVIOUS
<1>0. TypeOk
  BY DEF PInv
<1> DEFINE F == begun.sp - (begun.sp % 2)
<1>1. /\ at = "restore_sp" /\ EndAt("start")
      /\ pc' = pc /\ reg' = reg /\ status' = status /\ mem' = mem
      /\ sp' = Join(Hi(sp), Even(t4))
  BY DEF RestoreSP, EndInstruction
<1>2. /\ Instr.op = "RETTR" /\ mem = begun.mem
      /\ status = StatusOf(Restored(0))
      /\ Hi(reg["A"]) = Restored(1) /\ Lo(reg["A"]) = Restored(2)
      /\ Hi(reg["X"]) = Restored(3) /\ Lo(reg["X"]) = Restored(4)
      /\ Hi(pc) = Restored(5) /\ Lo(pc) = Restored(6)
      /\ Hi(sp) = Restored(7) /\ t4 = Plus(begun.sp, 8)
  BY <1>1 DEF RInv, RestoreInv
<1>3. Even(t4) = Restored(8)
  BY <1>0, <1>2, RestoredBytes
<1>4. /\ reg["A"] = Join(Restored(1), Restored(2)) /\ reg["X"] = Join(Restored(3), Restored(4))
      /\ pc = Join(Restored(5), Restored(6))
  BY <1>0, <1>2, PartsJoin DEF TypeOk
<1>5. F \in Word
  BY <1>0, BegunTypes, Parity
<1>6. \A k \in {1, 3, 5, 7} : WordAt(begun.mem, Plus(F, k)) = Join(Restored(k), Restored(k + 1))
  <2> HIDE DEF F
  <2>1. \A k \in {1, 3, 5, 7} : Plus(Plus(F, k), 1) = Plus(F, k + 1)
    BY <1>5, Offsets DEF Plus, Word
  <2>2. QED
    BY <2>1 DEF WordAt, Restored, F
<1>7. reg = [A |-> reg["A"], X |-> reg["X"]]
  BY <1>0 DEF TypeOk
<1>8. Restored(0) = begun.mem[F]
  <2> HIDE DEF F
  <2>1. Plus(F, 0) = F
    BY <1>5, Offsets DEF Plus, Word
  <2>2. QED
    BY <2>1 DEF Restored, F
<1>9. begun.stopped = FALSE
  BY <1>0, <1>1 DEF RInv, BegunInv, TypeOk, Snapshot
<1>10. /\ begun'.pc = WordAt(begun.mem, Plus(F, 5))
       /\ begun'.sp = WordAt(begun.mem, Plus(F, 7))
       /\ begun'.reg = [A |-> WordAt(begun.mem, Plus(F, 1)), X |-> WordAt(begun.mem, Plus(F, 3))]
       /\ begun'.status = StatusOf(begun.mem[F])
       /\ begun'.mem = begun.mem /\ begun'.stopped = begun.stopped
  <2>1. /\ begun'.pc = pc /\ begun'.sp = sp' /\ begun'.reg = reg /\ begun'.status = status
        /\ begun'.mem = mem /\ begun'.stopped = FALSE
    BY <1>1, EndState, EndStates
  <2>2. /\ pc = WordAt(begun.mem, Plus(F, 5)) /\ sp' = WordAt(begun.mem, Plus(F, 7))
        /\ reg["A"] = WordAt(begun.mem, Plus(F, 1)) /\ reg["X"] = WordAt(begun.mem, Plus(F, 3))
    BY <1>1, <1>2, <1>3, <1>4, <1>6
  <2>3. QED
    BY <1>2, <1>7, <1>8, <1>9, <2>1, <2>2
<1>11. Simulator!ReturnFromTrap(Instr)
  BY <1>2, <1>10, SameMachine DEF Simulator!ReturnFromTrap
<1>12. QED
  BY <1>1, <1>11, Completes DEF Simulator!Execute

-----------------------------------------------------------------------------
(* The refinement.                                                         *)

LEMMA NextFollows ==
  PInv /\ RInv /\ [Next]_vars => RInv' /\ [Simulator!Next]_Simulator!vars
<1> SUFFICES ASSUME PInv, RInv, [Next]_vars PROVE RInv' /\ [Simulator!Next]_Simulator!vars
  OBVIOUS
<1>1. ASSUME begun' = begun PROVE UNCHANGED Simulator!vars
  BY <1>1 DEF Simulator!vars
<1>2. CASE UNCHANGED vars
  <2>1. /\ at' = at /\ pc' = pc /\ sp' = sp /\ reg' = reg /\ status' = status
        /\ is' = is /\ os' = os /\ t4' = t4 /\ t5' = t5 /\ t6' = t6 /\ held' = held
        /\ mem' = mem /\ begun' = begun
    BY <1>2 DEF vars, registers, fetch, temporaries
  <2>2. /\ Instr' = Instr /\ PointerAddress' = PointerAddress /\ Top' = Top
        /\ \A k : SavedFrom(k)' = SavedFrom(k) /\ Restored(k)' = Restored(k)
    BY <2>1 DEF Instr, PointerAddress, Top, SavedFrom, Base, Frame, Restored, Simulator!AfterUnary
  <2>3. /\ Simulator!Specifier' = Simulator!Specifier
        /\ Simulator!AfterUnary' = Simulator!AfterUnary
        /\ Simulator!AfterNonunary' = Simulator!AfterNonunary
        /\ Simulator!OperandSpecifier' = Simulator!OperandSpecifier
        /\ \A mode : /\ Simulator!Address(mode)' = Simulator!Address(mode)
                     /\ Simulator!OperandWord(mode)' = Simulator!OperandWord(mode)
    BY <2>1 DEF Simulator!Specifier, Simulator!AfterUnary, Simulator!AfterNonunary,
       Simulator!OperandSpecifier, Simulator!OperandWord, Simulator!Address
  <2>4. BegunInv' /\ FetchInv' /\ AddressInv'
    BY <2>1, <2>2, <2>3 DEF RInv, BegunInv, FetchInv, AddressInv, Odd
  <2>5. ExecuteInv'
    BY <2>1, <2>2, <2>3 DEF RInv, ExecuteInv, OperandReady
  <2>6. SecondHalfInv'
    BY <2>1, <2>2, <2>3 DEF RInv, SecondHalfInv, Odd
  <2>7. SaveInv'
    BY <2>1, <2>2, <2>3 DEF RInv, SaveInv, Saving
  <2>8. RestoreInv'
    BY <2>1, <2>2, <2>3 DEF RInv, RestoreInv
  <2>9. QED
    BY <1>1, <2>1, <2>4, <2>5, <2>6, <2>7, <2>8 DEF RInv
<1>3. CASE Fetch \/ OperandFetch
  BY <1>1, <1>3, FetchFollows, OperandFollows
<1>4. CASE Execute
  BY <1>1, <1>4, UnaryFollows, ControlFollows, RegisterFollows, StoreFollows, CallFollows,
     ReturnFollows, FirstHalfFollows DEF Execute
<1>5. CASE ContextSwitch
  BY <1>1, <1>5, TrapFollows, HandlerFollows, RestoreContinues, RestoreFollows DEF ContextSwitch
<1>6. QED
  BY <1>2, <1>3, <1>4, <1>5 DEF Next

LEMMA InitFollows == Init => RInv /\ Simulator!Init
<1> SUFFICES ASSUME Init PROVE RInv /\ Simulator!Init
  OBVIOUS
<1>1. /\ at = "start" /\ begun.pc = pc /\ begun.sp = sp /\ begun.reg = reg
      /\ begun.status = status /\ begun.mem = mem /\ begun.old = mem /\ begun.stopped = FALSE
  BY DEF Init
<1>2. RInv
  BY <1>1 DEF RInv, BegunInv, FetchInv, AddressInv, ExecuteInv, SecondHalfInv, SaveInv, Saving,
     RestoreInv
<1>3. /\ pc \in Word /\ sp \in Word /\ reg \in [{"A", "X"} -> Word]
      /\ status \in Status /\ mem \in [Word -> Byte]
  BY InitTypes DEF TypeOk
<1>4. Simulator!Status = Status /\ Simulator!Byte = Byte
  BY DEF Simulator!Status, Status, Simulator!Byte, Byte
<1>5. Simulator!Init
  BY <1>1, <1>3, <1>4, SameMachine DEF Simulator!Init
<1>6. QED
  BY <1>2, <1>5

\* For bytes of any size, any decoder table and any program: at the boundaries of
\* instructions the microprogram is the instruction set simulator, with the
\* liberties that InstructionSet names.
THEOREM Implementation == Spec => ImplementsInstructionSet
<1>1. Init => PInv /\ RInv /\ Simulator!Init
  BY PrefetchInit, InitFollows
<1>2. PInv /\ RInv /\ [Next]_vars => PInv' /\ RInv' /\ [Simulator!Next]_Simulator!vars
  BY PrefetchStep, NextFollows
<1>3. QED
  BY <1>1, <1>2, PTL DEF Spec, ImplementsInstructionSet, Simulator!Spec
=============================================================================
