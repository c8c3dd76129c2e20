------------------------- MODULE DataSection_proofs -------------------------
(***************************************************************************)
(* Proofs about DataSection, for bytes of any values and registers that    *)
(* may put any pairs of them on the buses.                                 *)
(*                                                                         *)
(* The wait states of the bus are compared with the lines that were        *)
(* executed: WaitInv says how many of them each state stands for, and      *)
(* ServiceInv how many it may still take.                                  *)
(***************************************************************************)
EXTENDS DataSection, TLAPS

\* What a state of the bus says about the lines before it.
WaitInv ==
    /\ mainBusState = "MemReadFirstWait" => asked.read >= 1
    /\ mainBusState = "MemWriteFirstWait" => asked.write >= 1
    /\ mainBusState = "MemReadSecondWait" => asked.read >= 2 /\ (held >= 1 \/ fromMdr)
    /\ mainBusState = "MemWriteSecondWait" => asked.write >= 2 /\ (held >= 1 \/ fromMdr)
    /\ mainBusState = "MemReadReady" => asked.read >= 3 /\ (held >= 2 \/ fromMdr)
    /\ mainBusState = "MemWriteReady" => asked.write >= 3 /\ (held >= 2 \/ fromMdr)
    /\ access = "read" => mainBusState = "MemReadReady"
    /\ access = "write" => mainBusState = "MemWriteReady"

\* What the lines say about the state of the bus, and when it was last ready.
ServiceInv ==
    /\ mainBusState \in {"MemReadReady", "MemWriteReady"} => unserved = 0
    /\ plain >= 1 => ~(asked.read >= 1 /\ asked.write >= 1)
    /\ plain >= 1 /\ asked.read >= 1 => mainBusState \in ReadState
    /\ plain >= 1 /\ asked.write >= 1 => mainBusState \in WriteState
    /\ plain >= 2 /\ asked.read >= 2 /\ mainBusState = "MemReadFirstWait"
            => unserved = 1
    /\ plain >= 2 /\ asked.write >= 2 /\ mainBusState = "MemWriteFirstWait"
            => unserved = 1
    /\ plain >= 3 /\ asked.read >= 3 /\ mainBusState = "MemReadSecondWait"
            => unserved = 2
    /\ plain >= 3 /\ asked.write >= 3 /\ mainBusState = "MemWriteSecondWait"
            => unserved = 2

IInv == TypeOk /\ WaitInv /\ ServiceInv

-----------------------------------------------------------------------------
(* One line.                                                                *)

\* The bus goes from state to state as the request and the address say.
LEMMA BusStep ==
    ASSUME TypeOk, NEW request \in Request, NEW changed \in BOOLEAN,
           HandleMainBusState(request, changed)
    PROVE  /\ mainBusState' \in {"None"} \cup ReadState \cup WriteState
           /\ mainBusState' \in ReadState => request.memRead
           /\ mainBusState' \in WriteState => request.memWrite
           /\ request.memRead /\ ~request.memWrite /\ ~changed => mainBusState' \in ReadState
           /\ request.memWrite /\ ~request.memRead /\ ~changed => mainBusState' \in WriteState
           /\ mainBusState' = "MemReadSecondWait" =>
                    mainBusState = "MemReadFirstWait" /\ ~changed
           /\ mainBusState' = "MemReadReady" =>
                    mainBusState = "MemReadSecondWait" /\ ~changed
           /\ mainBusState' = "MemWriteSecondWait" =>
                    mainBusState = "MemWriteFirstWait" /\ ~changed
           /\ mainBusState' = "MemWriteReady" =>
                    mainBusState = "MemWriteSecondWait" /\ ~changed
           /\ mainBusState' = "MemReadFirstWait" /\ ~changed =>
                    mainBusState \notin {"MemReadFirstWait", "MemReadSecondWait"}
           /\ mainBusState' = "MemWriteFirstWait" /\ ~changed =>
                    mainBusState \notin {"MemWriteFirstWait", "MemWriteSecondWait"}
<1> USE DEF ReadState, WriteState, Initiated, After, HandleMainBusState, Request
<1>1. CASE mainBusState = "None"
  BY <1>1
<1>2. CASE mainBusState \in ReadState
  BY <1>2
<1>3. CASE mainBusState \in WriteState
  BY <1>3
<1>4. QED
  BY <1>1, <1>2, <1>3 DEF TypeOk

\* MAR takes another value only if the bus was told, or takes it from MDR.
LEMMA AddressStep ==
    ASSUME TypeOk, NEW address \in AddressLine, NEW data \in DataLine,
           IF cpuFeatures = "OneByteDataBus" THEN StepOneByte(address, data)
                                             ELSE StepTwoByte(address, data)
    PROVE  /\ mar' \in Word
           /\ \/ mar' = mar
              \/ MarChanged(address) /\ address.mar # "hold"
              \/ address.mar = "MDR" /\ cpuFeatures = "TwoByteDataBus"
<1>1. /\ address.mar \in {"hold", "buses", "MDR", "unset"}
      /\ address.buses \in Buses \cup {NoValue}
  BY DEF AddressLine
<1>2. mar \in Word /\ Buses \subseteq Word /\ NoValue \notin Word
  BY DataAssumption DEF TypeOk, Word
<1>3. CASE cpuFeatures = "OneByteDataBus"
  <2>1. mar' = IF address.mar = "hold" THEN mar ELSE Loaded(mar, address.buses)
    BY <1>3 DEF StepOneByte
  <2>2. QED
    BY <1>1, <1>2, <2>1 DEF Loaded, MarChanged
<1>4. CASE cpuFeatures = "TwoByteDataBus"
  <2>1. mar' = Loaded(mar, NewAddress(address))
    BY <1>4 DEF StepTwoByte
  <2>2. CASE address.mar = "MDR"
    <3>1. <<mdr.MDRE, mdr.MDRO>> \in Word
      BY DEF TypeOk, Word
    <3>2. QED
      BY <1>2, <1>4, <2>1, <2>2, <3>1 DEF Loaded, NewAddress
  <2>3. CASE address.mar # "MDR"
    BY <1>1, <1>2, <2>1, <2>3 DEF Loaded, NewAddress, MarChanged
  <2>4. QED
    BY <2>2, <2>3
<1>5. QED
  BY <1>3, <1>4 DEF TypeOk

\* The data registers hold bytes.
LEMMA DataStep ==
    ASSUME TypeOk, NEW address \in AddressLine, NEW data \in DataLine,
           IF cpuFeatures = "OneByteDataBus" THEN StepOneByte(address, data)
                                             ELSE StepTwoByte(address, data)
    PROVE  /\ mdr' \in [MDRE : Byte, MDRO : Byte]
           /\ access' \in {"none", "read", "write"}
           /\ access' = "read" => mainBusState' = "MemReadReady"
           /\ access' = "write" => mainBusState' = "MemWriteReady"
<1>1. /\ data.first \in MdrSource /\ data.second \in MdrSource
      /\ data.C \in Byte \cup {NoValue}
  BY DEF DataLine, MdrSource
<1>2. CASE cpuFeatures = "OneByteDataBus"
  BY <1>2 DEF StepOneByte, Reads, TypeOk
<1>3. CASE cpuFeatures = "TwoByteDataBus"
  <2>1. PICK first \in Clocked(data.first, data.C, mdr.MDRE),
             second \in Clocked(data.second, data.C, mdr.MDRO) :
            LET addressed == NewAddress(address) # NoValue
                goesOn == addressed /\ (first # NoValue \/ data.first = "unset")
            IN  /\ access' = IF mainBusState' = "MemWriteReady" THEN "write"
                             ELSE IF \/ addressed /\ Reads(data.first)
                                     \/ goesOn /\ Reads(data.second)
                             THEN "read" ELSE "none"
                /\ mdr' = [mdr EXCEPT !.MDRE = IF addressed THEN Loaded(@, first) ELSE @,
                                      !.MDRO = IF goesOn THEN Loaded(@, second) ELSE @]
    BY <1>3 DEF StepTwoByte
  <2>2. first \in Byte \cup {NoValue} /\ second \in Byte \cup {NoValue}
    BY <1>1, <2>1 DEF Clocked, MdrSource, TypeOk
  <2>3. mdr' \in [MDRE : Byte, MDRO : Byte]
    BY <2>1, <2>2 DEF Loaded, TypeOk
  <2>4. QED
    BY <2>1, <2>3 DEF Reads
<1>4. QED
  BY <1>2, <1>3 DEF TypeOk

\* A line keeps the invariant.
LEMMA LineStep ==
    ASSUME IInv, NEW request \in Request, NEW address \in AddressLine, NEW data \in DataLine,
           OnStep(request, address, data)
    PROVE  IInv'
<1> DEFINE changed == MarChanged(address)
<1>1. /\ TypeOk /\ WaitInv /\ ServiceInv
      /\ changed \in BOOLEAN
      /\ HandleMainBusState(request, changed)
      /\ IF cpuFeatures = "OneByteDataBus" THEN StepOneByte(address, data)
                                           ELSE StepTwoByte(address, data)
      /\ Record(request, address)
      /\ UNCHANGED cpuFeatures
  BY DEF IInv, OnStep, MarChanged
<1>2. /\ mdr' \in [MDRE : Byte, MDRO : Byte]
      /\ access' \in {"none", "read", "write"}
      /\ access' = "read" => mainBusState' = "MemReadReady"
      /\ access' = "write" => mainBusState' = "MemWriteReady"
  BY <1>1, DataStep
<1>3. /\ mar' \in Word
      /\ \/ mar' = mar
         \/ changed /\ address.mar # "hold"
         \/ address.mar = "MDR" /\ cpuFeatures = "TwoByteDataBus"
  BY <1>1, AddressStep
<1>4. address.mar = "hold" => ~changed
  BY DEF MarChanged
<1>5. /\ asked' = [read |-> IF request.memRead THEN OneMore(asked.read) ELSE 0,
                   write |-> IF request.memWrite THEN OneMore(asked.write) ELSE 0]
      /\ held' = IF mar' = mar THEN OneMore(held) ELSE 0
      /\ fromMdr' = IF mar' = mar THEN fromMdr
                    ELSE address.mar = "MDR" /\ cpuFeatures = "TwoByteDataBus"
      /\ plain' = IF address.mar = "hold" /\ ~(request.memRead /\ request.memWrite)
                  THEN OneMore(plain) ELSE 0
      /\ unserved' = IF mainBusState' \in {"MemReadReady", "MemWriteReady"} THEN 0
                     ELSE OneMore(unserved)
  BY <1>1 DEF Record
<1>6. /\ asked.read \in Lines /\ asked.write \in Lines
      /\ held \in Lines /\ plain \in Lines /\ unserved \in Lines
      /\ \A n \in Lines : OneMore(n) \in Lines /\ OneMore(n) >= 1
      /\ \A n \in Lines : OneMore(n) >= 2 <=> n >= 1
      /\ \A n \in Lines : OneMore(n) >= 3 <=> n >= 2
  BY <1>1 DEF TypeOk, Lines, OneMore
<1>7. TypeOk'
  <2>1. mainBusState' \in {"None"} \cup ReadState \cup WriteState
    BY <1>1, BusStep
  <2>2. asked' \in [read : Lines, write : Lines]
    BY <1>5, <1>6 DEF Lines
  <2>3. held' \in Lines /\ plain' \in Lines /\ unserved' \in Lines
    BY <1>5, <1>6 DEF Lines
  <2>4. fromMdr' \in BOOLEAN
    BY <1>1, <1>5, Zenon DEF TypeOk
  <2>5. QED
    BY <1>1, <1>2, <1>3, <2>1, <2>2, <2>3, <2>4 DEF TypeOk
<1>8. WaitInv'
  <2>1. ~changed => \/ held' = OneMore(held) /\ (fromMdr' <=> fromMdr)
                    \/ fromMdr'
    BY <1>3, <1>5
  <2>2. /\ mainBusState' \in ReadState => asked'.read = OneMore(asked.read)
        /\ mainBusState' \in WriteState => asked'.write = OneMore(asked.write)
    BY <1>1, <1>5, BusStep
  <2>3. mainBusState' \in {"MemReadSecondWait", "MemReadReady"} =>
            asked.read >= 1 /\ ~changed
    BY <1>1, <1>6, BusStep DEF WaitInv, Lines
  <2>4. QED
    BY <1>1, <1>2, <1>6, <2>1, <2>2, BusStep DEF WaitInv, ReadState, WriteState, Lines
<1>9. ServiceInv'
  <2> asked'.read \in Lines /\ asked'.write \in Lines /\ plain' \in Lines
    BY <1>7 DEF TypeOk
  <2>1. plain' >= 1 => address.mar = "hold" /\ ~changed /\ ~(request.memRead /\ request.memWrite)
                       /\ plain' = OneMore(plain)
    BY <1>4, <1>5
  <2>2. /\ asked'.read >= 1 => request.memRead /\ asked'.read = OneMore(asked.read)
        /\ asked'.write >= 1 => request.memWrite /\ asked'.write = OneMore(asked.write)
    BY <1>5
  <2>3. /\ mainBusState' \in {"MemReadReady", "MemWriteReady"} => unserved' = 0
        /\ plain' >= 1 => ~(asked'.read >= 1 /\ asked'.write >= 1)
        /\ plain' >= 1 /\ asked'.read >= 1 => mainBusState' \in ReadState
        /\ plain' >= 1 /\ asked'.write >= 1 => mainBusState' \in WriteState
    BY <1>1, <1>5, <2>1, <2>2, BusStep
  <2>4. /\ mainBusState = "MemReadReady" /\ mainBusState' = "MemReadFirstWait" => unserved' = 1
        /\ mainBusState = "MemWriteReady" /\ mainBusState' = "MemWriteFirstWait" => unserved' = 1
        /\ unserved = 1 /\ mainBusState' \in {"MemReadSecondWait", "MemWriteSecondWait"}
                => unserved' = 2
    BY <1>1, <1>5 DEF ServiceInv, OneMore
  <2>5. /\ plain' >= 2 /\ asked'.read >= 2 /\ mainBusState' = "MemReadFirstWait"
                => unserved' = 1
        /\ plain' >= 2 /\ asked'.write >= 2 /\ mainBusState' = "MemWriteFirstWait"
                => unserved' = 1
    <3>1. plain' >= 2 /\ asked'.read >= 2 => mainBusState \in ReadState
      BY <1>1, <1>6, <2>1, <2>2 DEF ServiceInv, Lines
    <3>2. plain' >= 2 /\ asked'.write >= 2 => mainBusState \in WriteState
      BY <1>1, <1>6, <2>1, <2>2 DEF ServiceInv, Lines
    <3>3. plain' >= 2 => ~changed
      BY <1>5, <2>1 DEF Lines
    <3>4. QED
      BY <1>1, <2>4, <3>1, <3>2, <3>3, BusStep DEF ReadState, WriteState
  <2>6. /\ plain' >= 3 /\ asked'.read >= 3 /\ mainBusState' = "MemReadSecondWait"
                => unserved' = 2
        /\ plain' >= 3 /\ asked'.write >= 3 /\ mainBusState' = "MemWriteSecondWait"
                => unserved' = 2
    <3>1. plain' >= 3 /\ asked'.read >= 3 => plain >= 2 /\ asked.read >= 2
      BY <1>6, <2>1, <2>2 DEF Lines
    <3>2. plain' >= 3 /\ asked'.write >= 3 => plain >= 2 /\ asked.write >= 2
      BY <1>6, <2>1, <2>2 DEF Lines
    <3>3. QED
      BY <1>1, <2>4, <3>1, <3>2, BusStep DEF ServiceInv
  <2>7. QED
    BY <2>3, <2>5, <2>6 DEF ServiceInv
<1>10. QED
  BY <1>7, <1>8, <1>9 DEF IInv

-----------------------------------------------------------------------------
(* The invariant.                                                           *)

\* What is cleared has its type.
LEMMA ClearedTypes ==
    /\ <<Zero, Zero>> \in Word
    /\ [MDRE |-> Zero, MDRO |-> Zero] \in [MDRE : Byte, MDRO : Byte]
    /\ [read |-> 0, write |-> 0] \in [read : Lines, write : Lines]
    /\ 0 \in Lines
BY DataAssumption DEF Word, Lines

LEMMA InitInv == Init => IInv
<1> SUFFICES ASSUME Init
             PROVE  IInv
  OBVIOUS
<1>1. TypeOk
  BY ClearedTypes DEF Init, TypeOk
<1>2. WaitInv /\ ServiceInv
  BY DEF Init, WaitInv, ServiceInv
<1>3. QED
  BY <1>1, <1>2 DEF IInv

LEMMA Inductive == IInv /\ [Next]_vars => IInv'
<1> SUFFICES ASSUME IInv, [Next]_vars
             PROVE  IInv'
  OBVIOUS
<1>1. CASE \E request \in Request, address \in AddressLine, data \in DataLine :
              OnStep(request, address, data)
  BY <1>1, LineStep
<1>2. CASE OnClearCPU
  <2>1. TypeOk'
    BY <1>2, ClearedTypes DEF OnClearCPU, IInv, TypeOk
  <2>2. WaitInv' /\ ServiceInv'
    BY <1>2 DEF OnClearCPU, WaitInv, ServiceInv
  <2>3. QED
    BY <2>1, <2>2 DEF IInv
<1>3. CASE OnSetCPUType
  BY <1>3 DEF OnSetCPUType, IInv, TypeOk, WaitInv, ServiceInv, bus, history
<1>4. CASE UNCHANGED vars
  BY <1>4 DEF IInv, TypeOk, WaitInv, ServiceInv, vars, bus, history
<1>5. QED
  BY <1>1, <1>2, <1>3, <1>4 DEF Next

THEOREM Invariant == Spec => []IInv
BY InitInv, Inductive, PTL DEF Spec

\* Every access follows three lines of the same request, the last two of them
\* with its address, unless the address comes from MDR.
THEOREM WaitStatesAreKept == Spec => []AccessesHaveWaited
<1>1. IInv => AccessesHaveWaited
  BY DEF IInv, TypeOk, WaitInv, AccessesHaveWaited
<1>2. QED
  BY <1>1, Invariant, PTL

\* A request that is made alone for three lines, with MAR left alone, meets a
\* ready bus in one of them, whatever the bus was doing before.
THEOREM NoRequestWaitsLonger == Spec => []RequestsAreServed
<1>1. IInv => RequestsAreServed
  BY DEF IInv, TypeOk, ServiceInv, ReadState, WriteState, Lines, RequestsAreServed
<1>2. QED
  BY <1>1, Invariant, PTL

=============================================================================
