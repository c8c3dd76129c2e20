---------------------------- MODULE DataSection ----------------------------
(***************************************************************************)
(* The memory side of CPUDataSection: the main bus with its wait states,   *)
(* the memory address registers and the memory data registers, for both    *)
(* data buses.  MicroMachine takes from here that three lines of a request *)
(* reach memory at the address of MAR, and Arithmetic has the other side,  *)
(* the ALU and the flags.                                                  *)
(*                                                                         *)
(* A step executes any line: one of a microprogram, or the signals that    *)
(* the user sets and clocks by hand, which go on after an error.  The      *)
(* registers are left out: what they put on the buses A, B and C is any    *)
(* choice.  So is the memory, any byte being what a read may return, or    *)
(* nothing.  LoadCk and the clocks of the flags come after the bus and     *)
(* change nothing of it.                                                   *)
(***************************************************************************)
EXTENDS Naturals

CONSTANTS
    Byte,     \* values of a byte
    Zero,     \* the byte of a cleared register
    Buses,    \* pairs of bytes that the registers may put on A and B
    NoValue   \* a bus, or a read, without a value

ASSUME DataAssumption ==
    /\ Zero \in Byte
    /\ Buses \subseteq Byte \X Byte
    /\ NoValue \notin Byte \cup Byte \X Byte

VARIABLES
    cpuFeatures,    \* the data bus that is selected
    mainBusState,
    mar,            \* <<MARA, MARB>>
    mdr,            \* MDRE and MDRO; no address comes from the MDR of one byte
    access,         \* what the last line did to memory
    asked,          \* history: lines that have asserted MemRead, MemWrite
    held,           \* history: lines for which MAR has had its value
    fromMdr,        \* history: MAR has its value from MDR
    plain,          \* history: lines without MARCk and with one request at most
    unserved        \* history: lines since the bus was ready

bus == <<mainBusState, mar, mdr, access>>
history == <<asked, held, fromMdr, plain, unserved>>
vars == <<cpuFeatures, bus, history>>

\* Bound: lines are counted up to three, the length of an access.
Lines == 0..3

Word == Byte \X Byte

ReadState == {"MemReadFirstWait", "MemReadSecondWait", "MemReadReady"}
WriteState == {"MemWriteFirstWait", "MemWriteSecondWait", "MemWriteReady"}

TypeOk ==
    /\ cpuFeatures \in {"OneByteDataBus", "TwoByteDataBus"}
    /\ mainBusState \in {"None"} \cup ReadState \cup WriteState
    /\ mar \in Word
    /\ mdr \in [MDRE : Byte, MDRO : Byte]
    /\ access \in {"none", "read", "write"}
    /\ asked \in [read : Lines, write : Lines]
    /\ held \in Lines
    /\ fromMdr \in BOOLEAN
    /\ plain \in Lines
    /\ unserved \in Lines

Init ==
    /\ cpuFeatures \in {"OneByteDataBus", "TwoByteDataBus"}
    /\ mainBusState = "None"
    /\ mar = <<Zero, Zero>>
    /\ mdr = [MDRE |-> Zero, MDRO |-> Zero]
    /\ access = "none"
    /\ asked = [read |-> 0, write |-> 0]
    /\ held = 0
    /\ fromMdr = FALSE
    /\ plain = 0
    /\ unserved = 0

\* A line of microcode, as far as it concerns memory.  `mar` is what MARMux
\* passes when MARCk is set, `hold` when it is not; MDRE or MDR (`first`) and
\* MDRO (`second`) take a byte from memory or from C, or a multiplexer is not set.
MdrSource == {"hold", "memory", "C", "unset"}

Request == [memRead : BOOLEAN, memWrite : BOOLEAN]

AddressLine ==
    [mar : {"hold"}, buses : {NoValue}]
    \cup [mar : {"buses", "MDR", "unset"}, buses : Buses \cup {NoValue}]

DataLine ==
    [first : MdrSource \ {"C"}, second : MdrSource \ {"C"}, C : {NoValue}]
    \cup {data \in [first : MdrSource, second : MdrSource, C : Byte \cup {NoValue}] :
            "C" \in {data.first, data.second}}

-----------------------------------------------------------------------------
(* handleMainBusState.                                                      *)

\* Mutant: a change of MAR goes unnoticed.
MarNeverChanges(address) == FALSE

\* The new address is taken from A and B, whatever MARMux passes.
MarChanged(address) ==
    address.mar # "hold" /\ address.buses \notin {NoValue, mar}

Initiated(request) ==
    IF request.memRead THEN "MemReadFirstWait"
    ELSE IF request.memWrite THEN "MemWriteFirstWait" ELSE "None"

\* Mutant: a request that follows an access is not taken up.
AfterReadyIdles(state) ==
    [MemReadFirstWait |-> "MemReadSecondWait", MemReadSecondWait |-> "MemReadReady",
     MemReadReady |-> "None",
     MemWriteFirstWait |-> "MemWriteSecondWait", MemWriteSecondWait |-> "MemWriteReady",
     MemWriteReady |-> "None"][state]

\* A request that goes on.
After(state) ==
    [MemReadFirstWait |-> "MemReadSecondWait", MemReadSecondWait |-> "MemReadReady",
     MemReadReady |-> "MemReadFirstWait",
     MemWriteFirstWait |-> "MemWriteSecondWait", MemWriteSecondWait |-> "MemWriteReady",
     MemWriteReady |-> "MemWriteFirstWait"][state]

HandleMainBusState(request, changed) ==
    mainBusState' =
        CASE mainBusState = "None" -> IF changed THEN "None" ELSE Initiated(request)
          [] mainBusState \in ReadState ->
                IF request.memRead
                THEN IF changed THEN "MemReadFirstWait" ELSE After(mainBusState)
                ELSE Initiated(request)
          [] mainBusState \in WriteState ->
                IF request.memWrite
                THEN IF changed THEN "MemWriteFirstWait" ELSE After(mainBusState)
                ELSE Initiated(request)

-----------------------------------------------------------------------------
(* The two steps, after the bus.                                            *)

\* What a data register is clocked with: `old` when it is not clocked, and
\* NoValue when that is an error.  A read of memory may fail.
Clocked(source, C, old) ==
    CASE source = "hold" -> {old}
      [] source = "memory" -> IF mainBusState' = "MemReadReady" THEN Byte \cup {NoValue}
                                                               ELSE {NoValue}
      [] source = "C" -> {C}
      [] source = "unset" -> {NoValue}

Loaded(old, value) == IF value = NoValue THEN old ELSE value

Reads(source) == source = "memory" /\ mainBusState' = "MemReadReady"

\* Memory is written first, at the old address; an error of MARCk is the end.
StepOneByte(address, data) ==
    LET addressed == address.mar = "hold" \/ address.buses # NoValue
    IN  /\ mar' = IF address.mar = "hold" THEN mar ELSE Loaded(mar, address.buses)
        /\ access' = IF mainBusState' = "MemWriteReady" THEN "write"
                     ELSE IF addressed /\ Reads(data.first) THEN "read" ELSE "none"
        /\ UNCHANGED mdr

\* What MARMux passes.
NewAddress(address) ==
    CASE address.mar = "hold" -> mar
      [] address.mar = "buses" -> address.buses
      [] address.mar = "MDR" -> <<mdr.MDRE, mdr.MDRO>>
      [] address.mar = "unset" -> NoValue

\* The same with two data registers.  An error of MDRE is the end, except that
\* of a multiplexer that is not set.
StepTwoByte(address, data) ==
    LET addressed == NewAddress(address) # NoValue
    IN  /\ mar' = Loaded(mar, NewAddress(address))
        /\ \E first \in Clocked(data.first, data.C, mdr.MDRE),
              second \in Clocked(data.second, data.C, mdr.MDRO) :
            LET goesOn == addressed /\ (first # NoValue \/ data.first = "unset")
            IN  /\ access' = IF mainBusState' = "MemWriteReady" THEN "write"
                             ELSE IF \/ addressed /\ Reads(data.first)
                                     \/ goesOn /\ Reads(data.second)
                             THEN "read" ELSE "none"
                /\ mdr' = [mdr EXCEPT !.MDRE = IF addressed THEN Loaded(@, first) ELSE @,
                                      !.MDRO = IF goesOn THEN Loaded(@, second) ELSE @]

\* One line more.
OneMore(n) == IF n < 3 THEN n + 1 ELSE n

Record(request, address) ==
    /\ asked' = [read |-> IF request.memRead THEN OneMore(asked.read) ELSE 0,
                 write |-> IF request.memWrite THEN OneMore(asked.write) ELSE 0]
    /\ held' = IF mar' = mar THEN OneMore(held) ELSE 0
    /\ fromMdr' = IF mar' = mar THEN fromMdr
                  ELSE address.mar = "MDR" /\ cpuFeatures = "TwoByteDataBus"
    /\ plain' = IF address.mar = "hold" /\ ~(request.memRead /\ request.memWrite)
                THEN OneMore(plain) ELSE 0
    /\ unserved' = IF mainBusState' \in {"MemReadReady", "MemWriteReady"} THEN 0
                   ELSE OneMore(unserved)

OnStep(request, address, data) ==
    /\ HandleMainBusState(request, MarChanged(address))
    /\ IF cpuFeatures = "OneByteDataBus"
       THEN StepOneByte(address, data)
       ELSE StepTwoByte(address, data)
    /\ Record(request, address)
    /\ UNCHANGED cpuFeatures

OnClearCPU ==
    /\ mainBusState' = "None"
    /\ mar' = <<Zero, Zero>>
    /\ mdr' = [MDRE |-> Zero, MDRO |-> Zero]
    /\ access' = "none"
    /\ asked' = [read |-> 0, write |-> 0]
    /\ held' = 0
    /\ fromMdr' = FALSE
    /\ plain' = 0
    /\ unserved' = 0
    /\ UNCHANGED cpuFeatures

\* The bus stays as it is when another data bus is selected.
OnSetCPUType ==
    /\ cpuFeatures' \in {"OneByteDataBus", "TwoByteDataBus"} \ {cpuFeatures}
    /\ UNCHANGED <<bus, history>>

Next ==
    \/ \E request \in Request, address \in AddressLine, data \in DataLine :
          OnStep(request, address, data)
    \/ OnClearCPU
    \/ OnSetCPUType

Spec == Init /\ [][Next]_vars

-----------------------------------------------------------------------------
(* Properties.                                                              *)

\* Memory is read or written only after three lines have asked for it, the
\* last two of them with the address that is used.  An address that comes from
\* MDR is the exception: marChanged compares MAR with A and B.
AccessesHaveWaited ==
    access # "none" => asked[access] >= 3 /\ (held >= 2 \/ fromMdr)

\* Whatever a line finds the bus doing, a request that is asserted alone and
\* with a fixed address for three lines is served in one of them.
RequestsAreServed ==
    plain >= 3 /\ (asked.read >= 3 \/ asked.write >= 3) => unserved < 3

=============================================================================
