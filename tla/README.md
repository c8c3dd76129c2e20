# A TLA+ model of the Pep/9 simulators

The repository holds four Qt programs and a set of command line tools that
teach computer organisation with the Pep/9 virtual machine: an assembler and
instruction set simulator (`pep9asm`), a simulator of its data path (`pep9cpu`),
a microcoded machine that runs assembly programs (`pep9micro`), and batch tools
(`pep9term`), over a shared library (`pep9common`).  This directory models the
parts whose behaviour is more than a sequence of assignments, checks the models
with TLC and proves theorems about them with TLAPS.

The graphical programs are single-threaded.  Concurrency comes from the Qt event
loop: a simulation pumps it (`QApplication::processEvents`) from the middle of an
instruction or a run loop, and every click, key press and queued signal may then
run on top of what is on the stack.  `pep9term` runs the simulation on a worker
thread next to the main thread's event loop.

## 1. Inventory

| Component | State | Operations | Interacts with | Hard behaviour | What makes it correct |
|---|---|---|---|---|---|
| Memory-mapped input (`mainmemory`, `memorychips`) | the chip's byte, waiting / canceled / aborted flags; input buffer and waiting set of the memory | readByte, onInputReceived, onInputRequested, onInputCanceled, onInputAborted, clearIO, clearMemory | CPU calls it; queued signal to the window; slots called from the widgets | a read blocks in nested event loops while anything else happens | each character is read once, in order, in its own session |
| I/O widgets (`iowidget`, `terminalpane`, panes) | selected tab, active pane, batch text, line being typed, `waiting` | key presses, Enter, requests, cancelWaiting, simulation start | memory, main window | the terminal's `while(waiting)` loop | a request is answered or released; never both lost |
| Debugging session (`asmmainwindow`) | debugState, enabled actions, connected views | Run, Execute, Start Debugging, Continue, steps, Interrupt, Stop, Clear CPU | CPU, memory, interrupt handler, all panes | commands re-enter below a running command | one run at a time; after unwinding, window, views and CPU agree |
| ISA simulator (`isacpu`, `acpumodel`, `registerfile`) | registers, flags, call depth, executionFinished, inDebug | onISAStep, run loops, step over / out, breakpoints | memory, window, trace | pump every 500 instructions; stop and interrupt from below | an instruction does what the ISA says; a finished or interrupted run unwinds |
| Interrupt handler | queue of interrupts and masks | interupt, handleQueuedInterrupts, clearQueuedInterrupts | CPU, window | outlives the run it was queued for | no interrupt crosses sessions |
| Stack and heap tracing (`interfaceisacpu`, `stacktrace`) | frames, next frame, action stack, stackIntact | calculateStackChangeStart / End, call, ret, push / pop of locals and parameters | CPU, trace pane | mirrors the program's stack without owning it | a correct program is never reported corrupt; a partial pop is |
| Data section (`cpudata`) | registers, MAR, MDR, flags, ALU cache, main bus state | onStep, calculateALUOutput, bus transitions | memory, control section | carries and flags between two byte-wide halves; wait states | sums, differences and flags are those of words |
| Default microprogram (`pep9micro.pepmicro`) | T1..T6, prefetch bit | one sequence of lines per instruction and addressing mode | data section, control section | prefetch; words at odd addresses take two accesses | the microcoded machine is the ISA simulator |
| Microcoded control (`fullmicrocodedcpu`, `interfacemccpu`) | microprogram counter, isPrefetchValid, decoders | onMCStep, branchHandler, run loops | as the ISA simulator | pump in mid-instruction | as the ISA simulator |
| Memory map and chips | chips, address-to-chip map, end-of-memory, error flag | insertChip, removeAllChips, constructMemoryDevice, loadValues, clearMemory, readByte, writeByte | assembler, window, CPU, I/O widget | reuse of chips with their size and connections; two copies of the port addresses and of the end of memory | the chips are one flat memory, laid out as the assembler said |
| Assembler and symbol table | code lines, symbols with their offset, burn address and value, map from addresses to lines | processSourceLine, assembleUserProgram, assembleOperatingSystem, getObjectCode | window, memory, trace panes | an operating system is laid out upwards from 0 and then moved, in parts, by different code for lines and symbols; forward references; imports | lines, symbols, alignments and bytes agree on where everything is |
| Microassembler and specifications | microcode lines, symbols | line parser, branch resolution, unit tests | CPU windows | - | every label resolves to its line |
| Command line programs (`pep9term`) | helper, its files, the events posted to the main thread, step counter and error flags | asm, cpuasm, run, cpurun; onInputRequested, onOutputReceived, onSimulationFinished, bounded onRun | worker thread with CPU and memory, main thread with the event loop; blocking and posted signals | two threads, and a pool that deletes the helper under its own events | each subcommand ends, and its files tell what happened |
| Micro and CPU windows | as the assembler window, two levels of stepping | as the assembler window | | as the assembler window | as the assembler window |
| Memoizers, editors, panes, dialogs | presentation | | | | not modelled |

`PROJECT.json` lists the components with their files and status, and the hazards
line by line.

## 2. Modules

### Input port: `MemoryIO`, `IOSession`, `InputStream`, `MCIOSession`, `IOSession_proofs`

`MemoryIO` is the chip and the buffer of the memory: each operator is one slot or
part of one (`Requested`, `Received`, `ServeFromBuffer`, `OnInputReceived`, `ClearIO`,
...).  `IOSession` adds the widgets, the window's session and the position of the one
CPU read that may be on the stack: `requested` is inside
`onChipInputRequested`'s `processEvents`, `termLoop` is the terminal's nested loop,
`returning` is the second `processEvents` of `InputChip::readByte`.  User actions may
happen wherever the code pumps.  One action is one handler: `Enter` is the whole
Return branch of the event filter with the line's way into chip and buffer, `Stop` is
the whole Stop command with `clearIO` and `cancelWaiting`.

`InputStream` is what the port promises the program: while open, a read takes the
first unread item.  `ImplementsStream` is the refinement.

Assumed: Qt delivers the posted request before user events that arrive after it;
no second run is started while a read is on the stack (what happens if one is, is
the subject of `DebugSession`).  One input port; NUL, EOT and newline are model
values.

### Session: `DebugSession`, `MCDebugSession`, `DebugSession_proofs`

The stack of handlers that are executing instructions, each at one of seven places;
the window (`debugState`, the enabled actions that the button masks give, the
connection of the views), the flags of `IsaCpu`, queued interrupts and the posted
`onSimulationFinished`.  A program is the nondeterministic choice of what the next
instruction does to control: call, return, stop, fail, hit a breakpoint, read the input
port.  A read is several steps.  If memory has input buffered, it goes straight to
`returning`, the `processEvents` in `InputChip::readByte` (`memorychips.cpp:200`); if not, it
waits in the terminal's loop (`input`) first.  `onInputRequested` enables the steps again
when that loop ends (`asmmainwindow.cpp:1884`), and so a step can be clicked in the
`processEvents` that follows, and runs instructions inside the read, above it on the stack.
The read then completes with what the register IS holds by that time: `Completed` counts
`callDepth` by the last instruction of the nested handler, if that was a CALL or a RET (`cpu.fetched`).
The chip and the terminal wait separately (`input.waiting`, `input.terminal`), because a
clear of memory resets the chip, and does not tell the terminal.
`NoSteppingWhileWaiting` is therefore about the time until the chip is answered; the steps
inside `returning` are part of the model for the other properties to hold with.
`simulationFinished` is queued to the CPU and delivering it twice changes
nothing more, so that one Boolean holds the queue.  The terminal pane is selected,
so that a wait is a nested loop; Start Debugging Loader, which selects the batch pane, is
left out, and so is a call whose target is read from the input port.

### Stack trace: `StackTrace`, `StackTracing`, `MCStackTracing`, `StackTracing_proofs`

`StackTrace` is the class as pure operators; `StackTracing` is `InterfaceISACPU` that
calls them for each CALL, RET, SUBSP and ADDSP of a program that is otherwise
arbitrary, beside the stack pointer and the tagged cells that the machine really has.
A program is *disciplined* if it undoes its calls and allocations in their order.
An empty `QStack` popped is `undefined`, where the model stops following the trace.
Sizes are sums of naturals: with a stack of less than 65536 bytes, which
`TracingAssumption` asks for, the 16 bits in which the code adds them do not wrap.

### Arithmetic: `Alu`, `Arithmetic`, `MCArithmetic`, `Arithmetic_proofs`

`Alu` is `calculateALUOutput` with its carry, its overflow and its shifter as written.
`Arithmetic` executes an instruction twice, by `executeUnary` / `executeNonunary` of the
simulator and by the two microprogram lines (three for a comparison) of
`pep9micro.pepmicro`, clocking the flags as `stepTwoByte` does, and compares.

The two differ where the code does, and the properties name the cases.  ROLX of the
simulator shifts the accumulator, and CPWX takes C from it.  The shifter of the ALU
sets Z of ASL when a bit is shifted out.  The ALU misses the carry of two all-ones
operands with a carry in: in the low byte it spoils the result (`LowCarryLost`), in the
high byte only C (`HighCarryLost`).  The simulator negates the subtrahend first, which
loses the carry of a subtraction of zero and turns the overflow of a subtraction of the
least word around.

### Instruction execution: `Machine`, `InstructionSet`, `MicroMachine`, `MCMicroMachine`, `MicroMachine_proofs`

`InstructionSet` is what one instruction does, as `IsaCpu` executes it, with every
addressing mode, the status bits of loads, conditional branches, traps and RETTR.
`MicroMachine` is the microprogram, a step for each access to memory: `is_fetch_e`, `is_fetch_o_v`, `is_fetch_o_i`, `os_even`, `os_odd`, the addressing
units, and the instructions.  Labels that only begin an instruction's last access are
part of the action that reaches them.  `begun` is the state when the current
instruction started; `ImplementsInstructionSet` says that `begun` behaves as
`InstructionSet`, with the liberties the microprogram takes, each named where the
instruction is defined: a prefetched specifier may be one instruction old, SUBSP may lose
a carry, MOVFLGA keeps the high byte of A, and a trap and RETTR align the frame, but not
the stack pointer, when the stack is at an odd address ("aligned to start at a two byte
boundary", a comment of the microprogram).

A trap is where the two CPUs differ by design.  `IsaCpu` has two switches that its
header calls no part of the specification: the saved PC skips the operand specifier of a
nonunary trap, and X is cleared.  Both are on.  The microprogram does neither; its
operating system does both (`alignedIO-OS.pep`, at `trap` and `nonUnary`), and that of the
simulator (`pep9os.pep`) neither.  They are constants of `InstructionSet`, FALSE in the
refinement; an operating system installed on the other CPU would
skip an operand twice, or not at all, which no run checks.

`MicroMachine` is RAM only.  That matters for a byte store and for every store's
operand fetch, which read memory that the simulator does not read: with an input port
there they would consume a character.  So does the operand of a conditional branch that is
not taken.  Left out: register arithmetic (`Arithmetic` has it), the wait states of the bus
(`DataSection` has them), the bit S, which `IsaCpu` keeps from MOVAFLG and RETTR and shows
only in MOVFLGA and in the frame of a trap.  Sums of addresses are written `Plus`: the additions of the
microprogram carry nothing into the low byte, and its subtraction of 2 has a low byte
that is not zero, so that the ALU's lost carry (see SUBSP) cannot touch them.

### Main bus: `DataSection`, `MCDataSection`, `DataSection_proofs`

`DataSection` is the memory side of `CPUDataSection`: `handleMainBusState`, MAR, MDR and the
accesses that `stepOneByte` and `stepTwoByte` make, in the order of the code (memory is written
before MAR is clocked and read after it).  Any line may follow any line, as when the
user clocks signals by hand; a program stops after an error, a hand does not.  `mainBusState`
is compared with histories of the lines: how long they have asked, how long MAR has been
held.  Left out: the registers (any value may be on a bus), the contents of memory
(any byte may be read) and the signals that come after the bus, LoadCk and the flags.
This is the promise that `MicroMachine` takes an access to be one step by.

### Assembler: `Assembler`, `Assembly`, `MCAssembly`, `Assembler_proofs`

`Assembler` is the assembler on parsed lines: what `processSourceLine` does to the
byte counter and the symbol table for each form of line, when it and the two
`assemble...` functions refuse a source, and what the latter do with the lines of an
accepted one: imports for a user program; for an operating system the move to the end
of memory (`Relocated`, `SetOffset`) and the `.ALIGN`s before `.BURN` that are
measured again from below (`AlignUpwards`).  A symbol's value is a number or a
location with an offset, as in `symbolvalue.cpp`, so that moving the symbols is not
the same code as moving the lines.  `Assembly` reads a source a line at a time, each
chosen as it is read, and may assemble what it has read at any `.END`.  Its
properties relate what different passes computed: where the lines say they are, what
the symbols are worth, where the bytes are in the object code, and which line the
stack trace finds for the address of an instruction.

A line is its form, its symbol, its argument and a size; texts, operand formats and
the mnemonic are left out.  Lines without code have the address -1, which is 0xFFFF in
the map from addresses to lines; they are entered there as the code does.  Only the
constructor of a user program fills that map (`asmprogram.cpp:45`); for an operating system
`LinesAt` is empty and `CodeAt` returns `NoLine`, the code's `nullptr`.  `InstructionsFoundByAddress`
is about user programs, the only ones that the stack trace looks instructions up in.
The specification of `Assembly` is `AssemblySpec`: its names are its own, so that one module
can prove what `Assembly` and `Installation` say of the same assembler.

### Memory map: `MemoryMap`, `AddressSpace`, `Installation`, `MCInstallation`, `Assembler_proofs`

`MemoryMap` is `MainMemory` as chips with their base, size, cells and the number of
signal connections to the memory; overlapping chips are resolved by
`calculateAddressToChip`, chips are cached, in the order of their addresses, and used again by
`constructMemoryDevice`, each specification taking the first of its type that is left.
`Installation` adds the commands of the window that assemble, install, reinstall, load
and clear, the addresses that the I/O widget listens to and a program that reads and
writes; the operating systems come from `Assembler`, by the code that `Assembly`
checks.  `AddressSpace` is what all this promises: a flat memory, in which an address is
writable, read-only or a port; `ImplementsAddressSpace` is the refinement.

The operating systems of the instance leave out those that loading does not survive:
without `charIn` or `charOut` (a null pointer), with a port at the first byte of
another chip (the chip is replaced), larger than the address of their `.BURN`
allows, or starting at 0.  `InstallationAssumption` says so.

### Command line: `BatchRun`, `MCBatchRun`, `BatchRun_proofs`

A subcommand of `pep9term` is a helper that works on a thread of the pool, and a main
thread that runs the event loop until `quit`.  `worker` and `main` are their positions,
`events` is what is posted to the main thread.  The memory's two signals are blocking
connections: the worker is `blocked` until the main thread has handled them.
`simulationFinished` is posted, and `finished` of the three other helpers is posted to
the application, where it outlives the helper.  The pool deletes the helper when `run()`
returns, which removes the events posted to it (`DeleteHelper`); if the main thread is in
the helper's slot at that moment, what it does next is undefined, and the model lets it
abort, call `quit` or call nobody.  `run` composes with `MemoryIO`: the input file is
buffered, and `ServeFromBuffer`, `RequestInput`, `OnInputAborted` and `FinishRead` are
the same operators that the interactive session uses.  A program is the choice of what
each instruction does: nothing visible, a read, a write, a stop, a failure.  An instruction
that fails may leave an error in memory, one of its own (`isacpu.cpp:151` and `:1180`, such as a
store in immediate mode; `memory->hadError()` stays false), or both, and `TestOfRun` overwrites
its message at the limit.  `FileTellsTheRun` says which one of the messages the file has then.
In a microprogram, `controlError` is the error of the data section.

External: the pool, `sendPostedEvents`, `quit` and `exec` of Qt.  Left out: the parsing of
options, `MicroStepHelper` and `BoundExecMicroCpu` (no option sets `had_full_control`).

## 3. Runs

| Run | What it shows | States |
|---|---|---|
| `io_session` | safety, release of every read, refinement of the stream | 4,700 |
| `debug_session` | window, CPU and views agree at rest; runs unwind | 689,224 |
| `nested_run` | finding: Execute stays enabled during a run | |
| `stack_tracing` | the trace of a disciplined program is its stack | 176,233 |
| `arithmetic` | registers and flags agree; comparisons are signed | 624,640 |
| `subtraction` | finding: the microcoded subtraction loses a carry | |
| `data_section` | an access to memory takes three lines of a request, no more and no less | 25,514 |
| `micro_machine` | the microprogram implements the instruction set | 354,835 |
| `assembler` | lines, symbols, alignments and bytes agree in every accepted source | 1,990,978 |
| `installation` | the chips are the flat memory that the assembler laid out | 7,719 |
| `batch_run` | a subcommand ends; its files and reads are those of its program | 110,757 |
| `lost_finish` | finding: the process may hang after the program has ended | |

Bounds, and why they suffice:

- `io_session`: two characters, batch texts of up to two, five characters accepted and
  five reads in a session, any number of sessions.  Five characters allow a line that
  serves a waiting chip, one that stays buffered and one in the making; five reads
  allow the terminator and both fillers after the longest batch text.  Characters are
  never compared, so that two are enough to see an order.
- `debug_session`: two handlers on the stack, so that each handler runs below each;
  call depth from one below to one above the start, so that a step over and a step out
  meet calls and returns on both sides.
- `stack_tracing`: ten bytes, six outstanding groups, tags of one and two bytes: a call
  with two parameters of different sizes and locals inside a call, or nested calls.
  A behaviour ends with the first undisciplined instruction, of which the properties do
  not speak.
- `arithmetic`: every operand, operand pair and flag for bytes of three bits.  The
  definitions depend on the width only through `ByteValues`, and the two theorems about
  the carry and the overflow hold for every width.
- `micro_machine`: bytes of twenty-four values, one for each instruction of the instance, so
  that every byte decodes; programs of two instructions, the first with one of four operands
  and the second with one of two, followed
  by RET; code at an even and an odd address, stack pointer even and odd; the
  operands point into code, pointers or the stack.  The three values of the status bits
  decide each condition both ways, and tell N from Z.  A trap enters a handler that changes
  A and returns; RETTR also finds frames that no trap has left.  Two instructions and a return put each
  instruction after each other, at both parities, with and without a valid prefetch.

- `data_section`: bytes of two values, registers with two addresses: an address that
  changes and one that is loaded with the value it has, from either source.  Lines are
  counted to three, the length of an access; the bus has no longer memory.
- `assembler`: every source of up to six lines of twelve forms, for a memory of sixteen
  bytes: six lines are two `.ALIGN`s around code, a label before and a reference
  after, `.BURN` and `.END`.  Sixteen bytes wrap around.
- `installation`: four operating systems that differ in size, ports and the place of
  their `.BURN`, one that does not assemble, three programs, in a memory of sixteen bytes;
  a running program uses six addresses (RAM, code, both sides of a port) and one byte.
  Installing is a function of the
  chips that are there and the system chosen, and the chips that are there after any two
  installations are all reached.

- `batch_run`: two characters, an input of none to two and its line feed, six
  steps: enough to read everything, go on reading fillers and write before, between and
  after, and to reach the limit with a stop, a failure of either kind or neither.

`CHECK_DEADLOCK FALSE` is said of `micro_machine`, where STOP ends a program, of
`assembler`, where a source is assembled once, and of `batch_run`, where the process exits.

Fairness: `IOSession` and `DebugSession` assume that the event loop goes on
(`WF_vars(ReadNext)`, `WF_vars(DeliverFinished)`) and that a started instruction
returns (`WF_vars(CpuNext)`): one thread executes nothing else, a posted call is
delivered and a nested loop re-tests its condition.  Nothing is assumed of the user,
and so the liveness properties except a wait for input.  `BatchRun` assumes that both
threads are scheduled (`WF_vars(WorkerNext)`, `WF_vars(MainNext)`); a program is bounded
by the limit that the command line gives it.

### Findings

Each is a run that TLC must find violated; `PROJECT.json` quotes the line.  Execute is enabled while a program runs
(`asmmainwindow.cpp:868`), and a second run starts above the first.  A
microcoded subtraction of a word with a zero low byte from one with a low byte of ones is wrong by 256
(`cpudata.cpp:143`).  The end of a `run` is posted to a helper that is deleted at once
(`asmrunhelper.cpp:204`): if the main thread is not quick enough, the process never exits.

Also met while modelling, without a run of their own: an empty line leaves an empty buffer
entry that the next read takes for input (`mainmemory.cpp:361`; a filler in `IOSession`);
the main bus does not notice that MAR is loaded from MDR, so that the address of an access may be
younger than its wait states (`cpudata.cpp:422`; excepted in `AccessesHaveWaited`), although
"one cannot change MAR contents and initiate a R/W on same cycle" (`cpudata.cpp:429`); a line may
assert MemRead with MemWrite (`microasm.cpp:382` asks for the wrong signal); an ADDSP
that pops part of a tagged cell is traced as a success (`interfaceisacpu.cpp:268`); a ROM chip
says that it is RAM (`memorychips.cpp:420`), so that after an operating
system that starts at 0, programs cannot write to memory; `cpurun -p` takes the unit tests of the
microprogram, not of the precondition file (`termmain.cpp:460`); `simulationFinished` is emitted by the CPU and
again by Stop (`asmmainwindow.cpp:1175`; its handlers bear it); Stop and Clear CPU in one
round of events leave a run that goes on in a disabled window (`isacpu.cpp:407`; `AtRest` speaks of
the time after it); CPWA and CPWX order every word before -32768 (`isacpu.cpp:1047`; excepted in
`FlagsAgree`); the first line of an operating system is not moved with the others
(`isaasm.cpp:268`; excepted in `LinesAbut`); the map from addresses to lines
of an operating system is empty (`asmprogram.cpp:54`), so that
`AsmProgramManager::getMemoryVectorValue` (`asmprogrammanager.cpp:69`) finds no vector, whichever it
is asked for; nothing calls it.  Three more are about a read in an interactive session: a
step that is clicked in `readByte`'s own `processEvents` (`memorychips.cpp:200`) runs instructions inside
the read, which then counts `callDepth` by the last of them; a clear of memory during a
read resets the chip, while the terminal waits on, and a new session offers steps meanwhile;
and a Step Into may be clicked again in its own `processEvents`, one instruction in 500, before the button
is refreshed, so that it could meet an instruction that is no call (the model starts a Step
Into only at one that is).

## 4. Proofs

`IOSession_proofs` proves, for every alphabet, batch text and bound, that `IInv` is an
invariant, and from it the seven safety properties of the run and the
refinement of `InputStream`.  `IInv` adds to the properties what they need to be
inductive (`ReaderInv`): where the read is determines which flags of the chip may be
set, a buffer that is not `buffered` is empty, and so on.  The proof has two layers:
lemmas about the port's operators (`ServePort`, `ReceivePort`, `ClearIOPort`, ...) say what each does to `PortInv`;
session and history lemmas, one per action, use those.  `NextInv` joins them.  The
refinement proof has one lemma per step of the stream, and needs one more invariant
of sequences: that a byte in flight is the first unread one (`ServedFromEmpty`).

`BatchRun_proofs` proves, for every alphabet, input file and limit, the type invariant
and the three safety properties of `batch_run`.  The invariant has four parts.  `StageInv`
says for each position of the worker where the main thread is and what is posted to it:
nothing until the end of the simulation is announced, except the one call that the worker
is blocked in; that is why a blocked worker is always served, and why no two threads
touch the file at once.  `FileInv` says what the file, the counter of steps and the pending message are at each
position, `ReadInv` what is buffered after n reads, and `PortInv` is the port's invariant,
with the lemmas about its operators that the interactive session has too.  `ReadInv` needs
`StageInv` (which event a blocked worker posted) and `PortInv` (a waiting chip is not
canceled); there is one lemma per layer, action by action.

`DataSection_proofs` proves the two properties of `data_section` for bytes of any values.
The inductive invariant has one part for each: `WaitInv` says how many lines of a request each
state of the bus stands for, `ServiceInv` how many lines the bus may still let pass.

`DebugSession_proofs` proves the type invariant and the four safety properties of
`debug_session` for any number of nested handlers.  A running handler leaves the window
inconsistent (views disconnected, state RUN, buttons out of date) and mends it when it
returns, so none of the properties is inductive.  `RepairInv` says that whenever the window
is inconsistent some frame of the stack is one that will mend it (`Repairing`: not a Step
Into, not a Continue in its last `processEvents`).  That it does so needs to know how a run
can end (`ReturnInv`: told to the window, or at a breakpoint), that a breakpoint is never
hit while the window says RUN (`HitInv`: `asmBreakpointHit` is left over from the run
before until the first instruction clears it), and that a waiting chip has its reader on the
stack (`InputInv`), with the shape of the stack (`StackInv`).  Lemmas about a push, a pop
and a frame that moves on carry these from one stack to the next; there is one lemma per
action.

`MicroMachine_proofs` proves the type invariant and the two properties of the prefetched byte
for bytes of any size, any decoder table and any program.  `PInv` adds three facts: memory is
as it was at the start of the instruction until the instruction executes (`MemInv`), at an
odd program counter a valid T1 is the byte that memory had then (`PrefetchInv`), and an
instruction that changes control has dropped T1 at its first step (`DropInv`).  Types are
proved group by group with lemmas about `Join`, `Hi`, `Lo`, `Plus` and `Minus`.

The same module proves the refinement, `ImplementsInstructionSet`, likewise.  `PInv`
says where the bytes fetched come from; `RInv` says, label by label, what the
temporary registers are of the state in which the instruction began: T4 and T5 are the
addresses that the simulator computes, T6 its operand, the held byte the first half of a
word at an odd address, and memory has the upper part of the frame while a trap saves it (`SavedFrom`).
A step within an instruction keeps `RInv` and stutters; its last step is the simulator's,
one lemma per group of actions.  Below that are lemmas about words: that `Join` of the bytes gives the
word and back, that two byte writes in either order are one word write (`OddStored`), that
the words of a frame are aligned whether or not the stack is (`FrameAddress`,
`RestoredBytes`), and that subtraction byte by byte with the ALU's carry is
the word subtraction or loses one carry (`SubtractWords`, from `CarryOutIsExact`).

`Arithmetic_proofs` proves, for bytes of any size, that the two CPUs leave the same
register, the same flags and the same signed comparison, but for the cases that the
properties name.  It has three layers.  The operations of the ALU on the bytes of a word
make an operation on the word: `SumOfWords`, `LeftShiftOfWords`, `RightShiftOfWords`, over
two facts about the adder: the carry that the code takes from comparing the result with
the operands is the carry of the sum, except for two operands of all ones with a carry in
(`CarryOutIsExact`; the run `subtraction` shows that the exception is reachable), and its
overflow test is exact (`OverflowIsExact`).  `BytesInv`, inductive, says what bytes, flags
and S each line of the microprogram leaves, from the instruction alone.  At its end the first layer
makes the simulator's result of it, instruction by instruction.  `ByteValues` is a multiple
of 4, and not only even, because the V flag of ASL looks at the two high order bits of a byte:
for six values of a byte, where the second of them is no bit, `FlagsAgree` is false.

`StackTracing_proofs` proves the two properties of `stack_tracing` for programs of any
length, with any tags.  Neither is inductive: that a RET4 or an ADDSP finds what the trace
should be has to do with what the trace was when the matching CALL or SUBSP began.  `IInv` therefore says
that there is a history of traces and stack pointers, one from before each call or
allocation that is outstanding, where each entry became the next by the tracing of its group.
To undo the latest group is to go back one entry, cells included, except that the frame made for locals
outside any call stays, empty, at the bottom (`Bottom`).  The lemmas below say so for each
kind of group: `FramePopUndoes` (the search of `StackFrame::pop`, which takes cells until
their bytes suffice, takes the ones pushed last), `CallTraced`,
`LocalsTraced`, `ParamsUndone` (the loop of ADDSP stops after one turn).  Sums of sequences are recursive
functions; their laws come from an induction on the length that is stated for sets of
numbers (`Induction`) and follows from the well-foundedness of the naturals.

`Assembler_proofs` proves the type invariant and the five properties of `assembler` for
memories of any size and sources of any lines and any length.  The invariant, `AssemblyInv`, is that
the lines read so far are `Scanned` and that a program is what one of the two ends of
the assembly made of them.  `Scanned` names a witness, the count of bytes after each line,
that explains sizes, addresses, symbols and the .BURN; a line adds one count to it
(`ScanStep`).  The rest is about the two ends.  The pass that redoes the .ALIGNs is a
recursive function, shown to exist by induction over sets of numbers (`PassExists`), and
`Passed` says, after k lines of it, that each line done ends where the line below it, done
before it, begins, that its label went with it, and that the other lines are untouched
(`LineIsPassed`, `PassGoesOn`); `AlignMoves` is the arithmetic: an .ALIGN that is redone ends
where the lines below it begin, and itself begins on a boundary.  Both kinds of program are
then `Positioned`: their lines lie between the values of one rising sequence (counts of bytes
in a user program, `OsEnds` in an operating system).  From that follow `LinesAbut`, `SymbolsNameTheirLines`, `AlignmentsHold`
and, for a user program, whose sequence rises by less than the memory and leaves -1 to the lines
without code, `InstructionsFoundByAddress`.  `BytesLandOnTheirLines` needs `Weighs` besides: how many bytes of
object code there are up to each line, none up to the .BURN of an operating system, where
lines are silent or empty.

The same module proves the type invariant, the three safety properties and the refinement of
`installation`, for memories of any size and any sources of operating systems and programs.
It needs the assembler for one fact, `LayoutIsPlaceable`: the object code of an accepted
operating system ends at the address of its .BURN, so that the four chips fit in memory, the
ROM above the RAM and the ports on neither's first byte. The other half is about chips.
Which of them are used again depends on what was installed before; `Constructed` says that
it makes no difference: from any whole chips with RAM at address 0 (`Reusable`), the four
specifications make chips that are `Shaped` as the layout says. An old ROM answers to the
type RAM, and would serve as one if it came first: the specification of RAM takes the chip
at address 0 because it is the first, and the one of ROM finds no chip of its type and gets
a new one. From `Shaped` follow the chip that answers an address (`CoveringIs`, `Answered`,
`KindIs`), the last address (`LastIs`) and what clearing, loading, reading and writing do to
each byte (`ClearIs`, `LoadedIs`, `OverlaidIs`, `WriteIs`, `ReadIs`). The inductive
invariant, `InstallInv`, is that the chips have the shape of the current operating system,
the widget has its ports, the pane holds object code that some source assembles to, and
memory is `Intact` as long as it is `pristine`. Each command then maps to one step of
`AddressSpace`, one lemma per command. The attempt found that `InstallationAssumption` did
not say what the comments did, that no operating system starts at 0: with one that does, the
ROM takes the place of the RAM, the next installation uses it as RAM, and the refinement is
false. No source of the run is one.

Assumptions: `ByteAssumption`, `SessionAssumption`, `BatchAssumption`, `DataAssumption`,
`BoundsAssumption`, `MachineAssumption`, `StartAssumption`, `AssemblerAssumption`, `AssemblyAssumption`,
`InstallationAssumption` and the assumptions of `MemoryIO` on its constants; TLC evaluates them in every run.

Only model-checked: liveness under fairness, which is out of the prover's reach.  Every invariant,
every action property without fairness and every refinement that a passing run checks is proved.

## 5. Plan

In order of importance; 1 to 6, 8, 10, 11 and 13 are done, and 7 but for the input port.

1. `MemoryIO`, `IOSession`, `InputStream`, with proofs of safety and refinement.
2. `DebugSession`.
3. `StackTrace`, `StackTracing`.
4. `Alu`, `Arithmetic`, with the two theorems of the adder.
5. `Machine`, `InstructionSet`, `MicroMachine` with the refinement.
6. Inventory of components and hazards.
7. Extend `InstructionSet` and `MicroMachine`: status bits of loads, conditional branches,
   traps and RETTR (the saved PC and X differ), then the input port under the
   microprogram's extra reads, composed with `MemoryIO`.
8. `DataSection`: the wait states of memory access and the rule about MAR, against the
   promise that `MicroMachine` assumes (three lines, then the word).
9. `MicroSession`: run loops of the microcoded CPU, whose pump is in mid-instruction, with
   two levels of breakpoints; composed with the masks of `DebugSession`.
10. `MemoryMap`: chips, their ranges and reuse; `insertChip`, `removeChip`,
    `constructMemoryDevice`; the promise that each address has one chip.
11. `Assembler`, `SymbolTable`: the two passes, alignment, BURN, relocation, against a
    reference assignment of addresses.
12. `MicroAssembler`: labels and branches.
13. `BatchRun`: step limits and batch I/O of the command line programs.

What is left, the input port of 7, 9 and 12, has no model yet and so no theorem.

## 6. Not modelled

The lexers and parsers are sequential and regular, and are left to tests.  Memoizers,
statistics, editors, panes and dialogs read the state and influence none.  The micro and
CPU windows repeat the assembler window.  Closing a window during a run, and files and recent
documents, are left out of the session.  Components marked `not_modelled` in
`PROJECT.json` say why, or where they are in the plan.
