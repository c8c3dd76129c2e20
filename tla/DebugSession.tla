---------------------------- MODULE DebugSession ----------------------------
(***************************************************************************)
(* The assembler window that runs, debugs, interrupts and stops a program, *)
(* and the CPU that it drives (AsmMainWindow, IsaCpu, InterruptHandler).   *)
(*                                                                         *)
(* Everything happens on one thread.  A handler that runs the program      *)
(* stays on the stack until the program pauses or finishes; the program    *)
(* pumps the event loop every 500 instructions and while it waits for      *)
(* input, and there the user's next click runs another handler on top of   *)
(* it.  `stack` holds the handlers that are executing instructions, oldest *)
(* first.  A frame is at                                                   *)
(*   step    about to execute an instruction                               *)
(*   input   inside a read, in the terminal's nested loop                  *)
(*   returning  inside a read, in InputChip::readByte's own processEvents  *)
(*   pump    after an instruction, in processEvents                        *)
(*   end     after an instruction and its processEvents                    *)
(*   return  past its loop                                                 *)
(*   update  in the processEvents at the end of Continue                   *)
(*                                                                         *)
(* The program's data is left out: an instruction calls, returns, stops,   *)
(* fails, reads the input port or does none of these, and a read finds     *)
(* input buffered or not.  The terminal pane is selected throughout, which *)
(* leaves out Start Debugging Loader, and no call takes its target from    *)
(* the input port.                                                         *)
(***************************************************************************)
EXTENDS Sequences, Integers, SequencesExt

CONSTANTS
    MaxFrames,  \* bound: handlers on the stack
    MinDepth,   \* bound: lowest callDepth
    MaxDepth    \* bound: highest callDepth

ASSUME BoundsAssumption ==
    /\ MaxFrames \in Nat \ {0}
    /\ MinDepth \in Int /\ MinDepth <= 0
    /\ MaxDepth \in Nat

DebugState == {"DISABLED", "RUN", "DEBUG_ISA", "DEBUG_RESUMED"}

Button == {"Run", "Execute", "Debug", "Clear", "Interrupt", "Stop",
           "Continue", "StepOver", "StepInto", "StepOut"}
Stepping == {"Continue", "StepOver", "StepInto", "StepOut"}

Handler == {"Run", "Execute", "Continue", "StepOver", "StepInto", "StepOut"}
Place == {"step", "input", "returning", "pump", "end", "return", "update"}

VARIABLES
    cpu,           \* IsaCpu's flags and call depth
    window,        \* the window's debugState, enabled actions, view connection
    input,         \* the chip: waiting, last request canceled; the terminal: waiting
    stack,         \* the handlers that are executing instructions
    finishPosted   \* a queued IsaCpu::onSimulationFinished is undelivered

vars == <<cpu, window, input, stack, finishPosted>>

\* What the register IS holds, as far as canStepInto and the end of an
\* instruction look at it; `read` while the instruction reads its operand.
Fetched == {"call", "return", "read", "other"}

\* interrupted: the interrupt list is not empty.  Only BREAKPOINT_ASM is ever
\* queued and one call handles the whole list, so its length does not matter.
CpuState == [executionFinished : BOOLEAN, inDebug : BOOLEAN,
             asmBreakpointHit : BOOLEAN, controlError : BOOLEAN,
             interrupted : BOOLEAN, callDepth : Int, fetched : Fetched]
InputState == [waiting : BOOLEAN, canceled : BOOLEAN, terminal : BOOLEAN]
WindowState == [debugState : DebugState, enabled : SUBSET Button, connected : BOOLEAN]
Frame == [handler : Handler, at : Place, depth : Int]

TypeOk ==
    /\ cpu \in CpuState
    /\ window \in WindowState
    /\ input \in InputState /\ (input.waiting => input.terminal)
    /\ stack \in Seq(Frame) /\ Len(stack) <= MaxFrames
    /\ finishPosted \in BOOLEAN

-----------------------------------------------------------------------------
(* The CPU's slots.                                                        *)

\* onResetCPU
ResetCpu == [executionFinished |-> FALSE, inDebug |-> FALSE,
             asmBreakpointHit |-> FALSE, controlError |-> FALSE,
             interrupted |-> FALSE, callDepth |-> 0, fetched |-> "other"]

\* Mutant: queued interrupts survive the session.
FinishedKeepsInterrupts(c) == [c EXCEPT !.executionFinished = TRUE, !.inDebug = FALSE]

\* onSimulationFinished
Finished(c) == [c EXCEPT !.executionFinished = TRUE, !.inDebug = FALSE,
                         !.interrupted = FALSE]

\* A posted onSimulationFinished, when the event loop delivers it.
Delivered(c) == IF finishPosted THEN Finished(c) ELSE c

Effect == {"plain", "call", "return", "stop", "fail"}

\* updateAtInstructionEnd, which goes by what IS holds then: when a handler ran
\* instructions inside a read, the last of them and not the read.
Completed(c) ==
    [c EXCEPT
        !.callDepth = CASE c.fetched = "call" -> @ + 1
                        [] c.fetched = "return" -> @ - 1
                        [] OTHER -> @,
        !.fetched = IF @ = "read" THEN "other" ELSE @,
        !.executionFinished = @ \/ c.controlError]

\* onISAStep up to its processEvents.
Executed(c, effect) ==
    Completed([c EXCEPT
        !.asmBreakpointHit = FALSE,
        !.fetched = IF effect \in {"call", "return"} THEN effect ELSE "other",
        !.controlError = @ \/ effect = "fail",
        !.executionFinished = @ \/ effect = "stop"])

\* onISAStep up to the read of an operand from the input port.
Reading(c) == [c EXCEPT !.asmBreakpointHit = FALSE, !.fetched = "read"]

\* Mutant: the loop does not look at executionFinished.
KeepsRunningWhenFinished(f, c) ==
    /\ ~c.controlError
    /\ CASE f.handler \in {"Run", "Execute", "Continue"} -> ~(c.inDebug /\ c.asmBreakpointHit)
         [] f.handler = "StepOver" -> ~c.asmBreakpointHit /\ f.depth < c.callDepth
         [] f.handler = "StepOut" -> ~c.asmBreakpointHit /\ f.depth <= c.callDepth
         [] OTHER -> FALSE

\* Mutant: a run does not look at asmBreakpointHit.
KeepsRunningWhenHit(f, c) ==
    /\ ~c.controlError
    /\ ~c.executionFinished
    /\ CASE f.handler \in {"Run", "Execute", "Continue"} -> TRUE
         [] f.handler = "StepOver" -> ~c.asmBreakpointHit /\ f.depth < c.callDepth
         [] f.handler = "StepOut" -> ~c.asmBreakpointHit /\ f.depth <= c.callDepth
         [] OTHER -> FALSE

\* The condition of doISAStepWhile in onRun, stepOver and stepOut.
KeepsRunning(f, c) ==
    /\ ~c.controlError
    /\ ~c.executionFinished
    /\ CASE f.handler \in {"Run", "Execute", "Continue"} -> ~(c.inDebug /\ c.asmBreakpointHit)
         [] f.handler = "StepOver" -> ~c.asmBreakpointHit /\ f.depth < c.callDepth
         [] f.handler = "StepOut" -> ~c.asmBreakpointHit /\ f.depth <= c.callDepth
         [] OTHER -> FALSE

-----------------------------------------------------------------------------
(* The window's helpers.                                                   *)

\* Mutant: waiting for input is not taken into account.
ActionsWhateverInput(state, waitingIO) ==
    CASE state = "DISABLED" -> {"Run", "Debug", "Clear", "Execute"}
      [] state \in {"RUN", "DEBUG_RESUMED"} -> {"Interrupt", "Stop", "Execute"}
      [] state = "DEBUG_ISA" -> {"Interrupt", "Stop", "Execute"} \cup Stepping

\* handleDebugButtons and debugButtonEnableHelper, which enables Execute
\* whenever any button is.  "Run" and "Debug" stand for their object and
\* loader variants too; StepInto is also subject to canStepInto().
Actions(state, waitingIO) ==
    CASE state = "DISABLED" -> {"Run", "Debug", "Clear", "Execute"}
      [] state \in {"RUN", "DEBUG_RESUMED"} -> {"Interrupt", "Stop", "Execute"}
      [] state = "DEBUG_ISA" ->
            {"Interrupt", "Stop", "Execute"} \cup (IF waitingIO THEN {} ELSE Stepping)

Window(state, waitingIO, connected) ==
    [debugState |-> state, enabled |-> Actions(state, waitingIO), connected |-> connected]

\* `emit simulationUpdate` refreshes the buttons only while views are connected.
Updated(w) == IF w.connected THEN Window(w.debugState, input.waiting, TRUE) ELSE w

\* MainMemory::clearIO cancels an outstanding request, and
\* IOWidget::cancelWaiting ends the terminal's loops.
IOCleared ==
    [waiting |-> FALSE, canceled |-> input.canceled \/ input.waiting, terminal |-> FALSE]

\* MainMemory::clearMemory resets the chip before it cancels the request, and
\* does not tell the terminal.
MemoryCleared == [input EXCEPT !.waiting = FALSE, !.canceled = input.waiting]

\* Mutant: Stop ends the terminal's loops and leaves the request outstanding.
StopWithoutClearIO(c) ==
    /\ cpu' = Finished(c)
    /\ window' = Window("DISABLED", FALSE, TRUE)
    /\ input' = [input EXCEPT !.terminal = FALSE]
    /\ finishPosted' = TRUE

\* Mutant: Stop does not reconnect the views.
StopWithoutReconnecting(c) ==
    /\ cpu' = Finished(c)
    /\ window' = Window("DISABLED", FALSE, window.connected)
    /\ input' = IOCleared
    /\ finishPosted' = TRUE

\* on_actionDebug_Stop_Debugging, applied to the CPU c.
StopDebugging(c) ==
    /\ cpu' = Finished(c)
    /\ window' = Window("DISABLED", FALSE, TRUE)
    /\ input' = IOCleared
    /\ finishPosted' = TRUE

Running == stack # <<>>
Top == stack[Len(stack)]
At(place) == Running /\ Top.at = place
GoTo(place) == [stack EXCEPT ![Len(stack)].at = place]
Push(handler) == Append(stack, [handler |-> handler, at |-> "step", depth |-> cpu.callDepth])

\* Where the event loop handles user events, and a button can be pressed.
Pumping == Running => Top.at \in {"input", "returning", "pump", "update"}
Press(button) == Pumping /\ button \in window.enabled

-----------------------------------------------------------------------------

Init ==
    /\ cpu = ResetCpu
    /\ window = Window("DISABLED", FALSE, TRUE)
    /\ input = [waiting |-> FALSE, canceled |-> FALSE, terminal |-> FALSE]
    /\ stack = <<>>
    /\ finishPosted = FALSE

(* The user.                                                               *)

\* on_actionBuild_Run loads the operating system, which clears memory;
\* on_actionBuild_Execute does not.  Both reset the CPU.
StartRun(handler) ==
    /\ Press(handler)
    /\ Len(stack) < MaxFrames
    /\ cpu' = ResetCpu
    /\ input' = IF handler = "Run" THEN MemoryCleared ELSE input
    /\ window' = Window("RUN", input'.waiting, FALSE)
    /\ stack' = Append(stack, [handler |-> handler, at |-> "step", depth |-> 0])
    /\ UNCHANGED finishPosted

\* on_actionDebug_Start_Debugging_Object, and on_actionDebug_Start_Debugging.
StartDebugging ==
    /\ Press("Debug")
    /\ cpu' = [ResetCpu EXCEPT !.inDebug = TRUE]
    /\ input' = MemoryCleared
    /\ window' = Window("DEBUG_ISA", FALSE, TRUE)
    /\ UNCHANGED <<stack, finishPosted>>

InterruptExecution ==
    /\ Press("Interrupt")
    /\ cpu' = [cpu EXCEPT !.inDebug = TRUE, !.interrupted = TRUE]
    /\ window' = Window("DEBUG_ISA", input.waiting, TRUE)
    /\ UNCHANGED <<input, stack, finishPosted>>

Stop ==
    /\ Press("Stop")
    /\ StopDebugging(cpu)
    /\ UNCHANGED stack

\* Continue, Step Over and Step Out run with the stepping buttons disabled.
Resume(handler) ==
    /\ handler \in {"Continue", "StepOver", "StepOut"}
    /\ Press(handler)
    /\ Len(stack) < MaxFrames
    /\ window' = Window("DEBUG_RESUMED", input.waiting, FALSE)
    /\ stack' = Push(handler)
    /\ UNCHANGED <<cpu, input, finishPosted>>

\* canStepInto decodes the instruction that is under way, or the next one.
StepInto ==
    /\ Press("StepInto")
    /\ (At("input") \/ At("returning")) => cpu.fetched # "read"
    /\ Len(stack) < MaxFrames
    /\ cpu.callDepth < MaxDepth       \* bound: the call it steps into
    /\ window' = [window EXCEPT !.debugState = "DEBUG_ISA"]
    /\ stack' = Push("StepInto")
    /\ UNCHANGED <<cpu, input, finishPosted>>

ClearCPU ==
    /\ Press("Clear")
    /\ cpu' = ResetCpu
    /\ UNCHANGED <<window, input, stack, finishPosted>>

\* on_actionSystem_Clear_Memory, and the installation of an operating system.
ClearMemory ==
    /\ Press("Clear")
    /\ input' = MemoryCleared
    /\ UNCHANGED <<cpu, window, stack, finishPosted>>

\* The user types a line, wherever the event loop is pumped.  It goes to the
\* chip, or to the buffer when the chip no longer waits.
AnswerInput ==
    /\ Pumping
    /\ input.terminal
    /\ input' = [input EXCEPT !.waiting = FALSE, !.terminal = FALSE]
    /\ UNCHANGED <<cpu, window, stack, finishPosted>>

-----------------------------------------------------------------------------
(* The CPU and the event loop.                                             *)

DeliverFinished ==
    /\ Pumping
    /\ finishPosted
    /\ cpu' = Finished(cpu)
    /\ finishPosted' = FALSE
    /\ UNCHANGED <<window, input, stack>>

\* The body of the instruction ends with the CPU in state c.  Every 500th
\* instruction pumps the event loop, which first delivers posted events.
EndBody(c) ==
    \/ /\ stack' = GoTo("end")
       /\ cpu' = c
       /\ UNCHANGED finishPosted
    \/ /\ stack' = GoTo("pump")
       /\ cpu' = Delivered(c)
       /\ finishPosted' = FALSE

\* Step Into is enabled on a call or a trap only.
Instruction(effect) ==
    /\ At("step")
    /\ Top.handler = "StepInto" => effect = "call"
    /\ effect = "call" => cpu.callDepth < MaxDepth      \* bound
    /\ effect = "return" => cpu.callDepth > MinDepth    \* bound
    /\ EndBody(Executed(cpu, effect))
    /\ UNCHANGED <<window, input>>

\* A read with nothing buffered: onChipInputRequested pumps the event loop,
\* which delivers what was posted earlier and then onInputRequested.
RequestInput ==
    /\ At("step")
    /\ Top.handler # "StepInto"
    /\ input' = [waiting |-> TRUE, canceled |-> FALSE, terminal |-> TRUE]
    /\ cpu' = Delivered(Reading(cpu))
    /\ finishPosted' = FALSE
    /\ window' = Window(window.debugState, TRUE, TRUE)
    /\ stack' = GoTo("input")

\* A read that memory serves from its buffer, which is empty while the chip
\* waits; the window is not told.
ServeFromBuffer ==
    /\ At("step")
    /\ Top.handler # "StepInto"
    /\ ~input.waiting
    /\ input' = [input EXCEPT !.canceled = FALSE]
    /\ cpu' = Delivered(Reading(cpu))
    /\ finishPosted' = FALSE
    /\ UNCHANGED window
    /\ stack' = GoTo("returning")

\* The terminal's loop ends, onInputRequested refreshes the buttons, which
\* enables the steps again, and readByte pumps the event loop once more.
LeaveInput ==
    /\ At("input")
    /\ ~input.terminal
    /\ window' = Window(window.debugState, FALSE, FALSE)
    /\ cpu' = Delivered(cpu)
    /\ finishPosted' = FALSE
    /\ stack' = GoTo("returning")
    /\ UNCHANGED input

\* readByte returns, and the instruction completes, or fails if the request
\* was canceled.
FinishRead ==
    /\ At("returning")
    /\ EndBody(Completed([cpu EXCEPT !.controlError = @ \/ input.canceled]))
    /\ UNCHANGED <<window, input>>

LeavePump ==
    /\ At("pump")
    /\ stack' = GoTo("end")
    /\ UNCHANGED <<cpu, window, input, finishPosted>>

\* handleQueuedInterrupts, with breakpointAsmHandler and onASMBreakpointHit.
InterruptsHandled(c) ==
    IF c.interrupted THEN [c EXCEPT !.interrupted = FALSE, !.asmBreakpointHit = TRUE] ELSE c

Repeat(c) == stack' = GoTo(IF KeepsRunning(Top, c) THEN "step" ELSE "return")

\* onISAStep after its processEvents, and the test of the loop around it: the
\* CPU announces that it finished, and the window stops the session ...
AnnounceFinished ==
    /\ At("end")
    /\ cpu.executionFinished \/ cpu.controlError
    /\ StopDebugging(cpu)
    /\ Repeat(Finished(cpu))

\* ... or breakpoints and interrupts are looked at; whether the program
\* counter is at a breakpoint is a matter of data.
HandleBreakpoints ==
    /\ At("end")
    /\ ~cpu.executionFinished
    /\ ~cpu.controlError
    /\ \E atBreakpoint \in BOOLEAN :
          LET c == [cpu EXCEPT !.interrupted = @ \/ (cpu.inDebug /\ atBreakpoint)]
          IN /\ cpu' = InterruptsHandled(c)
             /\ window' = IF c.interrupted
                          THEN [window EXCEPT !.debugState = "DEBUG_ISA"] ELSE window
             /\ Repeat(InterruptsHandled(c))
    /\ UNCHANGED <<input, finishPosted>>

\* on_actionBuild_Run and on_actionBuild_Execute after onRun.  A run that
\* finished is stopped a second time.
ReturnFromRun ==
    /\ At("return")
    /\ Top.handler \in {"Run", "Execute"}
    /\ stack' = Front(stack)
    /\ IF cpu.executionFinished
       THEN StopDebugging(cpu)
       ELSE /\ window' = Window(window.debugState, input.waiting, TRUE)
            /\ UNCHANGED <<cpu, input, finishPosted>>

\* on_actionDebug_Continue after onRun.  It pumps the event loop once more
\* when a breakpoint was hit, and does not reconnect the views on an error.
ReturnFromContinue ==
    /\ At("return")
    /\ Top.handler = "Continue"
    /\ IF cpu.asmBreakpointHit /\ ~cpu.controlError
       THEN /\ window' = Window(window.debugState, input.waiting, TRUE)
            /\ stack' = GoTo("update")
            /\ cpu' = Delivered(cpu)
            /\ finishPosted' = FALSE
       ELSE /\ window' = [window EXCEPT !.connected = @ \/ ~cpu.controlError]
            /\ stack' = Front(stack)
            /\ UNCHANGED <<cpu, finishPosted>>
    /\ UNCHANGED input

LeaveUpdate ==
    /\ At("update")
    /\ stack' = Front(stack)
    /\ UNCHANGED <<cpu, window, input, finishPosted>>

\* Mutant: the window stays in DEBUG_RESUMED after a step.
ReturnFromStepResumed ==
    /\ At("return")
    /\ Top.handler \in {"StepOver", "StepOut"}
    /\ stack' = Front(stack)
    /\ window' = Window(window.debugState, input.waiting, TRUE)
    /\ UNCHANGED <<cpu, input, finishPosted>>

ReturnFromStep ==
    /\ At("return")
    /\ Top.handler \in {"StepOver", "StepOut"}
    /\ stack' = Front(stack)
    /\ window' = Window(IF window.debugState = "DISABLED" THEN "DISABLED" ELSE "DEBUG_ISA",
                        input.waiting, TRUE)
    /\ UNCHANGED <<cpu, input, finishPosted>>

ReturnFromStepInto ==
    /\ At("return")
    /\ Top.handler = "StepInto"
    /\ stack' = Front(stack)
    /\ window' = Updated(window)
    /\ UNCHANGED <<cpu, input, finishPosted>>

-----------------------------------------------------------------------------

UserNext ==
    \/ \E handler \in {"Run", "Execute"} : StartRun(handler)
    \/ StartDebugging
    \/ InterruptExecution
    \/ Stop
    \/ \E handler \in {"Continue", "StepOver", "StepOut"} : Resume(handler)
    \/ StepInto
    \/ ClearCPU
    \/ ClearMemory
    \/ AnswerInput

BeginInstruction ==
    \/ \E effect \in Effect : Instruction(effect)
    \/ RequestInput
    \/ ServeFromBuffer

CpuNext ==
    \/ BeginInstruction
    \/ LeaveInput
    \/ FinishRead
    \/ LeavePump
    \/ AnnounceFinished
    \/ HandleBreakpoints
    \/ ReturnFromRun
    \/ ReturnFromContinue
    \/ LeaveUpdate
    \/ ReturnFromStep
    \/ ReturnFromStepInto

Next == UserNext \/ CpuNext \/ DeliverFinished

\* Instructions and processEvents return.  Nothing is assumed of the user.
Spec == Init /\ [][Next]_vars /\ WF_vars(CpuNext) /\ WF_vars(DeliverFinished)

-----------------------------------------------------------------------------
(* Safety.                                                                 *)

\* When no handler is on the stack the window says so: it is disabled or
\* paused, and the buttons it offers are those of the state it is in.
AtRest ==
    ~Running => /\ window.debugState \in {"DISABLED", "DEBUG_ISA"}
                /\ window.enabled = Actions(window.debugState, FALSE)

\* When no handler is on the stack the views follow the machine again: every
\* path out of a run, a step or an input wait reconnects them.
ViewsLiveAtRest == ~Running => window.connected

\* An interrupt or a breakpoint queued in one session is not handled in a
\* later one: once a session is disabled and its handlers are gone nothing is
\* queued and the CPU is not in debug mode.
NoInterruptOutlivesSession ==
    ~Running /\ window.debugState = "DISABLED" => ~cpu.interrupted /\ ~cpu.inDebug

\* "Disable button stepping if waiting on IO" (asmmainwindow.cpp:1202): while
\* the chip waits no step can be started, in whatever handler the event loop
\* is pumped and however the run was interrupted or nested meanwhile.  It ends
\* with the answer: a step in readByte's own processEvents runs instructions
\* inside the read, and the other properties hold with such steps.
NoSteppingWhileWaiting ==
    input.waiting => window.enabled \cap Stepping = {}

\* Violated: the button of Execute is enabled in every state.  "Crack the
\* parameter using DebugButtons to properly enable and disable all buttons
\* related to debugging and running" (asmmainwindow.cpp:858).
OneRunAtATime == Len(stack) <= 1

-----------------------------------------------------------------------------
(* Liveness.                                                               *)

\* A CPU that is finished leaves every handler that drives it, unless the user
\* resets or restarts it, or an instruction waits for the user's input.
FinishedRunUnwinds ==
    (Running /\ cpu.executionFinished)
        ~> (~Running \/ ~cpu.executionFinished \/ input.terminal)

\* An interrupt of the only handler pauses it, unless the program finishes or is
\* stopped first, another handler is started on top, or input is awaited.
InterruptTakesEffect ==
    (Len(stack) = 1 /\ cpu.interrupted)
        ~> (~Running \/ cpu.executionFinished \/ Len(stack) > 1 \/ input.terminal)

=============================================================================
