------------------------ MODULE DebugSession_proofs ------------------------
(***************************************************************************)
(* Proofs about DebugSession, for any number of nested handlers and any    *)
(* bounds on the call depth.                                               *)
(*                                                                         *)
(* The window is inconsistent while a program runs: its views are          *)
(* disconnected, its state says RUN, its buttons are out of date.  Each    *)
(* handler repairs it when it returns, so what has to be shown is that a   *)
(* handler that will do so is still on the stack.  Step Into repairs       *)
(* nothing it has not broken, and Continue, once it is in its last         *)
(* processEvents, has nothing left to do; the others are `Repairing`.      *)
(***************************************************************************)
EXTENDS DebugSession, SequenceTheorems, TLAPS

Repairing(f) == f.handler # "StepInto" /\ f.at # "update"

RunState == {"RUN", "DEBUG_RESUMED"}

\* A handler below another one is where the event loop handles user events.
\* Step Into runs a call or a trap, which does not read.
StackInv ==
    /\ \A i \in 1..Len(stack) - 1 : stack[i].at \in {"input", "returning", "pump", "update"}
    /\ \A i \in 1..Len(stack) :
          stack[i].at \in {"input", "returning"} => stack[i].handler # "StepInto"

\* While the chip waits, the instruction that made it wait is on the stack and
\* no step can be started.
InputInv ==
    input.waiting =>
        /\ \E i \in 1..Len(stack) : stack[i].at = "input"
        /\ window.enabled \cap Stepping = {}

\* What is wrong with the window is repaired by a handler on the stack.
RepairInv ==
    (\A i \in 1..Len(stack) : ~Repairing(stack[i])) =>
        /\ window.connected
        /\ window.debugState \notin RunState
        /\ At("return") \/ window.enabled = Actions(window.debugState, FALSE)

\* In a run no breakpoint has been hit, except by the run before, until the
\* first instruction.
HitInv == window.debugState \in RunState /\ cpu.asmBreakpointHit => At("step")

\* A run ends because the program finished, and the window has been told, or
\* at a breakpoint.
ReturnInv ==
    At("return") /\ Top.handler \in {"Run", "Execute", "Continue"} =>
        \/ /\ cpu.executionFinished
           /\ window = Window("DISABLED", FALSE, TRUE)
        \/ /\ cpu.asmBreakpointHit
           /\ ~cpu.executionFinished /\ ~cpu.controlError

\* A session that is disabled has cleared the debugger.
DisabledInv ==
    window.debugState = "DISABLED" => ~cpu.interrupted /\ ~cpu.inDebug

IInv == /\ TypeOk
        /\ StackInv
        /\ InputInv
        /\ RepairInv
        /\ HitInv
        /\ ReturnInv
        /\ DisabledInv

-----------------------------------------------------------------------------
(* The stack.                                                               *)

LEMMA TopType ==
    ASSUME TypeOk, Running
    PROVE  Len(stack) \in 1..MaxFrames /\ Top \in Frame
BY EmptySeq, BoundsAssumption DEF TypeOk, Running, Top

\* A handler is started on top of the others.
LEMMA PushStack ==
    ASSUME TypeOk, NEW f \in Frame, Len(stack) < MaxFrames, stack' = Append(stack, f)
    PROVE  /\ stack' \in Seq(Frame)
           /\ Len(stack') = Len(stack) + 1 /\ Len(stack') <= MaxFrames
           /\ stack' # <<>>
           /\ \A i \in 1..Len(stack) : stack'[i] = stack[i]
           /\ stack'[Len(stack')] = f
BY AppendProperties, BoundsAssumption DEF TypeOk

LEMMA FrontProperties ==
    ASSUME NEW S, NEW s \in Seq(S), s # <<>>
    PROVE  /\ Front(s) \in Seq(S)
           /\ Len(Front(s)) = Len(s) - 1
           /\ \A i \in 1..Len(s) - 1 : Front(s)[i] = s[i]
<1>1. PICK n \in Nat : n = Len(s) - 1 /\ n <= Len(s)
  <2>1. Len(s) \in Nat \ {0}
    BY EmptySeq
  <2>2. Len(s) - 1 \in Nat /\ Len(s) - 1 <= Len(s)
    BY <2>1
  <2>3. QED
    BY <2>2
<1>2. /\ SubSeq(s, 1, n) \in Seq(S)
      /\ \A i \in 1..n : SubSeq(s, 1, n)[i] = s[i]
  BY <1>1
<1>3. Len(SubSeq(s, 1, n)) = n
  BY <1>1
<1>4. QED
  BY <1>1, <1>2, <1>3 DEF Front

\* The handler on top returns.
LEMMA PopStack ==
    ASSUME TypeOk, Running, stack' = Front(stack)
    PROVE  /\ stack' \in Seq(Frame)
           /\ Len(stack') = Len(stack) - 1 /\ Len(stack') <= MaxFrames
           /\ \A i \in 1..Len(stack') : stack'[i] = stack[i]
BY TopType, FrontProperties, BoundsAssumption DEF TypeOk, Running

\* The handler on top goes on.
LEMMA GoToStack ==
    ASSUME TypeOk, Running, NEW place \in Place, stack' = GoTo(place)
    PROVE  /\ stack' \in Seq(Frame)
           /\ Len(stack') = Len(stack) /\ Len(stack') <= MaxFrames
           /\ stack' # <<>>
           /\ \A i \in 1..Len(stack) - 1 : stack'[i] = stack[i]
           /\ stack'[Len(stack)] = [Top EXCEPT !.at = place]
<1>1. stack \in Seq(Frame) /\ Len(stack) \in 1..Len(stack) /\ Len(stack) <= MaxFrames
  BY TopType DEF TypeOk
<1>2. [Top EXCEPT !.at = place] \in Frame
  BY TopType DEF Frame
<1>3. stack' = [stack EXCEPT ![Len(stack)] = [Top EXCEPT !.at = place]]
  BY DEF GoTo, Top
<1>4. /\ stack' \in Seq(Frame) /\ Len(stack') = Len(stack)
      /\ \A j \in 1..Len(stack) : stack'[j] =
            IF j = Len(stack) THEN [Top EXCEPT !.at = place] ELSE stack[j]
  BY <1>1, <1>2, <1>3, ExceptSeq
<1>5. QED
  BY <1>1, <1>4

-----------------------------------------------------------------------------
(* What a change of the stack does to the invariants about it.              *)

LEMMA Pushed ==
    ASSUME TypeOk, StackInv, Pumping, Len(stack) < MaxFrames,
           NEW f \in Frame, f.at = "step", stack' = Append(stack, f)
    PROVE  /\ StackInv'
           /\ stack' \in Seq(Frame) /\ Len(stack') <= MaxFrames
           /\ Running' /\ Top' = f
           /\ Len(stack') = Len(stack) + 1 /\ Len(stack) \in Nat
           /\ \A i \in 1..Len(stack) : stack'[i] = stack[i]
<1>1. Len(stack) \in Nat
  BY DEF TypeOk
<1>2. \A i \in 1..Len(stack) : stack[i].at \in {"input", "returning", "pump", "update"}
  <2>1. Len(stack) # 0 => Running
    BY DEF Running
  <2>2. QED
    BY <1>1, <2>1 DEF StackInv, Pumping, Top
<1>3. /\ stack' \in Seq(Frame) /\ Len(stack') <= MaxFrames
      /\ Len(stack') = Len(stack) + 1
      /\ stack' # <<>>
      /\ \A i \in 1..Len(stack) : stack'[i] = stack[i]
      /\ stack'[Len(stack')] = f
  BY PushStack
<1>4. StackInv'
  BY <1>1, <1>2, <1>3 DEF StackInv
<1>5. QED
  BY <1>1, <1>3, <1>4 DEF Running, Top

LEMMA Popped ==
    ASSUME TypeOk, StackInv, Running, stack' = Front(stack)
    PROVE  /\ StackInv'
           /\ stack' \in Seq(Frame) /\ Len(stack') <= MaxFrames
           /\ ~At("return")' /\ ~At("step")'
           /\ Len(stack') = Len(stack) - 1 /\ Len(stack) \in Nat \ {0}
           /\ \A i \in 1..Len(stack') : stack'[i] = stack[i]
<1>1. Len(stack) \in Nat \ {0}
  BY TopType
<1>2. /\ stack' \in Seq(Frame) /\ Len(stack') <= MaxFrames
      /\ Len(stack') = Len(stack) - 1
      /\ \A i \in 1..Len(stack') : stack'[i] = stack[i]
  BY PopStack
<1>3. StackInv'
  BY <1>1, <1>2 DEF StackInv
<1>4. Running' => Top'.at \in {"input", "returning", "pump", "update"}
  <2> SUFFICES ASSUME Running'
               PROVE  Top'.at \in {"input", "returning", "pump", "update"}
    OBVIOUS
  <2>1. Len(stack') \in 1..Len(stack) - 1
    BY <1>1, <1>2, EmptySeq DEF Running
  <2>2. QED
    BY <1>2, <2>1 DEF StackInv, Top
<1>5. QED
  BY <1>1, <1>2, <1>3, <1>4 DEF At

LEMMA Moved ==
    ASSUME TypeOk, StackInv, Running, NEW place \in Place,
           place \in {"input", "returning"} => Top.handler # "StepInto",
           stack' = GoTo(place)
    PROVE  /\ StackInv'
           /\ stack' \in Seq(Frame) /\ Len(stack') <= MaxFrames
           /\ Running' /\ Top'.at = place /\ Top'.handler = Top.handler
           /\ Len(stack') = Len(stack) /\ Len(stack) \in Nat \ {0}
           /\ \A i \in 1..Len(stack) - 1 : stack'[i] = stack[i]
<1>1. Len(stack) \in Nat \ {0} /\ Top \in Frame /\ Top = stack[Len(stack)]
  BY TopType DEF Top
<1>2. /\ stack' \in Seq(Frame) /\ Len(stack') <= MaxFrames
      /\ Len(stack') = Len(stack)
      /\ stack' # <<>>
      /\ \A i \in 1..Len(stack) - 1 : stack'[i] = stack[i]
      /\ stack'[Len(stack)] = [Top EXCEPT !.at = place]
  BY GoToStack
<1>3. Top' = [Top EXCEPT !.at = place]
  BY <1>1, <1>2 DEF Top
<1>4. Top'.at = place /\ Top'.handler = Top.handler
  BY <1>1, <1>3 DEF Frame
<1>5. StackInv'
  <2>1. \A i \in 1..Len(stack') - 1 : stack'[i].at \in {"input", "returning", "pump", "update"}
    BY <1>1, <1>2 DEF StackInv
  <2>2. ASSUME NEW i \in 1..Len(stack'), stack'[i].at \in {"input", "returning"}
        PROVE  stack'[i].handler # "StepInto"
    <3>1. CASE i = Len(stack)
      BY <1>2, <1>3, <1>4, <2>2, <3>1
    <3>2. CASE i # Len(stack)
      BY <1>1, <1>2, <2>2, <3>2 DEF StackInv
    <3>3. QED
      BY <3>1, <3>2
  <2>3. QED
    BY <2>1, <2>2 DEF StackInv
<1>6. QED
  BY <1>1, <1>2, <1>4, <1>5 DEF Running

-----------------------------------------------------------------------------
(* The window and the CPU.                                                  *)

LEMMA WindowFacts ==
    ASSUME NEW state \in DebugState, NEW waiting \in BOOLEAN, NEW connected \in BOOLEAN
    PROVE  /\ Window(state, waiting, connected) \in WindowState
           /\ Window(state, waiting, connected).debugState = state
           /\ Window(state, waiting, connected).enabled = Actions(state, waiting)
           /\ Window(state, waiting, connected).connected = connected
           /\ waiting => Window(state, waiting, connected).enabled \cap Stepping = {}
<1>1. Actions(state, waiting) \subseteq Button
  BY DEF Actions, Button, Stepping, DebugState
<1>2. waiting => Actions(state, waiting) \cap Stepping = {}
  BY DEF Actions, Stepping, DebugState
<1>3. QED
  BY <1>1, <1>2 DEF Window, WindowState

\* Which states enable which buttons.
LEMMA ButtonFacts ==
    ASSUME NEW state \in DebugState, NEW waiting \in BOOLEAN
    PROVE  /\ Actions(state, waiting) \cap Stepping # {} => state = "DEBUG_ISA" /\ ~waiting
BY DEF Actions, Stepping, DebugState

LEMMA CpuFacts ==
    ASSUME TypeOk, NEW c \in CpuState
    PROVE  /\ ResetCpu \in CpuState
           /\ Finished(c) \in CpuState
           /\ Delivered(c) \in CpuState
           /\ InterruptsHandled(c) \in CpuState
<1>1. ResetCpu \in CpuState
  BY DEF ResetCpu, CpuState, Fetched
<1>2. Finished(c) \in CpuState
  BY DEF Finished, CpuState
<1>3. InterruptsHandled(c) \in CpuState
  BY DEF InterruptsHandled, CpuState
<1>4. QED
  BY <1>1, <1>2, <1>3 DEF Delivered

LEMMA Parts ==
    ASSUME TypeOk
    PROVE  /\ window.debugState \in DebugState /\ window.connected \in BOOLEAN
           /\ window.enabled \in SUBSET Button
           /\ input.waiting \in BOOLEAN /\ input.canceled \in BOOLEAN
           /\ input.waiting => input.terminal
           /\ IOCleared \in InputState /\ ~IOCleared.waiting
           /\ MemoryCleared \in InputState /\ ~MemoryCleared.waiting
BY DEF TypeOk, WindowState, InputState, IOCleared, MemoryCleared

\* The end of an instruction changes neither the debugger nor the breakpoint.
LEMMA CompletedFacts ==
    ASSUME NEW c \in CpuState
    PROVE  /\ Completed(c) \in CpuState
           /\ Completed(c).asmBreakpointHit = c.asmBreakpointHit
           /\ Completed(c).interrupted = c.interrupted
           /\ Completed(c).inDebug = c.inDebug
<1> DEFINE depth == CASE c.fetched = "call" -> c.callDepth + 1
                      [] c.fetched = "return" -> c.callDepth - 1
                      [] OTHER -> c.callDepth
           is == IF c.fetched = "read" THEN "other" ELSE c.fetched
           finished == c.executionFinished \/ c.controlError
<1>1. depth \in Int /\ is \in Fetched /\ finished \in BOOLEAN
  <2>1. c.callDepth \in Int /\ c.fetched \in Fetched
    BY DEF CpuState
  <2>2. depth \in Int
    BY <2>1
  <2>3. QED
    BY <2>1, <2>2 DEF Fetched
<1>2. Completed(c) = [c EXCEPT !.callDepth = depth, !.fetched = is,
                               !.executionFinished = finished]
  BY DEF Completed
<1> HIDE DEF depth, is, finished
<1>3. QED
  BY <1>1, <1>2 DEF CpuState

\* What is delivered in a processEvents can only clear the debugger.
LEMMA DeliveredFacts ==
    ASSUME NEW c \in CpuState
    PROVE  /\ Delivered(c) \in CpuState
           /\ Delivered(c).asmBreakpointHit = c.asmBreakpointHit
           /\ Delivered(c).interrupted => c.interrupted
           /\ Delivered(c).inDebug => c.inDebug
<1>1. /\ Finished(c) \in CpuState /\ Finished(c).asmBreakpointHit = c.asmBreakpointHit
      /\ ~Finished(c).interrupted /\ ~Finished(c).inDebug
  BY DEF Finished, CpuState
<1>2. QED
  BY <1>1 DEF Delivered

LEMMA ReadingFacts ==
    ASSUME NEW c \in CpuState
    PROVE  /\ Reading(c) \in CpuState /\ ~Reading(c).asmBreakpointHit
           /\ Reading(c).interrupted = c.interrupted
           /\ Reading(c).inDebug = c.inDebug
BY DEF Reading, CpuState, Fetched

\* User events are handled in the middle of a handler, not between two of its
\* statements.
LEMMA PumpingPlaces == Pumping => ~At("step") /\ ~At("end") /\ ~At("return")
BY DEF Pumping, At

\* The session is stopped: nothing is left to repair.
LEMMA Stopped ==
    ASSUME TypeOk, NEW c \in CpuState, StopDebugging(c),
           \/ UNCHANGED stack
           \/ stack' \in Seq(Frame) /\ Len(stack') <= MaxFrames
    PROVE  /\ TypeOk'
           /\ InputInv' /\ RepairInv' /\ HitInv' /\ ReturnInv' /\ DisabledInv'
<1>1. /\ cpu' = Finished(c) /\ cpu' \in CpuState
      /\ cpu'.executionFinished /\ ~cpu'.interrupted /\ ~cpu'.inDebug
  BY CpuFacts DEF StopDebugging, Finished, CpuState
<1>2. "DISABLED" \in DebugState /\ "DISABLED" \notin RunState
  BY DEF DebugState, RunState
<1>3. /\ window' = Window("DISABLED", FALSE, TRUE) /\ window' \in WindowState
      /\ window'.debugState = "DISABLED" /\ window'.connected
      /\ window'.enabled = Actions("DISABLED", FALSE)
  BY <1>2, WindowFacts DEF StopDebugging
<1>4. input' \in InputState /\ ~input'.waiting
  BY Parts DEF StopDebugging
<1>5. TypeOk'
  BY <1>1, <1>3, <1>4 DEF TypeOk, StopDebugging
<1>6. InputInv' /\ RepairInv' /\ HitInv'
  BY <1>2, <1>3, <1>4 DEF InputInv, RepairInv, HitInv
<1>7. ReturnInv' /\ DisabledInv'
  BY <1>1, <1>3 DEF ReturnInv, DisabledInv
<1>8. QED
  BY <1>5, <1>6, <1>7

-----------------------------------------------------------------------------
(* The user's actions.                                                      *)

LEMMA StartRunStep ==
    ASSUME IInv, NEW handler \in {"Run", "Execute"}, StartRun(handler)
    PROVE  IInv'
<1> USE DEF IInv
<1> DEFINE f == [handler |-> handler, at |-> "step", depth |-> 0]
<1>1. f \in Frame /\ f.at = "step" /\ f.handler # "StepInto"
  BY DEF Frame, Handler, Place
<1>2. /\ StackInv'
      /\ stack' \in Seq(Frame) /\ Len(stack') <= MaxFrames
      /\ Running' /\ Top' = f
      /\ Len(stack') = Len(stack) + 1 /\ Len(stack) \in Nat
      /\ \A i \in 1..Len(stack) : stack'[i] = stack[i]
  BY <1>1, Pushed DEF StartRun, Press
<1>3. /\ cpu' = ResetCpu /\ cpu' \in CpuState
      /\ ~cpu'.asmBreakpointHit
  BY CpuFacts DEF StartRun, ResetCpu, TypeOk
<1>4. /\ input' \in InputState
      /\ input'.waiting => input.waiting /\ input'.terminal
  BY Parts DEF StartRun, TypeOk
<1>5. "RUN" \in DebugState /\ input'.waiting \in BOOLEAN
  BY <1>4 DEF DebugState, InputState
<1>6. /\ window' \in WindowState /\ window'.debugState = "RUN"
      /\ input'.waiting => window'.enabled \cap Stepping = {}
  BY <1>5, WindowFacts DEF StartRun
<1>7. TypeOk'
  BY <1>2, <1>3, <1>4, <1>6 DEF TypeOk, StartRun
<1>8. InputInv'
  BY <1>2, <1>4, <1>6 DEF InputInv
<1>9. RepairInv'
  <2>1. Len(stack') \in 1..Len(stack') /\ stack'[Len(stack')] = f
    BY <1>2 DEF Top
  <2>2. QED
    BY <1>1, <2>1 DEF RepairInv, Repairing
<1>10. HitInv' /\ ReturnInv'
  BY <1>1, <1>2, <1>3 DEF HitInv, ReturnInv, At
<1>11. DisabledInv'
  BY <1>6 DEF DisabledInv
<1>12. QED
  BY <1>2, <1>7, <1>8, <1>9, <1>10, <1>11

LEMMA StartDebuggingStep ==
    ASSUME IInv, StartDebugging
    PROVE  IInv'
<1> USE DEF IInv
<1>1. cpu' \in CpuState /\ ~cpu'.asmBreakpointHit
  <2>1. ResetCpu \in CpuState /\ ~ResetCpu.asmBreakpointHit
    BY CpuFacts DEF ResetCpu, TypeOk
  <2>2. QED
    BY <2>1 DEF StartDebugging, CpuState
<1>2. input' \in InputState /\ ~input'.waiting
  BY Parts DEF StartDebugging
<1>3. "DEBUG_ISA" \in DebugState /\ "DEBUG_ISA" \notin RunState
  BY DEF DebugState, RunState
<1>4. /\ window' \in WindowState /\ window'.debugState = "DEBUG_ISA"
      /\ window'.enabled = Actions("DEBUG_ISA", FALSE) /\ window'.connected
  BY <1>3, WindowFacts DEF StartDebugging
<1>5. TypeOk' /\ StackInv'
  BY <1>1, <1>2, <1>4 DEF StartDebugging, TypeOk, StackInv
<1>6. InputInv' /\ RepairInv' /\ HitInv' /\ DisabledInv'
  BY <1>2, <1>3, <1>4 DEF InputInv, RepairInv, HitInv, DisabledInv
<1>7. ReturnInv'
  BY PumpingPlaces DEF StartDebugging, Press, ReturnInv, At, Running, Top
<1>8. QED
  BY <1>5, <1>6, <1>7

LEMMA InterruptStep ==
    ASSUME IInv, InterruptExecution
    PROVE  IInv'
<1> USE DEF IInv
<1>1. cpu' \in CpuState
  BY DEF InterruptExecution, TypeOk, CpuState
<1>2. "DEBUG_ISA" \in DebugState /\ "DEBUG_ISA" \notin RunState
  BY DEF DebugState, RunState
<1>3. /\ window' \in WindowState /\ window'.debugState = "DEBUG_ISA"
      /\ window'.enabled = Actions("DEBUG_ISA", input.waiting) /\ window'.connected
      /\ input.waiting => window'.enabled \cap Stepping = {}
  BY <1>2, Parts, WindowFacts DEF InterruptExecution
<1>4. TypeOk' /\ StackInv'
  BY <1>1, <1>3 DEF InterruptExecution, TypeOk, StackInv
<1>5. InputInv' /\ HitInv' /\ DisabledInv'
  BY <1>2, <1>3 DEF InterruptExecution, InputInv, HitInv, DisabledInv
<1>6. RepairInv'
  <2> SUFFICES ASSUME \A i \in 1..Len(stack) : ~Repairing(stack[i])
               PROVE  ~input.waiting
    BY <1>2, <1>3, Parts DEF InterruptExecution, RepairInv, Repairing
  <2>1. \A i \in 1..Len(stack) : stack[i].at # "input"
    BY DEF StackInv, Repairing
  <2>2. QED
    BY <2>1 DEF InputInv
<1>7. ReturnInv'
  BY PumpingPlaces DEF InterruptExecution, Press, ReturnInv, At, Running, Top
<1>8. QED
  BY <1>4, <1>5, <1>6, <1>7

LEMMA StopStep ==
    ASSUME IInv, Stop
    PROVE  IInv'
<1>1. StopDebugging(cpu) /\ UNCHANGED stack /\ TypeOk /\ cpu \in CpuState
  BY DEF IInv, Stop, TypeOk
<1>2. StackInv'
  BY <1>1 DEF IInv, StackInv
<1>3. QED
  BY <1>1, <1>2, Stopped DEF IInv

LEMMA ResumeStep ==
    ASSUME IInv, NEW handler \in {"Continue", "StepOver", "StepOut"}, Resume(handler)
    PROVE  IInv'
<1> USE DEF IInv
<1> DEFINE f == [handler |-> handler, at |-> "step", depth |-> cpu.callDepth]
<1>1. f \in Frame /\ f.at = "step" /\ f.handler # "StepInto"
  BY DEF Frame, Handler, Place, TypeOk, CpuState
<1>2. /\ StackInv'
      /\ stack' \in Seq(Frame) /\ Len(stack') <= MaxFrames
      /\ Running' /\ Top' = f
      /\ Len(stack') = Len(stack) + 1 /\ Len(stack) \in Nat
      /\ \A i \in 1..Len(stack) : stack'[i] = stack[i]
  BY <1>1, Pushed DEF Resume, Press, Push
<1>3. "DEBUG_RESUMED" \in DebugState
  BY DEF DebugState
<1>4. /\ window' \in WindowState /\ window'.debugState = "DEBUG_RESUMED"
      /\ input.waiting => window'.enabled \cap Stepping = {}
  BY <1>3, Parts, WindowFacts DEF Resume
<1>5. TypeOk'
  BY <1>2, <1>4 DEF TypeOk, Resume
<1>6. InputInv'
  <2>1. input' = input
    BY DEF Resume
  <2>2. QED
    BY <1>2, <1>4, <2>1 DEF InputInv
<1>7. RepairInv'
  <2>1. Len(stack') \in 1..Len(stack') /\ stack'[Len(stack')] = f
    BY <1>2 DEF Top
  <2>2. QED
    BY <1>1, <2>1 DEF RepairInv, Repairing
<1>8. HitInv' /\ ReturnInv'
  BY <1>1, <1>2 DEF HitInv, ReturnInv, At
<1>9. DisabledInv'
  BY <1>4 DEF DisabledInv
<1>10. QED
  BY <1>2, <1>5, <1>6, <1>7, <1>8, <1>9

LEMMA StepIntoStep ==
    ASSUME IInv, StepInto
    PROVE  IInv'
<1> USE DEF IInv
<1> DEFINE f == [handler |-> "StepInto", at |-> "step", depth |-> cpu.callDepth]
<1>1. f \in Frame /\ f.at = "step"
  BY DEF Frame, Handler, Place, TypeOk, CpuState
<1>2. /\ StackInv'
      /\ stack' \in Seq(Frame) /\ Len(stack') <= MaxFrames
      /\ Running' /\ Top' = f
      /\ Len(stack') = Len(stack) + 1 /\ Len(stack) \in Nat
      /\ \A i \in 1..Len(stack) : stack'[i] = stack[i]
  BY <1>1, Pushed DEF StepInto, Press, Push
<1>3. "DEBUG_ISA" \in DebugState /\ "DEBUG_ISA" \notin RunState
  BY DEF DebugState, RunState
<1>4. /\ window' \in WindowState /\ window'.debugState = "DEBUG_ISA"
      /\ window'.enabled = window.enabled /\ window'.connected = window.connected
  BY <1>3 DEF StepInto, TypeOk, WindowState
<1>5. TypeOk'
  BY <1>2, <1>4 DEF TypeOk, StepInto
<1>6. InputInv'
  <2>1. input' = input
    BY DEF StepInto
  <2>2. QED
    BY <1>2, <1>4, <2>1 DEF InputInv
<1>7. RepairInv'
  <2> SUFFICES ASSUME \A i \in 1..Len(stack') : ~Repairing(stack'[i])
               PROVE  /\ window.connected
                      /\ window.enabled = Actions("DEBUG_ISA", FALSE)
    BY <1>3, <1>4 DEF RepairInv
  <2>1. \A i \in 1..Len(stack) : ~Repairing(stack[i])
    BY <1>2
  <2>2. window.connected /\ window.enabled = Actions(window.debugState, FALSE)
    BY <2>1, PumpingPlaces DEF RepairInv, StepInto, Press
  <2>3. window.enabled \cap Stepping # {}
    BY DEF StepInto, Press, Stepping
  <2>4. window.debugState = "DEBUG_ISA"
    BY <2>2, <2>3, Parts, ButtonFacts
  <2>5. QED
    BY <2>2, <2>4
<1>8. HitInv' /\ ReturnInv' /\ DisabledInv'
  BY <1>1, <1>2, <1>3, <1>4 DEF HitInv, ReturnInv, DisabledInv, At
<1>9. QED
  BY <1>2, <1>5, <1>6, <1>7, <1>8

LEMMA ClearStep ==
    ASSUME IInv, ClearCPU
    PROVE  IInv'
<1> USE DEF IInv
<1>1. /\ cpu' \in CpuState /\ ~cpu'.asmBreakpointHit
      /\ ~cpu'.interrupted /\ ~cpu'.inDebug
  BY CpuFacts DEF ClearCPU, ResetCpu, TypeOk
<1>2. TypeOk' /\ StackInv' /\ InputInv'
  BY <1>1 DEF ClearCPU, TypeOk, StackInv, InputInv
<1>3. RepairInv' /\ HitInv' /\ DisabledInv'
  BY <1>1 DEF ClearCPU, RepairInv, HitInv, DisabledInv, At, Running, Top
<1>4. ReturnInv'
  BY PumpingPlaces DEF ClearCPU, Press, ReturnInv, At, Running, Top
<1>5. QED
  BY <1>2, <1>3, <1>4

\* A request that is answered or dropped holds up nothing.
LEMMA RequestEnds ==
    ASSUME IInv, input' \in InputState, ~input'.waiting,
           UNCHANGED <<cpu, window, stack, finishPosted>>
    PROVE  IInv'
<1>1. TypeOk' /\ StackInv' /\ InputInv'
  BY DEF IInv, TypeOk, StackInv, InputInv
<1>2. RepairInv' /\ HitInv' /\ ReturnInv' /\ DisabledInv'
  BY DEF IInv, RepairInv, HitInv, ReturnInv, DisabledInv, At, Running, Top
<1>3. QED
  BY <1>1, <1>2 DEF IInv

LEMMA AnswerStep ==
    ASSUME IInv, AnswerInput
    PROVE  IInv'
<1>1. input' \in InputState /\ ~input'.waiting
  BY DEF IInv, AnswerInput, TypeOk, InputState
<1>2. QED
  BY <1>1, RequestEnds DEF AnswerInput

LEMMA ClearMemoryStep ==
    ASSUME IInv, ClearMemory
    PROVE  IInv'
<1>1. input' \in InputState /\ ~input'.waiting
  BY Parts DEF IInv, ClearMemory
<1>2. QED
  BY <1>1, RequestEnds DEF ClearMemory

-----------------------------------------------------------------------------
(* The CPU's and the event loop's actions.                                  *)

LEMMA DeliverStep ==
    ASSUME IInv, DeliverFinished
    PROVE  IInv'
<1> USE DEF IInv
<1>1. /\ cpu' \in CpuState /\ cpu'.asmBreakpointHit = cpu.asmBreakpointHit
      /\ ~cpu'.interrupted /\ ~cpu'.inDebug
  BY CpuFacts DEF DeliverFinished, Finished, TypeOk, CpuState
<1>2. TypeOk' /\ StackInv' /\ InputInv'
  BY <1>1 DEF DeliverFinished, TypeOk, StackInv, InputInv
<1>3. RepairInv' /\ HitInv' /\ DisabledInv'
  BY <1>1 DEF DeliverFinished, RepairInv, HitInv, DisabledInv, At, Running, Top
<1>4. ReturnInv'
  BY PumpingPlaces DEF DeliverFinished, ReturnInv, At, Running, Top
<1>5. QED
  BY <1>2, <1>3, <1>4

\* A frame that goes on stays a repairing one, unless it goes to the update.
LEMMA StillRepairing ==
    ASSUME TypeOk, StackInv, Running, NEW place \in Place \ {"input", "returning", "update"},
           Top.at # "update", stack' = GoTo(place),
           \A i \in 1..Len(stack') : ~Repairing(stack'[i])
    PROVE  \A i \in 1..Len(stack) : ~Repairing(stack[i])
<1>1. /\ Top'.at = place /\ Top'.handler = Top.handler
      /\ Len(stack') = Len(stack) /\ Len(stack) \in Nat \ {0}
      /\ \A i \in 1..Len(stack) - 1 : stack'[i] = stack[i]
  BY Moved
<1>2. Top = stack[Len(stack)] /\ Top' = stack'[Len(stack)]
  BY <1>1 DEF Top
<1>3. ~Repairing(Top)
  BY <1>1, <1>2 DEF Repairing
<1>4. QED
  BY <1>1, <1>2, <1>3

\* A frame that goes on from elsewhere leaves the ones that read where they are.
LEMMA StillReading ==
    ASSUME TypeOk, StackInv, InputInv, Running, Top.at # "input", input.waiting,
           \/ stack' = Front(stack)
           \/ \E place \in Place \ {"input", "returning"} : stack' = GoTo(place)
    PROVE  \E i \in 1..Len(stack') : stack'[i].at = "input"
<1>1. PICK i \in 1..Len(stack) : stack[i].at = "input"
  BY DEF InputInv
<1>2. Len(stack) \in Nat \ {0} /\ i \in 1..Len(stack) - 1
  BY <1>1, TopType DEF Top
<1>3. CASE stack' = Front(stack)
  <2>1. Len(stack') = Len(stack) - 1 /\ \A k \in 1..Len(stack') : stack'[k] = stack[k]
    BY <1>3, Popped
  <2>2. QED
    BY <1>1, <1>2, <2>1
<1>4. ASSUME NEW place \in Place \ {"input", "returning"}, stack' = GoTo(place)
      PROVE  \E k \in 1..Len(stack') : stack'[k].at = "input"
  <2>1. Len(stack') = Len(stack) /\ \A k \in 1..Len(stack) - 1 : stack'[k] = stack[k]
    BY <1>4, Moved
  <2>2. QED
    BY <1>1, <1>2, <2>1
<1>5. QED
  BY <1>3, <1>4

\* A read that waits belongs to a handler that repairs the window.
LEMMA NobodyWaits ==
    ASSUME TypeOk, StackInv, InputInv, Running, Top.at # "input",
           \A i \in 1..Len(stack) - 1 : ~Repairing(stack[i])
    PROVE  ~input.waiting
<1> SUFFICES ASSUME input.waiting
             PROVE  FALSE
  OBVIOUS
<1>1. PICK i \in 1..Len(stack) : stack[i].at = "input"
  BY DEF InputInv
<1>2. i \in 1..Len(stack) - 1
  BY <1>1, TopType DEF Top
<1>3. stack[i].handler # "StepInto" /\ stack[i].at # "update"
  BY <1>1 DEF StackInv
<1>4. QED
  BY <1>2, <1>3 DEF Repairing

LEMMA InstructionStep ==
    ASSUME IInv, NEW effect \in Effect, Instruction(effect)
    PROVE  IInv'
<1> USE DEF IInv
<1> DEFINE c == Executed(cpu, effect)
<1>1. Running /\ Top.at = "step" /\ UNCHANGED <<window, input>>
  BY DEF Instruction, At
<1>2. /\ c \in CpuState /\ ~c.asmBreakpointHit
      /\ c.interrupted = cpu.interrupted /\ c.inDebug = cpu.inDebug
  <2> DEFINE d == [cpu EXCEPT
            !.asmBreakpointHit = FALSE,
            !.fetched = IF effect \in {"call", "return"} THEN effect ELSE "other",
            !.controlError = @ \/ effect = "fail",
            !.executionFinished = @ \/ effect = "stop"]
  <2>1. /\ d \in CpuState /\ ~d.asmBreakpointHit
        /\ d.interrupted = cpu.interrupted /\ d.inDebug = cpu.inDebug
    BY DEF TypeOk, CpuState, Fetched
  <2>2. c = Completed(d)
    BY DEF Executed
  <2> HIDE DEF c, d
  <2>3. QED
    BY <2>1, <2>2, CompletedFacts
<1>3. PICK place \in {"end", "pump"} :
            /\ stack' = GoTo(place)
            /\ cpu' = c \/ cpu' = Delivered(c)
            /\ finishPosted' \in BOOLEAN
  BY DEF Instruction, EndBody, TypeOk
<1> HIDE DEF c
<1>4. /\ place \in Place \ {"input", "returning", "update"} /\ place \notin {"step", "return"}
      /\ stack' = GoTo(place)
      /\ TypeOk /\ StackInv /\ InputInv /\ RepairInv
  BY <1>3 DEF Place
<1> HIDE DEF IInv
<1>11. /\ StackInv'
       /\ stack' \in Seq(Frame) /\ Len(stack') <= MaxFrames
       /\ Top'.at = place
  BY <1>1, <1>4, Moved
<1>5. /\ cpu' \in CpuState /\ ~cpu'.asmBreakpointHit
      /\ cpu'.interrupted => cpu.interrupted
      /\ cpu'.inDebug => cpu.inDebug
  BY <1>2, <1>3, DeliveredFacts
<1>6. TypeOk'
  BY <1>1, <1>3, <1>4, <1>5, <1>11 DEF TypeOk
<1>7. InputInv'
  <2> SUFFICES ASSUME input.waiting
               PROVE  /\ \E i \in 1..Len(stack') : stack'[i].at = "input"
                      /\ window.enabled \cap Stepping = {}
    BY <1>1 DEF InputInv
  <2>1. \E i \in 1..Len(stack') : stack'[i].at = "input"
    BY <1>1, <1>4, StillReading
  <2>2. QED
    BY <1>4, <2>1 DEF InputInv
<1>8. RepairInv'
  <2> SUFFICES ASSUME \A i \in 1..Len(stack') : ~Repairing(stack'[i])
               PROVE  /\ window.connected
                      /\ window.debugState \notin RunState
                      /\ window.enabled = Actions(window.debugState, FALSE)
    BY <1>1 DEF RepairInv
  <2>1. \A i \in 1..Len(stack) : ~Repairing(stack[i])
    BY <1>1, <1>4, StillRepairing
  <2>2. QED
    BY <1>1, <1>4, <2>1 DEF RepairInv, At
<1>9. HitInv' /\ ReturnInv' /\ DisabledInv'
  BY <1>1, <1>4, <1>5, <1>11 DEF IInv, HitInv, ReturnInv, DisabledInv, At
<1>10. QED
  BY <1>6, <1>7, <1>8, <1>9, <1>11 DEF IInv

LEMMA RequestStep ==
    ASSUME IInv, RequestInput
    PROVE  IInv'
<1>1. /\ Running /\ Top.at = "step" /\ Top.handler # "StepInto"
      /\ stack' = GoTo("input") /\ "input" \in Place
      /\ TypeOk /\ StackInv /\ DisabledInv
  BY DEF IInv, RequestInput, At, Place
<1>2. /\ StackInv'
      /\ stack' \in Seq(Frame) /\ Len(stack') <= MaxFrames
      /\ Running' /\ Top'.at = "input" /\ Top'.handler # "StepInto"
      /\ Len(stack') \in 1..Len(stack') /\ Top' = stack'[Len(stack')]
  BY <1>1, Moved DEF Top
<1>3. /\ cpu' \in CpuState /\ ~cpu'.asmBreakpointHit
      /\ cpu'.interrupted => cpu.interrupted
      /\ cpu'.inDebug => cpu.inDebug
  <2>1. cpu \in CpuState
    BY <1>1 DEF TypeOk
  <2>2. cpu' = Delivered(Reading(cpu))
    BY DEF RequestInput
  <2>3. QED
    BY <2>1, <2>2, ReadingFacts, DeliveredFacts
<1>4. /\ window' \in WindowState /\ window'.debugState = window.debugState
      /\ window'.enabled \cap Stepping = {}
  BY <1>1, Parts, WindowFacts DEF RequestInput
<1>5. TypeOk'
  BY <1>2, <1>3, <1>4 DEF TypeOk, InputState, RequestInput
<1>6. InputInv'
  BY <1>2, <1>4 DEF InputInv
<1>7. RepairInv'
  BY <1>2 DEF RepairInv, Repairing
<1>8. HitInv' /\ ReturnInv' /\ DisabledInv'
  BY <1>1, <1>2, <1>3, <1>4 DEF HitInv, ReturnInv, DisabledInv, At
<1>9. QED
  BY <1>2, <1>5, <1>6, <1>7, <1>8 DEF IInv

LEMMA ServeStep ==
    ASSUME IInv, ServeFromBuffer
    PROVE  IInv'
<1>1. /\ Running /\ Top.at = "step" /\ Top.handler # "StepInto"
      /\ stack' = GoTo("returning") /\ "returning" \in Place
      /\ window' = window /\ TypeOk /\ StackInv /\ DisabledInv
  BY DEF IInv, ServeFromBuffer, At, Place
<1>2. /\ StackInv'
      /\ stack' \in Seq(Frame) /\ Len(stack') <= MaxFrames
      /\ Running' /\ Top'.at = "returning" /\ Top'.handler # "StepInto"
      /\ Len(stack') \in 1..Len(stack') /\ Top' = stack'[Len(stack')]
  BY <1>1, Moved DEF Top
<1>3. /\ cpu' \in CpuState /\ ~cpu'.asmBreakpointHit
      /\ cpu'.interrupted => cpu.interrupted
      /\ cpu'.inDebug => cpu.inDebug
  <2>1. cpu \in CpuState /\ cpu' = Delivered(Reading(cpu))
    BY <1>1 DEF TypeOk, ServeFromBuffer
  <2>2. QED
    BY <2>1, ReadingFacts, DeliveredFacts
<1>4. input' \in InputState /\ ~input'.waiting
  BY <1>1 DEF ServeFromBuffer, TypeOk, InputState
<1>5. TypeOk'
  BY <1>1, <1>2, <1>3, <1>4 DEF TypeOk, ServeFromBuffer
<1>6. InputInv' /\ RepairInv'
  BY <1>2, <1>4 DEF InputInv, RepairInv, Repairing
<1>7. HitInv' /\ ReturnInv' /\ DisabledInv'
  BY <1>1, <1>2, <1>3 DEF HitInv, ReturnInv, DisabledInv, At
<1>8. QED
  BY <1>2, <1>5, <1>6, <1>7 DEF IInv

LEMMA LeaveInputStep ==
    ASSUME IInv, LeaveInput
    PROVE  IInv'
<1>1. /\ Running /\ Top.at = "input" /\ input' = input
      /\ stack' = GoTo("returning") /\ "returning" \in Place
      /\ TypeOk /\ StackInv /\ HitInv /\ DisabledInv /\ cpu \in CpuState
      /\ cpu' = Delivered(cpu) /\ ~At("step")
  BY DEF IInv, LeaveInput, At, Place, TypeOk
<1>2. Top.handler # "StepInto"
  BY <1>1, TopType DEF StackInv, Top
<1>3. /\ StackInv'
      /\ stack' \in Seq(Frame) /\ Len(stack') <= MaxFrames
      /\ Running' /\ Top'.at = "returning" /\ Top'.handler # "StepInto"
      /\ Len(stack') \in 1..Len(stack') /\ Top' = stack'[Len(stack')]
  BY <1>1, <1>2, Moved DEF Top
<1>4. /\ cpu' \in CpuState /\ cpu'.asmBreakpointHit = cpu.asmBreakpointHit
      /\ cpu'.interrupted => cpu.interrupted
      /\ cpu'.inDebug => cpu.inDebug
  BY <1>1, DeliveredFacts
<1>5. window' \in WindowState /\ window'.debugState = window.debugState
  BY <1>1, Parts, WindowFacts DEF LeaveInput
<1>6. ~input.waiting
  BY <1>1, Parts DEF LeaveInput
<1>7. TypeOk'
  BY <1>1, <1>3, <1>4, <1>5 DEF TypeOk, LeaveInput
<1>8. InputInv' /\ RepairInv'
  BY <1>1, <1>3, <1>6 DEF InputInv, RepairInv, Repairing
<1>9. HitInv' /\ ReturnInv' /\ DisabledInv'
  BY <1>1, <1>3, <1>4, <1>5 DEF HitInv, ReturnInv, DisabledInv, At
<1>10. QED
  BY <1>3, <1>7, <1>8, <1>9 DEF IInv

LEMMA FinishReadStep ==
    ASSUME IInv, FinishRead
    PROVE  IInv'
<1> DEFINE d == [cpu EXCEPT !.controlError = @ \/ input.canceled]
<1> DEFINE c == Completed(d)
<1>1. /\ Running /\ Top.at = "returning" /\ ~At("step")
      /\ UNCHANGED <<window, input>>
      /\ TypeOk /\ StackInv /\ InputInv /\ HitInv /\ DisabledInv
  BY DEF IInv, FinishRead, At
<1>2. /\ d \in CpuState /\ d.asmBreakpointHit = cpu.asmBreakpointHit
      /\ d.interrupted = cpu.interrupted /\ d.inDebug = cpu.inDebug
  BY <1>1 DEF TypeOk, CpuState, InputState
<1>3. PICK place \in {"end", "pump"} :
            /\ stack' = GoTo(place)
            /\ cpu' = c \/ cpu' = Delivered(c)
            /\ finishPosted' \in BOOLEAN
  BY <1>1 DEF FinishRead, EndBody, TypeOk
<1> HIDE DEF d
<1>4. /\ c \in CpuState /\ c.asmBreakpointHit = cpu.asmBreakpointHit
      /\ c.interrupted = cpu.interrupted /\ c.inDebug = cpu.inDebug
  BY <1>2, CompletedFacts
<1> HIDE DEF c
<1>5. /\ place \in Place \ {"input", "returning"}
      /\ place \notin {"step", "return", "update"}
  BY DEF Place
<1>6. Top.handler # "StepInto"
  BY <1>1, TopType DEF StackInv, Top
<1>7. /\ StackInv'
      /\ stack' \in Seq(Frame) /\ Len(stack') <= MaxFrames
      /\ Running' /\ Top'.at = place /\ Top'.handler # "StepInto"
      /\ Len(stack') \in 1..Len(stack') /\ Top' = stack'[Len(stack')]
  BY <1>1, <1>3, <1>5, <1>6, Moved DEF Top
<1>8. /\ cpu' \in CpuState /\ cpu'.asmBreakpointHit = cpu.asmBreakpointHit
      /\ cpu'.interrupted => cpu.interrupted
      /\ cpu'.inDebug => cpu.inDebug
  BY <1>3, <1>4, DeliveredFacts
<1>9. TypeOk'
  BY <1>1, <1>3, <1>7, <1>8 DEF TypeOk
<1>10. InputInv'
  <2>1. input.waiting => \E i \in 1..Len(stack') : stack'[i].at = "input"
    BY <1>1, <1>3, <1>5, StillReading
  <2>2. QED
    BY <1>1, <2>1 DEF InputInv
<1>11. RepairInv'
  BY <1>5, <1>7 DEF RepairInv, Repairing
<1>12. HitInv' /\ ReturnInv' /\ DisabledInv'
  BY <1>1, <1>5, <1>7, <1>8 DEF HitInv, ReturnInv, DisabledInv, At
<1>13. QED
  BY <1>7, <1>9, <1>10, <1>11, <1>12 DEF IInv

LEMMA LeavePumpStep ==
    ASSUME IInv, LeavePump
    PROVE  IInv'
<1>1. /\ Running /\ Top.at = "pump" /\ stack' = GoTo("end")
      /\ "end" \in Place \ {"input", "returning", "update"}
      /\ UNCHANGED <<cpu, window, input, finishPosted>>
      /\ TypeOk /\ StackInv /\ InputInv /\ RepairInv /\ HitInv /\ DisabledInv
  BY DEF IInv, LeavePump, At, Place
<1>2. /\ StackInv'
      /\ stack' \in Seq(Frame) /\ Len(stack') <= MaxFrames
      /\ Top'.at = "end"
  BY <1>1, Moved
<1>3. TypeOk'
  BY <1>1, <1>2 DEF TypeOk
<1>4. InputInv'
  <2>1. input.waiting => \E i \in 1..Len(stack') : stack'[i].at = "input"
    BY <1>1, StillReading
  <2>2. QED
    BY <1>1, <2>1 DEF InputInv
<1>5. RepairInv'
  <2>1. (\A i \in 1..Len(stack') : ~Repairing(stack'[i])) =>
            (\A i \in 1..Len(stack) : ~Repairing(stack[i]))
    BY <1>1, StillRepairing
  <2>2. QED
    BY <1>1, <2>1 DEF RepairInv, At
<1>6. HitInv' /\ ReturnInv' /\ DisabledInv'
  BY <1>1, <1>2 DEF HitInv, ReturnInv, DisabledInv, At
<1>7. QED
  BY <1>2, <1>3, <1>4, <1>5, <1>6 DEF IInv

LEMMA AnnounceStep ==
    ASSUME IInv, AnnounceFinished
    PROVE  IInv'
<1>1. /\ Running /\ TypeOk /\ StackInv /\ cpu \in CpuState
      /\ StopDebugging(cpu)
  BY DEF IInv, AnnounceFinished, At, TypeOk
<1>2. PICK place \in {"step", "return"} : stack' = GoTo(place)
  BY DEF AnnounceFinished, Repeat
<1>3. place \in Place /\ place \notin {"input", "returning"}
  BY DEF Place
<1>4. StackInv' /\ stack' \in Seq(Frame) /\ Len(stack') <= MaxFrames
  BY <1>1, <1>2, <1>3, Moved
<1>5. QED
  BY <1>1, <1>4, Stopped DEF IInv

LEMMA HandleStep ==
    ASSUME IInv, HandleBreakpoints
    PROVE  IInv'
<1>1. /\ Running /\ Top.at = "end" /\ ~cpu.executionFinished /\ ~cpu.controlError
      /\ input' = input /\ finishPosted' = finishPosted
      /\ TypeOk /\ StackInv /\ InputInv /\ RepairInv /\ HitInv /\ DisabledInv
  BY DEF IInv, HandleBreakpoints, At
<1>2. PICK atBreakpoint \in BOOLEAN :
          LET c == [cpu EXCEPT !.interrupted = @ \/ (cpu.inDebug /\ atBreakpoint)]
          IN /\ cpu' = InterruptsHandled(c)
             /\ window' = IF c.interrupted
                          THEN [window EXCEPT !.debugState = "DEBUG_ISA"] ELSE window
             /\ Repeat(InterruptsHandled(c))
  BY DEF HandleBreakpoints
<1> DEFINE c == [cpu EXCEPT !.interrupted = @ \/ (cpu.inDebug /\ atBreakpoint)]
<1>3. /\ c \in CpuState /\ c.inDebug = cpu.inDebug
      /\ c.executionFinished = cpu.executionFinished /\ c.controlError = cpu.controlError
      /\ c.asmBreakpointHit = cpu.asmBreakpointHit
  BY <1>1 DEF TypeOk, CpuState
<1>4. /\ cpu' = InterruptsHandled(c)
      /\ window' = IF c.interrupted
                   THEN [window EXCEPT !.debugState = "DEBUG_ISA"] ELSE window
      /\ stack' = GoTo(IF KeepsRunning(Top, cpu') THEN "step" ELSE "return")
  BY <1>2 DEF Repeat
<1> HIDE DEF c
<1>5. /\ cpu' \in CpuState /\ cpu'.inDebug = cpu.inDebug /\ ~cpu'.interrupted
      /\ ~cpu'.executionFinished /\ ~cpu'.controlError
      /\ ~c.interrupted => cpu'.asmBreakpointHit = cpu.asmBreakpointHit
  BY <1>1, <1>3, <1>4 DEF InterruptsHandled, CpuState
<1>6. /\ window' \in WindowState
      /\ window'.enabled = window.enabled /\ window'.connected = window.connected
      /\ IF c.interrupted THEN window'.debugState = "DEBUG_ISA" ELSE window' = window
  BY <1>1, <1>4 DEF TypeOk, WindowState, DebugState
<1>7. PICK place \in {"step", "return"} :
            /\ place = IF KeepsRunning(Top, cpu') THEN "step" ELSE "return"
            /\ stack' = GoTo(place)
  BY <1>4
<1>8. place \in Place \ {"input", "returning", "update"}
  BY DEF Place
<1>9. /\ StackInv'
      /\ stack' \in Seq(Frame) /\ Len(stack') <= MaxFrames
      /\ Running' /\ Top'.at = place /\ Top'.handler = Top.handler
      /\ Top' = stack'[Len(stack')] /\ Len(stack') \in 1..Len(stack')
  BY <1>1, <1>7, <1>8, Moved DEF Top
<1>10. TypeOk'
  BY <1>1, <1>5, <1>6, <1>9 DEF TypeOk
<1>11. InputInv'
  <2>1. input.waiting => \E i \in 1..Len(stack') : stack'[i].at = "input"
    BY <1>1, <1>7, <1>8, StillReading
  <2>2. QED
    BY <1>1, <1>6, <2>1 DEF InputInv
<1>12. RepairInv'
  <2> SUFFICES ASSUME \A i \in 1..Len(stack') : ~Repairing(stack'[i])
               PROVE  /\ window'.connected /\ window'.debugState \notin RunState
                      /\ At("return")'
    BY DEF RepairInv
  <2>1. \A i \in 1..Len(stack) : ~Repairing(stack[i])
    BY <1>1, <1>7, <1>8, StillRepairing
  <2>2. window'.connected /\ window'.debugState \notin RunState
    BY <1>1, <1>6, <2>1 DEF RepairInv, RunState
  <2>3. Top.handler = "StepInto"
    BY <1>8, <1>9 DEF Repairing
  <2>4. place = "return"
    BY <1>7, <2>3 DEF KeepsRunning
  <2>5. QED
    BY <1>9, <2>2, <2>4 DEF At
<1>13. HitInv'
  BY <1>1, <1>5, <1>6 DEF HitInv, At, RunState
<1>14. ReturnInv'
  <2> SUFFICES ASSUME place = "return", Top.handler \in {"Run", "Execute", "Continue"}
               PROVE  cpu'.asmBreakpointHit
    BY <1>5, <1>9 DEF ReturnInv, At
  <2>1. ~KeepsRunning(Top, cpu')
    BY <1>7
  <2>2. QED
    BY <1>5, <2>1 DEF KeepsRunning
<1>15. DisabledInv'
  BY <1>1, <1>5, <1>6 DEF DisabledInv
<1>16. QED
  BY <1>9, <1>10, <1>11, <1>12, <1>13, <1>14, <1>15 DEF IInv

-----------------------------------------------------------------------------
(* The ends of the handlers.                                                *)

\* A handler that returns refreshes the window, and is gone.
LEMMA Refreshed ==
    ASSUME IInv, Running, Top.at = "return",
           NEW state \in DebugState, state \notin RunState,
           state = "DISABLED" => window.debugState = "DISABLED",
           window' = Window(state, input.waiting, TRUE),
           \/ /\ stack' = Front(stack)
              /\ cpu' = cpu
           \/ /\ stack' = GoTo("update")
              /\ cpu' = Delivered(cpu),
           finishPosted' \in BOOLEAN, input' = input
    PROVE  IInv'
<1>1. TypeOk /\ StackInv /\ InputInv /\ DisabledInv /\ cpu \in CpuState
  BY DEF IInv, TypeOk
<1>2. "update" \in Place \ {"input", "returning"}
  BY DEF Place
<1>3. /\ StackInv'
      /\ stack' \in Seq(Frame) /\ Len(stack') <= MaxFrames
      /\ ~At("return")'
  BY <1>1, <1>2, Popped, Moved DEF At
<1>4. /\ cpu' \in CpuState
      /\ cpu'.interrupted => cpu.interrupted
      /\ cpu'.inDebug => cpu.inDebug
  <2>1. /\ Finished(cpu) \in CpuState
        /\ ~Finished(cpu).interrupted /\ ~Finished(cpu).inDebug
    BY <1>1 DEF Finished, CpuState
  <2>2. QED
    BY <1>1, <2>1 DEF Delivered
<1>5. /\ window' \in WindowState /\ window'.debugState = state /\ window'.connected
      /\ window'.enabled = Actions(state, input.waiting)
      /\ input.waiting => window'.enabled \cap Stepping = {}
  BY <1>1, Parts, WindowFacts
<1>6. TypeOk'
  BY <1>1, <1>3, <1>4, <1>5 DEF TypeOk
<1>7. InputInv'
  <2>1. input.waiting => \E i \in 1..Len(stack') : stack'[i].at = "input"
    BY <1>1, <1>2, StillReading
  <2>2. QED
    BY <1>5, <2>1 DEF InputInv
<1>8. RepairInv'
  <2> SUFFICES ASSUME \A i \in 1..Len(stack') : ~Repairing(stack'[i])
               PROVE  ~input.waiting
    BY <1>1, <1>5, Parts DEF RepairInv
  <2>1. \A i \in 1..Len(stack) - 1 : ~Repairing(stack[i])
    <3>1. Len(stack) \in Nat \ {0}
      BY <1>1, TopType
    <3>2. Len(stack') \in {Len(stack) - 1, Len(stack)}
      BY <1>1, <1>2, Popped, Moved
    <3>3. \A i \in 1..Len(stack) - 1 : stack'[i] = stack[i]
      BY <1>1, <1>2, Popped, Moved
    <3>4. QED
      BY <3>1, <3>2, <3>3
  <2>2. QED
    BY <1>1, <2>1, NobodyWaits
<1>9. HitInv' /\ ReturnInv' /\ DisabledInv'
  BY <1>1, <1>3, <1>4, <1>5 DEF HitInv, ReturnInv, DisabledInv
<1>10. QED
  BY <1>3, <1>6, <1>7, <1>8, <1>9 DEF IInv

LEMMA ReturnFromRunStep ==
    ASSUME IInv, ReturnFromRun
    PROVE  IInv'
<1>1. /\ Running /\ Top.at = "return" /\ At("return") /\ ~At("step")
      /\ Top.handler \in {"Run", "Execute"} /\ stack' = Front(stack)
      /\ TypeOk /\ StackInv /\ HitInv /\ ReturnInv /\ cpu \in CpuState
  BY DEF IInv, ReturnFromRun, At, TypeOk
<1>2. CASE cpu.executionFinished
  <2>1. StopDebugging(cpu)
    BY <1>2 DEF ReturnFromRun
  <2>2. StackInv' /\ stack' \in Seq(Frame) /\ Len(stack') <= MaxFrames
    BY <1>1, Popped
  <2>3. QED
    BY <1>1, <2>1, <2>2, Stopped DEF IInv
<1>3. CASE ~cpu.executionFinished
  <2>1. /\ window' = Window(window.debugState, input.waiting, TRUE)
        /\ UNCHANGED <<cpu, input, finishPosted>>
    BY <1>3 DEF ReturnFromRun
  <2>2. window.debugState \in DebugState /\ window.debugState \notin RunState
    BY <1>1, <1>3, Parts DEF ReturnInv, HitInv
  <2>3. finishPosted' \in BOOLEAN
    BY <1>1, <2>1 DEF TypeOk
  <2>4. QED
    BY <1>1, <2>1, <2>2, <2>3, Refreshed
<1>4. QED
  BY <1>2, <1>3

LEMMA ReturnFromContinueStep ==
    ASSUME IInv, ReturnFromContinue
    PROVE  IInv'
<1>1. /\ Running /\ Top.at = "return" /\ At("return") /\ ~At("step")
      /\ Top.handler = "Continue" /\ input' = input
      /\ TypeOk /\ StackInv /\ InputInv /\ HitInv /\ ReturnInv /\ DisabledInv
      /\ finishPosted \in BOOLEAN
  BY DEF IInv, ReturnFromContinue, At, TypeOk
<1>2. CASE cpu.asmBreakpointHit /\ ~cpu.controlError
  <2>1. /\ window' = Window(window.debugState, input.waiting, TRUE)
        /\ stack' = GoTo("update")
        /\ cpu' = Delivered(cpu)
        /\ finishPosted' \in BOOLEAN
    BY <1>2 DEF ReturnFromContinue
  <2>2. window.debugState \in DebugState /\ window.debugState \notin RunState
    BY <1>1, <1>2, Parts DEF HitInv
  <2>3. QED
    BY <1>1, <2>1, <2>2, Refreshed
<1>3. CASE ~(cpu.asmBreakpointHit /\ ~cpu.controlError)
  <2>1. /\ window' = [window EXCEPT !.connected = @ \/ ~cpu.controlError]
        /\ stack' = Front(stack)
        /\ UNCHANGED <<cpu, finishPosted>>
    BY <1>3 DEF ReturnFromContinue
  <2>2. window = Window("DISABLED", FALSE, TRUE)
    BY <1>1, <1>3 DEF ReturnInv
  <2>3. /\ window.debugState = "DISABLED" /\ window.connected
        /\ window.enabled = Actions("DISABLED", FALSE)
    BY <2>2 DEF Window
  <2>4. /\ window' \in WindowState
        /\ window'.debugState = "DISABLED" /\ window'.connected
        /\ window'.enabled = Actions("DISABLED", FALSE)
    BY <1>1, <2>1, <2>3 DEF TypeOk, WindowState
  <2>5. /\ StackInv'
        /\ stack' \in Seq(Frame) /\ Len(stack') <= MaxFrames
        /\ ~At("return")'
    BY <1>1, <2>1, Popped
  <2>6. TypeOk'
    BY <1>1, <2>1, <2>4, <2>5 DEF TypeOk
  <2>7. InputInv'
    <3>1. input.waiting => \E i \in 1..Len(stack') : stack'[i].at = "input"
      BY <1>1, <2>1, StillReading
    <3>2. QED
      BY <1>1, <2>3, <2>4, <3>1 DEF InputInv
  <2>8. RepairInv' /\ HitInv'
    BY <2>4 DEF RepairInv, HitInv, RunState
  <2>9. ReturnInv' /\ DisabledInv'
    BY <1>1, <2>1, <2>3, <2>5 DEF ReturnInv, DisabledInv
  <2>10. QED
    BY <2>5, <2>6, <2>7, <2>8, <2>9 DEF IInv
<1>4. QED
  BY <1>2, <1>3

LEMMA LeaveUpdateStep ==
    ASSUME IInv, LeaveUpdate
    PROVE  IInv'
<1>1. /\ Running /\ Top.at = "update" /\ ~At("return") /\ ~At("step")
      /\ stack' = Front(stack)
      /\ UNCHANGED <<cpu, window, input, finishPosted>>
      /\ TypeOk /\ StackInv /\ InputInv /\ RepairInv /\ HitInv /\ DisabledInv
  BY DEF IInv, LeaveUpdate, At
<1>2. /\ StackInv'
      /\ stack' \in Seq(Frame) /\ Len(stack') <= MaxFrames
      /\ ~At("return")'
      /\ Len(stack') = Len(stack) - 1 /\ Len(stack) \in Nat \ {0}
      /\ \A i \in 1..Len(stack') : stack'[i] = stack[i]
  BY <1>1, Popped
<1>3. TypeOk'
  BY <1>1, <1>2 DEF TypeOk
<1>4. InputInv'
  <2>1. input.waiting => \E i \in 1..Len(stack') : stack'[i].at = "input"
    BY <1>1, StillReading
  <2>2. QED
    BY <1>1, <2>1 DEF InputInv
<1>5. RepairInv'
  <2> SUFFICES ASSUME \A i \in 1..Len(stack') : ~Repairing(stack'[i])
               PROVE  \A i \in 1..Len(stack) : ~Repairing(stack[i])
    BY <1>1 DEF RepairInv
  <2>1. ~Repairing(stack[Len(stack)])
    BY <1>1 DEF Repairing, Top
  <2>2. QED
    BY <1>2, <2>1
<1>6. HitInv' /\ ReturnInv' /\ DisabledInv'
  BY <1>1, <1>2 DEF HitInv, ReturnInv, DisabledInv
<1>7. QED
  BY <1>2, <1>3, <1>4, <1>5, <1>6 DEF IInv

LEMMA ReturnFromStepStep ==
    ASSUME IInv, ReturnFromStep
    PROVE  IInv'
<1>1. /\ Running /\ Top.at = "return" /\ stack' = Front(stack) /\ TypeOk
      /\ UNCHANGED <<cpu, input, finishPosted>>
  BY DEF IInv, ReturnFromStep, At
<1>2. PICK state \in {"DISABLED", "DEBUG_ISA"} :
            /\ state = "DISABLED" => window.debugState = "DISABLED"
            /\ window' = Window(state, input.waiting, TRUE)
  BY DEF ReturnFromStep
<1>3. state \in DebugState /\ state \notin RunState
  BY DEF DebugState, RunState
<1>4. finishPosted' \in BOOLEAN
  BY <1>1 DEF TypeOk
<1>5. QED
  BY <1>1, <1>2, <1>3, <1>4, Refreshed

LEMMA ReturnFromStepIntoStep ==
    ASSUME IInv, ReturnFromStepInto
    PROVE  IInv'
<1>1. /\ Running /\ Top.at = "return" /\ At("return") /\ ~At("step")
      /\ Top.handler = "StepInto" /\ stack' = Front(stack)
      /\ UNCHANGED <<cpu, input, finishPosted>>
      /\ TypeOk /\ StackInv /\ InputInv /\ RepairInv /\ HitInv /\ DisabledInv
  BY DEF IInv, ReturnFromStepInto, At
<1>2. /\ StackInv'
      /\ stack' \in Seq(Frame) /\ Len(stack') <= MaxFrames
      /\ ~At("return")'
      /\ Len(stack') = Len(stack) - 1 /\ Len(stack) \in Nat \ {0}
      /\ \A i \in 1..Len(stack') : stack'[i] = stack[i]
  BY <1>1, Popped
<1>3. /\ window' \in WindowState
      /\ window'.debugState = window.debugState
      /\ window'.connected = window.connected
      /\ window.connected => window'.enabled = Actions(window.debugState, input.waiting)
      /\ input.waiting => window'.enabled \cap Stepping = {}
  <2>1. CASE window.connected
    <3>1. window' = Window(window.debugState, input.waiting, TRUE)
      BY <2>1 DEF ReturnFromStepInto, Updated
    <3>2. QED
      BY <1>1, <2>1, <3>1, Parts, WindowFacts
  <2>2. CASE ~window.connected
    <3>1. window' = window
      BY <2>2 DEF ReturnFromStepInto, Updated
    <3>2. QED
      BY <1>1, <2>2, <3>1 DEF TypeOk, InputInv
  <2>3. QED
    BY <2>1, <2>2
<1>4. TypeOk'
  BY <1>1, <1>2, <1>3 DEF TypeOk
<1>5. InputInv'
  <2>1. input.waiting => \E i \in 1..Len(stack') : stack'[i].at = "input"
    BY <1>1, StillReading
  <2>2. QED
    BY <1>1, <1>3, <2>1 DEF InputInv
<1>6. RepairInv'
  <2> SUFFICES ASSUME \A i \in 1..Len(stack') : ~Repairing(stack'[i])
               PROVE  /\ window'.connected
                      /\ window'.debugState \notin RunState
                      /\ window'.enabled = Actions(window'.debugState, FALSE)
    BY DEF RepairInv
  <2>1. ~Repairing(stack[Len(stack)])
    BY <1>1 DEF Repairing, Top
  <2>2. \A i \in 1..Len(stack) : ~Repairing(stack[i])
    BY <1>2, <2>1
  <2>3. window.connected /\ window.debugState \notin RunState
    BY <1>1, <2>2 DEF RepairInv
  <2>4. ~input.waiting
    BY <1>1, <2>2, TopType, NobodyWaits
  <2>5. QED
    BY <1>1, <1>3, <2>3, <2>4, Parts
<1>7. HitInv' /\ ReturnInv' /\ DisabledInv'
  BY <1>1, <1>2, <1>3 DEF HitInv, ReturnInv, DisabledInv
<1>8. QED
  BY <1>2, <1>4, <1>5, <1>6, <1>7 DEF IInv

-----------------------------------------------------------------------------
(* The invariant, and what it says.                                         *)

LEMMA InitInv == Init => IInv
<1> SUFFICES ASSUME Init
             PROVE  IInv
  OBVIOUS
<1>1. /\ ResetCpu \in CpuState
      /\ ~ResetCpu.interrupted /\ ~ResetCpu.inDebug /\ ~ResetCpu.asmBreakpointHit
  BY DEF ResetCpu, CpuState, Fetched
<1>2. "DISABLED" \in DebugState /\ "DISABLED" \notin RunState
  BY DEF DebugState, RunState
<1>3. /\ window \in WindowState /\ window.debugState = "DISABLED" /\ window.connected
      /\ window.enabled = Actions("DISABLED", FALSE)
  BY <1>2, WindowFacts DEF Init
<1>4. stack = <<>> /\ stack \in Seq(Frame) /\ Len(stack) = 0
  BY DEF Init
<1>5. TypeOk
  <2>1. /\ input \in InputState /\ (input.waiting => input.terminal)
        /\ finishPosted \in BOOLEAN
    BY DEF Init, InputState
  <2>2. cpu \in CpuState
    BY <1>1 DEF Init
  <2>3. Len(stack) <= MaxFrames
    BY <1>4, BoundsAssumption
  <2>4. QED
    BY <1>3, <1>4, <2>1, <2>2, <2>3 DEF TypeOk
<1>6. StackInv
  BY <1>4 DEF StackInv
<1>7. InputInv /\ RepairInv
  BY <1>2, <1>3 DEF Init, InputInv, RepairInv
<1>8. HitInv /\ ReturnInv /\ DisabledInv
  BY <1>1, <1>4 DEF Init, HitInv, ReturnInv, DisabledInv, At, Running
<1>9. QED
  BY <1>5, <1>6, <1>7, <1>8 DEF IInv

LEMMA Stutter == IInv /\ UNCHANGED vars => IInv'
BY DEF vars, IInv, TypeOk, StackInv, InputInv, RepairInv, HitInv, ReturnInv,
       DisabledInv, At, Running, Top

LEMMA Inductive == IInv /\ [Next]_vars => IInv'
<1> SUFFICES ASSUME IInv, [Next]_vars
             PROVE  IInv'
  OBVIOUS
<1>1. CASE UserNext
  BY <1>1, StartRunStep, StartDebuggingStep, InterruptStep, StopStep, ResumeStep,
     StepIntoStep, ClearStep, ClearMemoryStep, AnswerStep DEF UserNext
<1>2. CASE BeginInstruction
  BY <1>2, InstructionStep, RequestStep, ServeStep DEF BeginInstruction
<1>3. CASE CpuNext
  BY <1>2, <1>3, LeaveInputStep, FinishReadStep, LeavePumpStep, AnnounceStep, HandleStep,
     ReturnFromRunStep, ReturnFromContinueStep, LeaveUpdateStep, ReturnFromStepStep,
     ReturnFromStepIntoStep DEF CpuNext
<1>4. CASE DeliverFinished
  BY <1>4, DeliverStep
<1>5. CASE UNCHANGED vars
  BY <1>5, Stutter
<1>6. QED
  BY <1>1, <1>3, <1>4, <1>5 DEF Next

\* Whatever the user clicks while a program runs, and however deep the handlers
\* nest, the damage a running handler does to the window is repaired below it.
THEOREM Invariant == Spec => []IInv
BY InitInv, Inductive, PTL DEF Spec

\* The variables hold values of their types, in any nesting of the handlers.
THEOREM SessionTypes == Spec => []TypeOk
<1>1. IInv => TypeOk
  BY DEF IInv
<1>2. QED
  BY <1>1, Invariant, PTL

\* When the last handler has returned the window is disabled or paused and
\* offers the buttons of that state (handleDebugButtons).
THEOREM WindowSettles == Spec => []AtRest
<1>1. IInv => AtRest
  <2> SUFFICES ASSUME IInv, ~Running
               PROVE  /\ window.debugState \in {"DISABLED", "DEBUG_ISA"}
                      /\ window.enabled = Actions(window.debugState, FALSE)
    BY DEF AtRest
  <2>1. Len(stack) = 0 /\ ~At("return")
    BY DEF Running, At
  <2>2. /\ window.debugState \notin RunState
        /\ window.enabled = Actions(window.debugState, FALSE)
    <3>1. \A i \in 1..Len(stack) : ~Repairing(stack[i])
      BY <2>1
    <3>2. QED
      BY <2>1, <3>1 DEF IInv, RepairInv
  <2>3. window.debugState \in DebugState
    BY Parts DEF IInv
  <2>4. QED
    BY <2>2, <2>3 DEF DebugState, RunState
<1>2. QED
  BY <1>1, Invariant, PTL

\* When the last handler has returned the views follow the machine again
\* (connectViewUpdate).
THEOREM ViewsReconnect == Spec => []ViewsLiveAtRest
<1>1. IInv => ViewsLiveAtRest
  <2> SUFFICES ASSUME IInv, ~Running
               PROVE  window.connected
    BY DEF ViewsLiveAtRest
  <2>1. Len(stack) = 0
    BY DEF Running
  <2>2. \A i \in 1..Len(stack) : ~Repairing(stack[i])
    BY <2>1
  <2>3. QED
    BY <2>2 DEF IInv, RepairInv
<1>2. QED
  BY <1>1, Invariant, PTL

\* No interrupt, and no debug mode, crosses from one session into the next
\* (clearQueuedInterrupts in onSimulationFinished).
THEOREM SessionsAreSeparate == Spec => []NoInterruptOutlivesSession
<1>1. IInv => NoInterruptOutlivesSession
  BY DEF IInv, DisabledInv, NoInterruptOutlivesSession
<1>2. QED
  BY <1>1, Invariant, PTL

\* No step is offered while the chip waits for input, wherever the event loop
\* is pumped (handleDebugButtons); InputInv says which read it waits in.
THEOREM WaitingDisablesStepping == Spec => []NoSteppingWhileWaiting
<1>1. IInv => NoSteppingWhileWaiting
  BY DEF IInv, InputInv, NoSteppingWhileWaiting
<1>2. QED
  BY <1>1, Invariant, PTL

=============================================================================
