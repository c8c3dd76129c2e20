----------------------------- MODULE IOSession -----------------------------
(***************************************************************************)
(* Interactive and batch input to a running simulation: the CPU that reads *)
(* the input port, the queued request to the main window, the IO widget,   *)
(* the terminal's nested event loop, and the user who types, stops, or     *)
(* starts another simulation.                                              *)
(*                                                                         *)
(* `reader` is the position of the one CPU read that may be on the stack:  *)
(*   none       no read in progress                                        *)
(*   requested  in onChipInputRequested's processEvents, with the queued   *)
(*              call of the main window's onInputRequested posted          *)
(*   termLoop   in TerminalPane::waitingForInput's `while(waiting)` loop   *)
(*   returning  in InputChip::readByte's own processEvents                 *)
(* User events are handled only where the code pumps the event loop.  The  *)
(* posted call precedes user events that arrive after it, and no second    *)
(* simulation is started while a read is on the stack (DebugSession        *)
(* examines the buttons that permit it).                                   *)
(***************************************************************************)
EXTENDS MemoryIO

CONSTANTS
    BatchTexts,   \* what the batch input pane may hold
    MaxTyped,     \* bound: characters accepted in a session
    MaxReads      \* bound: reads that return in a session

ASSUME SessionAssumption ==
    /\ BatchTexts \subseteq Seq(Char)
    /\ MaxTyped \in Nat
    /\ MaxReads \in Nat

VARIABLES
    tab,          \* the selected tab of the IO widget
    activePane,   \* IOWidget::activePane, cached when a simulation starts
    retString,    \* the line being typed
    termWaiting,  \* TerminalPane::waiting
    running,      \* the window's debugState is not DISABLED
    reader,       \* where the CPU's read is
    accepted,     \* history: what the session handed to the port
    delivered,    \* history: what reads returned of it, in order
    fillers       \* history: how many reads returned NUL or EOT instead

sessionVars == <<tab, activePane, retString, termWaiting, running, reader>>
history == <<accepted, delivered, fillers>>
vars == <<portVars, sessionVars, history>>

Pane == {"terminal", "batch"}
ReaderState == {"none", "requested", "termLoop", "returning"}
Filler == {NUL, EOT}

TypeOk ==
    /\ PortTypeOk
    /\ tab \in Pane
    /\ activePane \in Pane
    /\ retString \in Seq(Char)
    /\ termWaiting \in BOOLEAN
    /\ running \in BOOLEAN
    /\ reader \in ReaderState
    /\ accepted \in Seq(Char \cup {NL})
    /\ delivered \in Seq(Char \cup {NL})
    /\ fillers \in Nat

Init ==
    /\ PortInit
    /\ tab \in Pane
    /\ activePane = "terminal"
    /\ retString = <<>>
    /\ termWaiting = FALSE
    /\ running = FALSE
    /\ reader = "none"
    /\ accepted = <<>>
    /\ delivered = <<>>
    /\ fillers = 0

-----------------------------------------------------------------------------
(* The user and the window.                                                *)

SwitchTab ==
    /\ tab' \in Pane \ {tab}
    /\ UNCHANGED <<portVars, activePane, retString, termWaiting, running,
                   reader, history>>

\* The state common to both panes when a simulation starts: IOWidget::onClear
\* empties the line being typed, onSimulationStart caches the selected tab.
BeginSession ==
    /\ ~running
    /\ reader = "none"
    /\ running' = TRUE
    /\ retString' = <<>>
    /\ activePane' = tab
    /\ delivered' = <<>>
    /\ fillers' = 0
    /\ UNCHANGED <<tab, termWaiting, reader>>

\* on_actionBuild_Run and the Start_Debugging handlers reload the operating
\* system and so clear memory; on_actionBuild_Execute keeps it.
PortAtStart ==
    \/ ClearMemory
    \/ UNCHANGED portVars

StartInteractive ==
    /\ BeginSession
    /\ tab = "terminal"
    /\ PortAtStart
    /\ accepted' = <<>>

\* The whole batch text is handed to memory before the first instruction.
StartBatch(text) ==
    /\ BeginSession
    /\ tab = "batch"
    /\ \/ /\ OnInputReceived(text \o <<NL>>)          \* Execute
       \/ /\ chip' = ChipAfterClearMemory              \* ClearMemory first
          /\ buffered' = TRUE
          /\ inputBuffer' = text \o <<NL>>
          /\ waitingOnInput' = FALSE
    /\ accepted' = text \o <<NL>>

KeyPress(c) ==
    /\ reader = "termLoop"
    /\ termWaiting
    /\ Len(accepted) + Len(retString) + 1 < MaxTyped
    /\ retString' = Append(retString, c)
    /\ UNCHANGED <<portVars, tab, activePane, termWaiting, running, reader, history>>

Backspace ==
    /\ reader = "termLoop"
    /\ termWaiting
    /\ retString # <<>>
    /\ retString' = SubSeq(retString, 1, Len(retString) - 1)
    /\ UNCHANGED <<portVars, tab, activePane, termWaiting, running, reader, history>>

\* Mutant: the line is handed over and not reset.
EnterKeepsLine ==
    /\ reader = "termLoop"
    /\ termWaiting
    /\ Len(accepted) + Len(retString) < MaxTyped
    /\ termWaiting' = FALSE
    /\ OnInputReceived(retString \o <<NL>>)
    /\ accepted' = accepted \o retString \o <<NL>>
    /\ retString' = retString \o <<NL>>
    /\ UNCHANGED <<tab, activePane, running, reader, delivered, fillers>>

Enter ==
    /\ reader = "termLoop"
    /\ termWaiting
    /\ Len(accepted) + Len(retString) < MaxTyped
    /\ termWaiting' = FALSE
    /\ OnInputReceived(retString \o <<NL>>)
    /\ accepted' = accepted \o retString \o <<NL>>
    /\ retString' = <<>>
    /\ UNCHANGED <<tab, activePane, running, reader, delivered, fillers>>

\* Mutant: the terminal is not told that nobody waits any more.
StopWithoutCancelWaiting ==
    /\ running' = FALSE
    /\ ClearIO
    /\ UNCHANGED <<tab, activePane, retString, termWaiting>>

\* on_actionDebug_Stop_Debugging.  IOWidget::cancelWaiting reaches the
\* terminal only when it is the active pane.
StopDebugging ==
    /\ running' = FALSE
    /\ ClearIO
    /\ termWaiting' = IF activePane = "terminal" THEN FALSE ELSE termWaiting
    /\ UNCHANGED <<tab, activePane, retString>>

\* The Stop button: in the terminal's loop, in readByte's processEvents, or
\* between instructions.
Stop ==
    /\ running
    /\ reader # "requested"
    /\ StopDebugging
    /\ UNCHANGED <<reader, history>>

-----------------------------------------------------------------------------
(* The CPU.                                                                *)

ReadByte ==
    /\ running
    /\ reader = "none"
    /\ Len(delivered) + fillers < MaxReads
    /\ \/ ServeFromBuffer /\ reader' = "returning"
       \/ RequestInput /\ reader' = "requested"
    /\ UNCHANGED <<tab, activePane, retString, termWaiting, running, history>>

\* The posted onInputRequested: IOWidget::onDataRequested aborts the read in
\* batch mode and enters the terminal's loop in interactive mode.
OnDataRequested ==
    /\ reader = "requested"
    /\ \/ /\ activePane = "batch"
          /\ OnInputAborted
          /\ reader' = "returning"
          /\ UNCHANGED termWaiting
       \/ /\ activePane = "terminal"
          /\ termWaiting' = TRUE
          /\ reader' = "termLoop"
          /\ UNCHANGED portVars
    /\ UNCHANGED <<tab, activePane, retString, running, history>>

LeaveTerminalLoop ==
    /\ reader = "termLoop"
    /\ ~termWaiting
    /\ reader' = "returning"
    /\ UNCHANGED <<portVars, tab, activePane, retString, termWaiting, running, history>>

\* The read returns a byte to the instruction that asked for it.
ReadSucceeds ==
    /\ reader = "returning"
    /\ ~ReadFails
    /\ FinishRead
    /\ reader' = "none"
    /\ IF ReadValue \in Filler
       THEN fillers' = fillers + 1 /\ UNCHANGED delivered
       ELSE delivered' = Append(delivered, ReadValue) /\ UNCHANGED fillers
    /\ UNCHANGED <<tab, activePane, retString, termWaiting, running, accepted>>

\* The read fails: the instruction ends in "Failed to perform memory access",
\* the CPU emits simulationFinished, and the window stops the session.
ReadIsCanceled ==
    /\ reader = "returning"
    /\ ReadFails
    /\ StopDebugging
    /\ reader' = "none"
    /\ UNCHANGED history

\* The program ends by itself: the CPU's simulationFinished.
SimulationFinished ==
    /\ running
    /\ reader = "none"
    /\ StopDebugging
    /\ UNCHANGED <<reader, history>>

-----------------------------------------------------------------------------

UserNext ==
    \/ SwitchTab
    \/ StartInteractive
    \/ \E text \in BatchTexts : StartBatch(text)
    \/ \E c \in Char : KeyPress(c)
    \/ Backspace
    \/ Enter
    \/ Stop

ReadNext ==
    \/ OnDataRequested
    \/ LeaveTerminalLoop
    \/ ReadSucceeds
    \/ ReadIsCanceled

Next == UserNext \/ ReadByte \/ SimulationFinished \/ ReadNext

\* The event loop keeps running: a posted call is delivered and a nested loop
\* re-tests its condition.  Nothing is assumed of the user.
Spec == Init /\ [][Next]_vars /\ WF_vars(ReadNext)

-----------------------------------------------------------------------------
(* Safety.                                                                 *)

\* The byte a read has been given and has not yet returned.
InFlight ==
    IF /\ reader \in {"termLoop", "returning"}
       /\ ~chip.waiting
       /\ ~chip.requestCanceled
       /\ ~chip.requestAborted
       /\ chip.memory \notin Filler
    THEN <<chip.memory>>
    ELSE <<>>

\* While the simulation runs, every character the user typed or the batch
\* pane held is returned exactly once and in order, is in the chip on its way
\* to the CPU, or is still buffered (MainMemory::onInputReceived,
\* onChipInputRequested and InputChip::readByte together).
NoCharacterLost ==
    running => delivered \o InFlight \o inputBuffer = accepted

\* Memory never holds buffered input for an address whose chip still waits,
\* and its own set of waiting addresses covers every waiting chip, so that
\* clearIO cancels it.  The branch of clearIO that hands the chip an absolute
\* address (mainmemory.cpp:323) is therefore unreachable.
BufferedNeverWaiting ==
    chip.waiting => /\ ~buffered
                    /\ waitingOnInput
                    /\ reader \in {"requested", "termLoop"}

\* The terminal's nested loop spins exactly while the chip under it waits:
\* neither can be released without the other (TerminalPane::waiting against
\* InputChip::waiting, set by different objects).
TerminalAgreesWithChip ==
    reader = "termLoop" => (termWaiting <=> chip.waiting)

\* Input, requests and the terminal's wait end with their session: none is
\* left to be consumed by the next simulation, even by Execute, which starts
\* without clearing memory.
NothingOutlivesSession ==
    ~running => ~buffered /\ ~waitingOnInput /\ ~chip.waiting /\ ~termWaiting

\* In batch mode the program sees the error character only after it has read
\* the whole text and its terminator.
EotOnlyAtEnd ==
    activePane = "batch" /\ fillers > 0 => delivered = accepted

\* A read fails only because the session was stopped under it.
FailureMeansStopped ==
    reader # "none" /\ ReadFails => ~running

\* What else the port's flags and the reader's position have to do with each
\* other: the facts the conjuncts above need to be inductive.
ReaderInv ==
    /\ inputBuffer \in Seq(Char \cup {NL})
    /\ ~buffered => inputBuffer = <<>>
    /\ chip.waiting => ~chip.requestCanceled /\ ~chip.requestAborted
    /\ reader = "requested" => running /\ chip.waiting
    /\ reader = "termLoop" => activePane = "terminal" /\ ~chip.requestAborted
    /\ termWaiting => reader = "termLoop"

\* The inductive invariant behind the theorems of IOSession_proofs.
IInv ==
    /\ TypeOk
    /\ ReaderInv
    /\ BufferedNeverWaiting
    /\ TerminalAgreesWithChip
    /\ NothingOutlivesSession
    /\ FailureMeansStopped
    /\ NoCharacterLost

-----------------------------------------------------------------------------
(* Liveness.                                                               *)

\* A read that has been served, aborted or canceled returns to the CPU, and a
\* batch read always does: no nested event loop outlives its reason.
UnblockedReadReturns ==
    (reader # "none" /\ (~chip.waiting \/ activePane = "batch")) ~> (reader = "none")

-----------------------------------------------------------------------------
(* The abstract specification this module implements.                      *)

Stream == INSTANCE InputStream WITH
    Item <- Char \cup {NL},
    open <- running,
    unread <- InFlight \o inputBuffer,
    reading <- reader # "none",
    log <- delivered

\* The input port, seen by the program, is a stream that is read in order.
ImplementsStream == Stream!Spec

=============================================================================
