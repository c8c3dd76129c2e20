------------------------------ MODULE BatchRun ------------------------------
(***************************************************************************)
(* Pep9Term: one subcommand, carried out by a helper on a thread of the    *)
(* pool while the main thread runs the event loop that serves the helper   *)
(* and is to end when the helper is finished.                              *)
(*                                                                         *)
(* The helper belongs to the main thread, the CPU and the memory to the    *)
(* worker.  The memory's signals block the worker until the main thread    *)
(* has handled them; simulationFinished is posted and blocks nobody.  When *)
(* run() returns, the pool deletes the helper on the worker's thread.      *)
(*                                                                         *)
(* `worker` is where the worker is:                                        *)
(*   starting   run() up to the first instruction                          *)
(*   executing  before an instruction        accessed   in it, after its   *)
(*   blocked    in a blocking signal           access to a port            *)
(*   returning  in readByte, after its request                             *)
(*   testing    at the loop's condition      ended      onRun has returned *)
(*   deleting   run() has returned           idle       the helper is gone *)
(* `main` is where the main thread is:                                     *)
(*   loop       in the event loop                                          *)
(*   finishing  in onSimulationFinished's processEvents                    *)
(*   waiting    out of the loop, in the destructor of the pool             *)
(*   exited     aborted                                                    *)
(***************************************************************************)
EXTENDS MemoryIO, FiniteSets

CONSTANTS
    Inputs,    \* texts of input files
    MaxSteps,  \* maxSimSteps: the limit of the command line
    MaxLines   \* bound: lines of a microprogram

ASSUME BatchAssumption ==
    /\ Inputs \subseteq Seq(Char)
    /\ MaxSteps \in Nat \ {0}
    /\ MaxLines \in Nat \ {0}

VARIABLES
    job,           \* the subcommand
    text,          \* what is buffered for the program when it starts
    worker, main,
    events,        \* events posted to the main thread, oldest first
    quitting,      \* quit() was called
    steps,         \* asmInstructionCounter, or the lines executed
    finished,      \* executionFinished
    memoryError,   \* memory->hadError()
    controlError,  \* controlError, and the data section's hadErrorOnStep()
    errorMessage,  \* errorMessage, which goes with controlError
    pending,       \* the character that the blocked worker writes
    file,          \* the output file, or the error log, of the subcommand
    written,       \* history: what the program wrote to charOut
    read           \* history: what its reads of charIn returned

runVars == <<steps, finished, memoryError, controlError, errorMessage>>
threads == <<job, text, worker, main, events, quitting>>
files == <<file, written>>
vars == <<portVars, threads, runVars, pending, files, read>>

Jobs == {"asm", "cpuasm", "cpurun", "run"}

ENDLESS == "[[Possible endless loop detected.]]"
MEMORY == "[[memory error]]"
CONTROL == "[[an instruction, or a line of a microprogram, failed]]"
ERRORS == "errors"     \* assembly errors, or a postcondition that fails
OBJECT == "object code"

NoMessage == ""

Message == {ENDLESS, MEMORY, CONTROL, ERRORS, OBJECT}

\* Events by their receiver: the helper, and the application.
ToHelper == {"inputRequested", "outputWritten", "simulationFinished"}
Event == ToHelper \cup {"quit"}

Over == main \in {"exited", "aborted"}

TypeOk ==
    /\ PortTypeOk
    /\ job \in Jobs
    /\ text \in Seq(Char \cup {NL})
    /\ worker \in {"starting", "executing", "accessed", "blocked",
                   "returning", "testing", "ended", "deleting", "idle"}
    /\ main \in {"loop", "finishing", "waiting", "exited", "aborted"}
    /\ events \in Seq(Event)
    /\ quitting \in BOOLEAN
    /\ steps \in Nat
    /\ finished \in BOOLEAN /\ memoryError \in BOOLEAN /\ controlError \in BOOLEAN
    /\ errorMessage \in {NoMessage, CONTROL, ENDLESS}
    /\ pending \in Char \cup {NUL}
    /\ file \in Seq(Char \cup Message)
    /\ written \in Seq(Char)
    /\ read \in Seq(Byte)

\* The helper is created and given to the pool before the loop starts.
Init ==
    /\ PortInit
    /\ job \in Jobs
    /\ text = <<>>
    /\ worker = "starting"
    /\ main = "loop"
    /\ events = <<>>
    /\ quitting = FALSE
    /\ steps = 0
    /\ finished = FALSE /\ memoryError = FALSE /\ controlError = FALSE
    /\ errorMessage = NoMessage
    /\ pending = NUL
    /\ file = <<>>
    /\ written = <<>>
    /\ read = <<>>

Post(event) == events' = Append(events, event)

Posted(event) == \E i \in DOMAIN events : events[i] = event

-----------------------------------------------------------------------------
(* The worker.                                                              *)

\* ASMBuildHelper::run: errors or warnings are written to the log, the object
\* code unless there are errors, and finished() is posted to the application.
BuildProgram ==
    /\ worker = "starting"
    /\ job = "asm"
    /\ file' \in {<<ERRORS>>, <<OBJECT>>, <<ERRORS, OBJECT>>}
    /\ Post("quit")
    /\ worker' = "deleting"
    /\ UNCHANGED <<portVars, job, text, main, quitting, runVars, pending, written, read>>

\* CPUBuildHelper::run, which checks a microprogram and keeps only its errors.
BuildMicroprogram ==
    /\ worker = "starting"
    /\ job = "cpuasm"
    /\ file' \in {<<ERRORS>>, <<>>}
    /\ Post("quit")
    /\ worker' = "deleting"
    /\ UNCHANGED <<portVars, job, text, main, quitting, runVars, pending, written, read>>

\* runProgram of ASMRunHelper: the input file, or nothing, and a line feed are
\* buffered.
StartRun(input) ==
    /\ worker = "starting"
    /\ job = "run"
    /\ text' = Append(input, NL)
    /\ OnInputReceived(Append(input, NL))
    /\ worker' = "executing"
    /\ UNCHANGED <<job, main, events, quitting, runVars, pending, files, read>>

\* A file that cannot be opened throws on the thread of the pool.
CannotOpen ==
    /\ worker = "starting"
    /\ job = "run"
    /\ ~Over
    /\ main' = "aborted"
    /\ UNCHANGED <<portVars, job, text, worker, events, quitting, runVars, pending, files, read>>

\* runProgram of CPURunHelper, up to onRun: a microprogram or preconditions
\* with errors go into the log, and run() posts finished() nevertheless.
StartMicroprogram ==
    /\ worker = "starting"
    /\ job = "cpurun"
    /\ \/ worker' = "executing" /\ UNCHANGED <<events, file>>
       \/ worker' = "deleting" /\ file' = <<ERRORS>> /\ Post("quit")
    /\ UNCHANGED <<portVars, job, text, main, quitting, runVars, pending, written, read>>

\* An instruction that uses no port, up to its end; a line of a microprogram.
Compute ==
    /\ worker = "executing"
    /\ worker' = "accessed"
    /\ UNCHANGED <<portVars, job, text, main, events, quitting, runVars, pending, files, read>>

\* An instruction reads charIn.
ReadBuffered ==
    /\ worker = "executing"
    /\ job = "run"
    /\ ServeFromBuffer
    /\ worker' = "returning"
    /\ UNCHANGED <<job, text, main, events, quitting, runVars, pending, files, read>>

AskForInput ==
    /\ worker = "executing"
    /\ job = "run"
    /\ RequestInput
    /\ Post("inputRequested")
    /\ worker' = "blocked"
    /\ UNCHANGED <<job, text, main, quitting, runVars, pending, files, read>>

ReturnRead ==
    /\ worker = "returning"
    /\ FinishRead
    /\ read' = Append(read, ReadValue)
    /\ worker' = "accessed"
    /\ UNCHANGED <<job, text, main, events, quitting, runVars, pending, files>>

\* An instruction writes c to charOut.
Write(c) ==
    /\ worker = "executing"
    /\ job = "run"
    /\ pending' = c
    /\ written' = Append(written, c)
    /\ Post("outputWritten")
    /\ worker' = "blocked"
    /\ UNCHANGED <<portVars, job, text, main, quitting, runVars, file, read>>

\* What an instruction leaves of errors: where it may fail, the memory's, its
\* own (an operand that cannot be accessed, a store in immediate mode), or both.
Outcome(mayFail) ==
    /\ memoryError' \in {FALSE, mayFail}
    /\ controlError' \in {FALSE, mayFail}
    /\ errorMessage' = IF controlError' THEN CONTROL ELSE errorMessage

\* Mutant: each instruction announces the end.
EndInstructionAlwaysAnnounced ==
    /\ worker = "accessed"
    /\ steps' = steps + 1
    /\ finished' \in {job = "cpurun" /\ steps' = MaxLines, TRUE}
    /\ Outcome(finished')
    /\ Post("simulationFinished")
    /\ worker' = "testing"
    /\ UNCHANGED <<portVars, job, text, main, quitting, pending, files, read>>

\* The end of onISAStep or onMCStep: the program goes on, stops, or has failed.
\* The last line of a microprogram stops.
EndInstruction ==
    /\ worker = "accessed"
    /\ steps' = steps + 1
    /\ \/ /\ job = "run" \/ steps' < MaxLines
          /\ UNCHANGED <<finished, memoryError, controlError, errorMessage, events>>
       \/ /\ finished' = TRUE
          /\ Outcome(TRUE)
          /\ Post("simulationFinished")
    /\ worker' = "testing"
    /\ UNCHANGED <<portVars, job, text, main, quitting, pending, files, read>>

HadErrorOnStep == memoryError \/ controlError

GoesOn == ~finished /\ ~HadErrorOnStep

\* The condition of BoundExecIsaCpu::onRun: the limit comes first, so that a
\* program that ends with the last step it is allowed counts as endless, and so
\* does one whose last instruction failed: its message is overwritten.
TestOfRun ==
    IF MaxSteps <= steps
    THEN /\ worker' = "ended"
         /\ controlError' = TRUE
         /\ errorMessage' = ENDLESS
         /\ Post("simulationFinished")
    ELSE /\ worker' = IF GoesOn THEN "executing" ELSE "ended"
         /\ UNCHANGED <<controlError, errorMessage, events>>

\* The condition of PartialMicrocodedCPU::onRun.
TestOfMicroprogram ==
    /\ worker' = IF GoesOn THEN "executing" ELSE "ended"
    /\ UNCHANGED <<controlError, errorMessage, events>>

Test ==
    /\ worker = "testing"
    /\ IF job = "run" THEN TestOfRun ELSE TestOfMicroprogram
    /\ UNCHANGED <<portVars, job, text, main, quitting, steps, finished, memoryError,
                   pending, files, read>>

\* Mutant: the message of the control section is preferred.
ErrorMessageControlFirst == IF controlError THEN errorMessage ELSE MEMORY

\* getErrorMessage: the memory's message comes first.
ErrorMessage == IF memoryError THEN MEMORY ELSE errorMessage

\* runProgram of ASMRunHelper after onRun.
ReportRun ==
    /\ worker = "ended"
    /\ job = "run"
    /\ file' = IF HadErrorOnStep THEN Append(file, ErrorMessage) ELSE file
    /\ worker' = "deleting"
    /\ UNCHANGED <<portVars, job, text, main, events, quitting, runVars, pending, written, read>>

\* Mutant: the end is left to simulationFinished.
ReportMicroprogramOnly ==
    /\ worker = "ended"
    /\ job = "cpurun"
    /\ IF HadErrorOnStep THEN file' = <<ErrorMessage>> ELSE file' \in {<<>>, <<ERRORS>>}
    /\ worker' = "deleting"
    /\ UNCHANGED <<portVars, job, text, main, events, quitting, runVars, pending, written, read>>

\* runProgram of CPURunHelper after onRun, and the finished() behind it.
ReportMicroprogram ==
    /\ worker = "ended"
    /\ job = "cpurun"
    /\ IF HadErrorOnStep THEN file' = <<ErrorMessage>> ELSE file' \in {<<>>, <<ERRORS>>}
    /\ Post("quit")
    /\ worker' = "deleting"
    /\ UNCHANGED <<portVars, job, text, main, quitting, runVars, pending, written, read>>

\* What is posted to the application, calls of quit.
Quits ==
    LET quits == {i \in DOMAIN events : events[i] = "quit"}
    IN  [k \in 1..Cardinality(quits) |-> "quit"]

\* The pool deletes the helper: posted calls of its slots are removed.  The
\* main thread may be inside one of them, which goes on with a deleted object.
DeleteHelper ==
    /\ worker = "deleting"
    /\ events' = Quits
    /\ worker' = "idle"
    /\ IF main = "finishing" THEN main' \in {"finishing", "aborted"} ELSE UNCHANGED main
    /\ UNCHANGED <<portVars, job, text, quitting, runVars, pending, files, read>>

-----------------------------------------------------------------------------
(* The main thread.                                                         *)

Delivering(event) ==
    /\ main \in {"loop", "finishing"}
    /\ events # <<>>
    /\ Head(events) = event
    /\ events' = Tail(events)

\* Mutant: a line feed is supplied where the input has ended.
OnInputRequestedSupplies ==
    /\ Delivering("inputRequested")
    /\ chip' = Received(chip, NL)
    /\ worker' = "returning"
    /\ UNCHANGED <<buffered, inputBuffer, waitingOnInput, job, text, main, quitting, runVars,
                   pending, files, read>>

\* ASMRunHelper::onInputRequested: everything was buffered at the start, so
\* that the read is aborted, and the worker goes on.
OnInputRequested ==
    /\ Delivering("inputRequested")
    /\ OnInputAborted
    /\ worker' = "returning"
    /\ UNCHANGED <<job, text, main, quitting, runVars, pending, files, read>>

\* ASMRunHelper::onOutputReceived.
OnOutputReceived ==
    /\ Delivering("outputWritten")
    /\ file' = Append(file, pending)
    /\ worker' = "accessed"
    /\ UNCHANGED <<portVars, job, text, main, quitting, runVars, pending, written, read>>

\* onSimulationFinished up to its processEvents, which may deliver a second one.
OnSimulationFinished ==
    /\ Delivering("simulationFinished")
    /\ main' = "finishing"
    /\ UNCHANGED <<portVars, job, text, worker, quitting, runVars, pending, files, read>>

\* onSimulationFinished emits finished(), a call of quit.  If the helper was
\* deleted meanwhile, finished() may reach nobody.
EmitFinished ==
    /\ main = "finishing"
    /\ main' = "loop"
    /\ quitting' \in IF worker = "idle" THEN {quitting, TRUE} ELSE {TRUE}
    /\ UNCHANGED <<portVars, job, text, worker, events, runVars, pending, files, read>>

OnQuit ==
    /\ Delivering("quit")
    /\ quitting' = TRUE
    /\ UNCHANGED <<portVars, job, text, worker, main, runVars, pending, files, read>>

\* exec returns; events of the same round may still have been delivered.
LeaveLoop ==
    /\ main = "loop"
    /\ quitting
    /\ main' = "waiting"
    /\ UNCHANGED <<portVars, job, text, worker, events, quitting, runVars, pending, files, read>>

\* The destructor of the pool waits for the worker.
Exit ==
    /\ main = "waiting"
    /\ worker = "idle"
    /\ main' = "exited"
    /\ UNCHANGED <<portVars, job, text, worker, events, quitting, runVars, pending, files, read>>

-----------------------------------------------------------------------------

WorkerNext ==
    /\ ~Over
    /\ \/ BuildProgram
       \/ BuildMicroprogram
       \/ \E input \in Inputs \cup {<<>>} : StartRun(input)
       \/ CannotOpen
       \/ StartMicroprogram
       \/ Compute
       \/ ReadBuffered
       \/ AskForInput
       \/ ReturnRead
       \/ \E c \in Char : Write(c)
       \/ EndInstruction
       \/ Test
       \/ ReportRun
       \/ ReportMicroprogram
       \/ DeleteHelper

MainNext ==
    \/ OnInputRequested
    \/ OnOutputReceived
    \/ OnSimulationFinished
    \/ EmitFinished
    \/ OnQuit
    \/ LeaveLoop
    \/ Exit

Next == WorkerNext \/ MainNext

\* Two threads that the system schedules, each for ever.
Fairness == WF_vars(WorkerNext) /\ WF_vars(MainNext)

Spec == Init /\ [][Next]_vars /\ Fairness

-----------------------------------------------------------------------------
(* Properties.                                                              *)

\* A program reads its input file and a line feed, in order and once, and
\* after them end-of-transmission characters: no request is answered with
\* what was answered before, and none is left unanswered.
InputIsReadInOrder ==
    \A i \in DOMAIN read : read[i] = IF i <= Len(text) THEN text[i] ELSE EOT

\* The verdict on a run of a program.
Verdict ==
    CASE memoryError                       -> <<MEMORY>>
      [] ~memoryError /\ steps = MaxSteps  -> <<ENDLESS>>
      [] ~memoryError /\ steps # MaxSteps  -> IF controlError THEN <<CONTROL>> ELSE <<>>

\* When the process exits, the output file has everything that the program
\* wrote, in its order, and after it one message of a failed run: the memory's
\* if it failed, else that of an endless loop exactly when the limit was
\* reached, else that of the instruction that failed; a log has its errors.
\* Two threads write the file, and a third party ends the loop of one.
FileTellsTheRun ==
    main = "exited" =>
        /\ job = "run" => file = written \o Verdict
        /\ job = "cpurun" /\ HadErrorOnStep =>
               file = IF memoryError THEN <<MEMORY>> ELSE <<CONTROL>>
        /\ job = "asm" => file # <<>>

\* The worker never waits for a loop that has ended or is about to: a posted
\* simulationFinished is followed by no call that blocks.
NoCallIntoAStoppedLoop ==
    worker = "blocked" =>
        main = "loop" /\ ~quitting /\ ~Posted("simulationFinished") /\ ~Posted("quit")

\* Each subcommand ends the process, and a program is run to its end or to
\* its limit.  What becomes of the process then is RunShutsDown.
ShutsDown == <>IF job = "run" THEN Over \/ worker = "idle" ELSE Over

\* asmrunhelper.h: when the simulation finishes or is terminated, finished()
\* is emitted so that the application may shut down.  (It is not when the
\* helper is deleted before the posted simulationFinished is delivered.)
RunShutsDown == <>(job = "run" => Over)

=============================================================================
