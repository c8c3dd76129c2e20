------------------------------ MODULE MemoryIO ------------------------------
(***************************************************************************)
(* The memory-mapped input port: MainMemory's input buffer and the one     *)
(* InputChip that every Pep/9 memory map installs (a single byte at        *)
(* charIn, asmmainwindow.cpp:803).  A CPU read of the port is not a        *)
(* function call that returns at once: InputChip::readByte raises a        *)
(* request, pumps the event loop, and only then looks at what arrived.     *)
(*                                                                         *)
(* This module gives the port's state and one operator per handler.  Each  *)
(* handler is an action on the port's variables alone; IOSession composes  *)
(* them with the terminal, the IO widget and the running simulation.       *)
(***************************************************************************)
EXTENDS Sequences, Naturals

CONSTANTS
    Char,   \* characters a user can type or a batch file can hold
    NL,     \* the line terminator the widgets append
    NUL,    \* QByteArray::front() of an empty array
    EOT     \* AMemoryChip's errorChar, returned by an aborted read

ASSUME CharAssumption ==
    /\ NL \notin Char
    /\ NUL \notin Char \cup {NL, EOT}
    /\ EOT \notin Char \cup {NL}

Byte == Char \cup {NL, NUL, EOT}

VARIABLES
    chip,           \* the InputChip: its byte and its three request flags
    buffered,       \* inputBuffer.contains(charIn)
    inputBuffer,    \* inputBuffer[charIn]; <<>> when there is no entry
    waitingOnInput  \* waitingOnInput.contains(charIn)

portVars == <<chip, buffered, inputBuffer, waitingOnInput>>

ChipState == [memory : Byte, waiting : BOOLEAN,
              requestCanceled : BOOLEAN, requestAborted : BOOLEAN]

PortTypeOk ==
    /\ chip \in ChipState
    /\ buffered \in BOOLEAN
    /\ inputBuffer \in Seq(Byte)
    /\ waitingOnInput \in BOOLEAN

\* InputChip::clear: the byte is zeroed and no request is outstanding.
ClearedChip == [memory |-> NUL, waiting |-> FALSE,
                requestCanceled |-> FALSE, requestAborted |-> FALSE]

PortInit ==
    /\ chip = ClearedChip
    /\ buffered = FALSE
    /\ inputBuffer = <<>>
    /\ waitingOnInput = FALSE

-----------------------------------------------------------------------------
(* A read begins: InputChip::readByte up to its processEvents, with the     *)
(* direct call of MainMemory::onChipInputRequested that it makes.           *)

\* `inputBuffer[address].front()` does not look at the length.
Front(s) == IF s = <<>> THEN NUL ELSE Head(s)

\* Mutant: the served entry is removed whole.
RemoveEntry(s) == <<>>

\* `inputBuffer[address].remove(0, 1)` of an empty array removes nothing.
RemoveFront(s) == IF s = <<>> THEN <<>> ELSE Tail(s)

\* Mutant: a canceled request is remembered by the next one.
RequestedStillCanceled(c) == [c EXCEPT !.waiting = TRUE, !.requestAborted = FALSE]

Requested(c) == [c EXCEPT !.waiting = TRUE,
                          !.requestCanceled = FALSE,
                          !.requestAborted = FALSE]

\* Mutant: the byte is stored, and the chip goes on waiting.
ReceivedStillWaiting(c, value) == [c EXCEPT !.memory = value]

\* InputChip::onInputReceived leaves the two other flags alone.
Received(c, value) == [c EXCEPT !.memory = value, !.waiting = FALSE]

\* Mutant: the front is served and never removed.
ServeWithoutRemoving ==
    /\ buffered
    /\ chip' = Received(Requested(chip), Front(inputBuffer))
    /\ UNCHANGED <<inputBuffer, buffered, waitingOnInput>>

ServeFromBuffer ==
    /\ buffered
    /\ chip' = Received(Requested(chip), Front(inputBuffer))
    /\ inputBuffer' = RemoveFront(inputBuffer)
    /\ buffered' = (RemoveFront(inputBuffer) # <<>>)
    /\ UNCHANGED waitingOnInput

RequestInput ==
    /\ ~buffered
    /\ chip' = Requested(chip)
    /\ waitingOnInput' = TRUE
    /\ UNCHANGED <<buffered, inputBuffer>>

-----------------------------------------------------------------------------
(* What the widgets do to the port while a read is outstanding.             *)

\* Mutant: the character that serves the waiting chip is buffered as well.
OnInputReceivedTwice(text) ==
    IF chip.waiting
    THEN /\ chip' = Received(chip, Head(text))
         /\ inputBuffer' = text
         /\ buffered' = TRUE
         /\ waitingOnInput' = FALSE
    ELSE /\ inputBuffer' = inputBuffer \o text
         /\ buffered' = TRUE
         /\ UNCHANGED <<chip, waitingOnInput>>

\* MainMemory::onInputReceived for a non-empty text.  IOWidget::onInputReady
\* calls it once per character; the calls compose to one call with the whole
\* line, because the first leaves an entry the others are appended to.
OnInputReceived(text) ==
    IF chip.waiting
    THEN /\ chip' = Received(chip, Head(text))
         /\ inputBuffer' = Tail(text)
         /\ buffered' = TRUE
         /\ waitingOnInput' = FALSE
    ELSE /\ inputBuffer' = inputBuffer \o text
         /\ buffered' = TRUE
         /\ UNCHANGED <<chip, waitingOnInput>>

Canceled(c) == [c EXCEPT !.waiting = FALSE, !.requestCanceled = TRUE]

OnInputAborted ==
    /\ chip' = [chip EXCEPT !.waiting = FALSE, !.requestAborted = TRUE]
    /\ UNCHANGED <<buffered, inputBuffer, waitingOnInput>>

\* Mutant: waiting requests are canceled, buffered input stays.
ClearIOKeepsBuffer ==
    /\ chip' = IF waitingOnInput THEN Canceled(chip) ELSE chip
    /\ waitingOnInput' = FALSE
    /\ UNCHANGED <<buffered, inputBuffer>>

\* MainMemory::clearIO.  Its first loop, over the buffered addresses whose
\* chip is waiting, hands the chip an absolute address where an offset is
\* due; BufferedNeverWaiting (IOSession) shows no state reaches it.
ClearIO ==
    /\ chip' = IF waitingOnInput THEN Canceled(chip) ELSE chip
    /\ buffered' = FALSE
    /\ inputBuffer' = <<>>
    /\ waitingOnInput' = FALSE

\* MainMemory::clearMemory, which ends in clearIO: the chip is cleared first,
\* and a waiting address is then canceled on the cleared chip.
ChipAfterClearMemory ==
    IF waitingOnInput THEN Canceled(ClearedChip) ELSE ClearedChip

ClearMemory ==
    /\ chip' = ChipAfterClearMemory
    /\ buffered' = FALSE
    /\ inputBuffer' = <<>>
    /\ waitingOnInput' = FALSE

-----------------------------------------------------------------------------
(* A read returns: InputChip::readByte after its processEvents.             *)

ReadFails == chip.requestCanceled

ReadValue == IF chip.requestAborted THEN EOT ELSE chip.memory

FinishRead ==
    /\ chip' = IF ~ReadFails THEN [chip EXCEPT !.memory = ReadValue] ELSE chip
    /\ UNCHANGED <<buffered, inputBuffer, waitingOnInput>>

=============================================================================
