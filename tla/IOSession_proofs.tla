-------------------------- MODULE IOSession_proofs --------------------------
(***************************************************************************)
(* Proofs about IOSession, for every alphabet, every set of batch texts    *)
(* and every bound on a session.                                           *)
(*                                                                         *)
(* The invariant is proved in two layers.  Control is about flags and      *)
(* positions only and holds by cases on the reader's position; the second  *)
(* layer adds the sequences, where each action is one rearrangement of     *)
(* delivered \o InFlight \o inputBuffer.                                   *)
(***************************************************************************)
EXTENDS IOSession, SequenceTheorems, TLAPS

Item == Char \cup {NL}

-----------------------------------------------------------------------------
(* Sequences.                                                              *)

\* A non-empty sequence is its head followed by its tail.
LEMMA HeadThenTail ==
    ASSUME NEW S, NEW s \in Seq(S), s # <<>>
    PROVE  /\ Head(s) \in S
           /\ Tail(s) \in Seq(S)
           /\ <<Head(s)>> \in Seq(S)
           /\ <<Head(s)>> \o Tail(s) = s
<1>1. Head(s) \in S /\ Tail(s) \in Seq(S)
  BY HeadTailProperties
<1>2. <<Head(s)>> \in Seq(S)
  BY <1>1
<1>3. Len(s) \in Nat /\ Len(s) >= 1
  BY EmptySeq, LenProperties
<1>4. SubSeq(s, 1, Len(s)) = <<s[1]>> \o SubSeq(s, 2, Len(s))
  BY <1>3, SubSeqRecursiveFirst
<1>5. QED
  BY <1>1, <1>2, <1>3, <1>4, SubSeqFull, TailIsSubSeq

\* Appending an item is concatenating the sequence that holds it alone.
LEMMA AppendIsItemConcat ==
    ASSUME NEW S, NEW s \in Seq(S), NEW e \in S
    PROVE  /\ Append(s, e) \in Seq(S)
           /\ Append(s, e) = s \o <<e>>
  OBVIOUS

\* A typed or batch line is a non-empty sequence of items.
LEMMA LineIsItems ==
    ASSUME NEW s \in Seq(Char)
    PROVE  /\ s \in Seq(Item)
           /\ s \o <<NL>> \in Seq(Item)
           /\ s \o <<NL>> # <<>>
<1>1. s \in Seq(Item)
  BY SeqMonotonic DEF Item
<1>2. <<NL>> \in Seq(Item)
  BY DEF Item
<1>3. QED
  BY <1>1, <1>2, ConcatProperties

-----------------------------------------------------------------------------
(* The port layer: what each handler of MemoryIO does to the port.         *)

PortInv ==
    /\ PortTypeOk
    /\ inputBuffer \in Seq(Item)
    /\ ~buffered => inputBuffer = <<>>
    /\ chip.waiting => /\ ~buffered
                       /\ waitingOnInput
                       /\ ~chip.requestCanceled
                       /\ ~chip.requestAborted

\* A read served from the buffer leaves a chip that no longer waits and holds
\* the front of the buffer.
LEMMA ServePort ==
    ASSUME PortInv, ServeFromBuffer
    PROVE  /\ PortInv'
           /\ ~chip'.waiting /\ ~chip'.requestCanceled /\ ~chip'.requestAborted
           /\ chip'.memory = Front(inputBuffer)
<1>1. Front(inputBuffer) \in Byte /\ RemoveFront(inputBuffer) \in Seq(Item)
  BY HeadThenTail DEF PortInv, Front, RemoveFront, Byte, Item
<1>2. RemoveFront(inputBuffer) \in Seq(Byte)
  BY <1>1, SeqMonotonic DEF Byte, Item
<1>3. /\ Requested(chip) \in ChipState
      /\ ~Requested(chip).requestCanceled
      /\ ~Requested(chip).requestAborted
  BY DEF PortInv, PortTypeOk, ChipState, Requested
<1>4. chip' = Received(Requested(chip), Front(inputBuffer))
  BY DEF ServeFromBuffer
<1>5. /\ chip' \in ChipState
      /\ chip'.memory = Front(inputBuffer)
      /\ ~chip'.waiting /\ ~chip'.requestCanceled /\ ~chip'.requestAborted
  BY <1>1, <1>3, <1>4 DEF Received, ChipState
<1>6. QED
  BY <1>1, <1>2, <1>5 DEF PortInv, PortTypeOk, ServeFromBuffer

\* A read that finds no entry leaves a chip that waits, known to memory.
LEMMA RequestPort ==
    ASSUME PortInv, RequestInput
    PROVE  PortInv' /\ chip'.waiting
<1>1. /\ chip' \in ChipState
      /\ chip'.waiting
      /\ ~chip'.requestCanceled
      /\ ~chip'.requestAborted
  BY DEF PortInv, PortTypeOk, RequestInput, Requested, ChipState
<1>2. QED
  BY <1>1 DEF PortInv, PortTypeOk, RequestInput

\* A line that arrives is split between the chip, if it waits, and the buffer.
LEMMA ReceivePort ==
    ASSUME PortInv, NEW text \in Seq(Item), text # <<>>, OnInputReceived(text)
    PROVE  /\ PortInv'
           /\ ~chip'.waiting
           /\ chip'.requestCanceled = chip.requestCanceled
           /\ chip'.requestAborted = chip.requestAborted
           /\ waitingOnInput' => waitingOnInput
<1>1. CASE chip.waiting
  <2>1. Head(text) \in Byte /\ Tail(text) \in Seq(Item)
    BY HeadThenTail DEF Byte, Item
  <2>2. Tail(text) \in Seq(Byte)
    BY <2>1, SeqMonotonic DEF Byte, Item
  <2>3. chip' = Received(chip, Head(text)) /\ inputBuffer' = Tail(text)
        /\ buffered' = TRUE /\ waitingOnInput' = FALSE
    BY <1>1 DEF OnInputReceived
  <2>4. /\ chip' \in ChipState
        /\ ~chip'.waiting
        /\ chip'.requestCanceled = chip.requestCanceled
        /\ chip'.requestAborted = chip.requestAborted
    BY <2>1, <2>3 DEF PortInv, PortTypeOk, Received, ChipState
  <2>5. QED
    BY <2>1, <2>2, <2>3, <2>4 DEF PortInv, PortTypeOk
<1>2. CASE ~chip.waiting
  <2>1. inputBuffer' = inputBuffer \o text /\ buffered' = TRUE
        /\ chip' = chip /\ waitingOnInput' = waitingOnInput
    BY <1>2 DEF OnInputReceived
  <2>2. inputBuffer \o text \in Seq(Item)
    BY ConcatProperties DEF PortInv
  <2>3. inputBuffer \o text \in Seq(Byte)
    BY <2>2, SeqMonotonic DEF Byte, Item
  <2>4. QED
    BY <1>2, <2>1, <2>2, <2>3 DEF PortInv, PortTypeOk
<1>3. QED
  BY <1>1, <1>2

\* clearIO empties the buffer and leaves nothing waiting.
LEMMA ClearIOPort ==
    ASSUME PortInv, ClearIO
    PROVE  /\ PortInv'
           /\ ~chip'.waiting /\ ~buffered' /\ ~waitingOnInput'
           /\ chip'.requestAborted = chip.requestAborted
<1>1. /\ chip' \in ChipState
      /\ ~chip'.waiting
      /\ chip'.requestAborted = chip.requestAborted
  <2>1. CASE waitingOnInput
    BY <2>1 DEF PortInv, PortTypeOk, ClearIO, Canceled, ChipState
  <2>2. CASE ~waitingOnInput
    BY <2>2 DEF PortInv, PortTypeOk, ClearIO
  <2>3. QED
    BY <2>1, <2>2
<1>2. buffered' = FALSE /\ waitingOnInput' = FALSE
      /\ inputBuffer' = <<>>
  BY DEF ClearIO
<1>3. QED
  BY <1>1, <1>2, EmptySeq DEF PortInv, PortTypeOk

\* The chip that clearMemory leaves does not wait.
LEMMA ChipAfterClear == ChipAfterClearMemory \in ChipState /\ ~ChipAfterClearMemory.waiting
<1>1. ClearedChip \in ChipState /\ ~ClearedChip.waiting
  BY DEF ClearedChip, ChipState, Byte
<1>2. Canceled(ClearedChip) \in ChipState /\ ~Canceled(ClearedChip).waiting
  BY <1>1 DEF Canceled, ChipState
<1>3. QED
  BY <1>1, <1>2 DEF ChipAfterClearMemory

\* An aborted request no longer waits.
LEMMA AbortPort ==
    ASSUME PortInv, OnInputAborted
    PROVE  /\ PortInv'
           /\ ~chip'.waiting /\ chip'.requestAborted
           /\ chip'.requestCanceled = chip.requestCanceled
  BY DEF PortInv, PortTypeOk, OnInputAborted, ChipState

\* The end of a read changes at most the chip's byte.
LEMMA FinishPort ==
    ASSUME PortInv, FinishRead
    PROVE  /\ PortInv'
           /\ chip'.waiting = chip.waiting
           /\ chip'.requestCanceled = chip.requestCanceled
           /\ chip'.requestAborted = chip.requestAborted
<1>1. ReadValue \in Byte
  BY DEF ReadValue, PortInv, PortTypeOk, ChipState, Byte
<1>2. CASE ReadFails
  BY <1>2 DEF FinishRead, PortInv, PortTypeOk
<1>3. CASE ~ReadFails
  BY <1>1, <1>3 DEF FinishRead, PortInv, PortTypeOk, ChipState
<1>4. QED
  BY <1>2, <1>3

-----------------------------------------------------------------------------
(* The session layer: the reader's position, the terminal and the session  *)
(* against the port's flags.                                               *)

SessionTypes ==
    /\ tab \in Pane
    /\ activePane \in Pane
    /\ retString \in Seq(Char)
    /\ termWaiting \in BOOLEAN
    /\ running \in BOOLEAN
    /\ reader \in ReaderState

SessionInv ==
    /\ SessionTypes
    /\ chip.waiting => reader \in {"requested", "termLoop"}
    /\ reader = "requested" => running /\ chip.waiting
    /\ reader = "termLoop" => activePane = "terminal" /\ ~chip.requestAborted
    /\ termWaiting => reader = "termLoop"
    /\ TerminalAgreesWithChip
    /\ NothingOutlivesSession
    /\ FailureMeansStopped

HistoryTypes ==
    /\ accepted \in Seq(Item)
    /\ delivered \in Seq(Item)
    /\ fillers \in Nat

\* The layers together are the inductive invariant.
LEMMA Layers == IInv <=> PortInv /\ SessionInv /\ HistoryTypes /\ NoCharacterLost
  BY DEF IInv, TypeOk, ReaderInv, BufferedNeverWaiting, PortInv, SessionInv,
         SessionTypes, HistoryTypes, Item, PortTypeOk, ChipState

LEMMA SwitchTabSession ==
    ASSUME PortInv, SessionInv, SwitchTab
    PROVE  PortInv' /\ SessionInv'
  BY DEF SwitchTab, portVars, PortInv, PortTypeOk, SessionInv, SessionTypes,
         TerminalAgreesWithChip, NothingOutlivesSession, FailureMeansStopped, ReadFails

LEMMA KeysSession ==
    ASSUME PortInv, SessionInv, Backspace \/ \E c \in Char : KeyPress(c)
    PROVE  PortInv' /\ SessionInv'
<1>1. retString' \in Seq(Char)
  <2>1. ASSUME NEW c \in Char, KeyPress(c) PROVE retString' \in Seq(Char)
    BY <2>1 DEF KeyPress, SessionInv, SessionTypes
  <2>2. ASSUME Backspace PROVE retString' \in Seq(Char)
    <3>1. /\ retString \in Seq(Char)
          /\ retString' = SubSeq(retString, 1, Len(retString) - 1)
      BY <2>2 DEF Backspace, SessionInv, SessionTypes
    <3>2. /\ Len(retString) \in Nat
          /\ \A i \in 1 .. Len(retString) - 1 : retString[i] \in Char
      BY <3>1, LenProperties, ElementOfSeq
    <3>3. QED
      BY <3>1, <3>2, SubSeqProperties
  <2>3. QED
    BY <2>1, <2>2
<1>2. UNCHANGED <<portVars, tab, activePane, termWaiting, running, reader>>
  BY DEF Backspace, KeyPress
<1>3. QED
  BY <1>1, <1>2 DEF portVars, PortInv, PortTypeOk, SessionInv, SessionTypes,
     TerminalAgreesWithChip, NothingOutlivesSession, FailureMeansStopped, ReadFails

LEMMA StartSession ==
    ASSUME PortInv, SessionInv,
           StartInteractive \/ \E text \in BatchTexts : StartBatch(text)
    PROVE  PortInv' /\ SessionInv'
<1>1. /\ ~running /\ reader = "none"
      /\ running' = TRUE /\ reader' = reader
      /\ retString' = <<>> /\ activePane' = tab /\ tab' = tab
      /\ termWaiting' = termWaiting
  BY DEF StartInteractive, StartBatch, BeginSession
<1>2. PortInv' /\ ~chip'.waiting
  <2>1. ASSUME StartInteractive PROVE PortInv' /\ ~chip'.waiting
    <3>1. CASE ClearMemory
      BY <3>1, ChipAfterClear, EmptySeq DEF ClearMemory, PortInv, PortTypeOk
    <3>2. CASE UNCHANGED portVars
      BY <1>1, <3>2 DEF portVars, PortInv, PortTypeOk, SessionInv
    <3>3. QED
      BY <2>1, <3>1, <3>2 DEF StartInteractive, PortAtStart
  <2>2. ASSUME NEW text \in BatchTexts, StartBatch(text)
        PROVE  PortInv' /\ ~chip'.waiting
    <3>1. text \o <<NL>> \in Seq(Item) /\ text \o <<NL>> # <<>>
      BY SessionAssumption, LineIsItems
    <3>2. text \o <<NL>> \in Seq(Byte)
      BY <3>1, SeqMonotonic DEF Byte, Item
    <3>3. CASE OnInputReceived(text \o <<NL>>)
      BY <3>1, <3>3, ReceivePort
    <3>4. CASE ~OnInputReceived(text \o <<NL>>)
      BY <2>2, <3>1, <3>2, <3>4, ChipAfterClear DEF StartBatch, PortInv, PortTypeOk
    <3>5. QED
      BY <3>3, <3>4
  <2>3. QED
    BY <2>1, <2>2
<1>3. QED
  BY <1>1, <1>2 DEF SessionInv, SessionTypes, TerminalAgreesWithChip,
     NothingOutlivesSession, FailureMeansStopped, ReaderState

LEMMA EnterSession ==
    ASSUME PortInv, SessionInv, Enter
    PROVE  PortInv' /\ SessionInv'
<1>1. /\ retString \o <<NL>> \in Seq(Item) /\ retString \o <<NL>> # <<>>
      /\ OnInputReceived(retString \o <<NL>>)
  BY LineIsItems DEF Enter, SessionInv, SessionTypes
<1>2. /\ PortInv'
      /\ ~chip'.waiting
      /\ chip'.requestCanceled = chip.requestCanceled
      /\ chip'.requestAborted = chip.requestAborted
      /\ waitingOnInput' => waitingOnInput
  BY <1>1, ReceivePort
<1>3. running
  BY DEF Enter, SessionInv, NothingOutlivesSession
<1>4. retString' \in Seq(Char)
  BY DEF Enter
<1>5. QED
  BY <1>2, <1>3, <1>4 DEF Enter, SessionInv, SessionTypes, TerminalAgreesWithChip,
     NothingOutlivesSession, FailureMeansStopped, ReadFails

LEMMA StopSession ==
    ASSUME PortInv, SessionInv, Stop \/ SimulationFinished \/ ReadIsCanceled
    PROVE  PortInv' /\ SessionInv'
<1>1. ClearIO /\ running' = FALSE
  BY DEF Stop, SimulationFinished, ReadIsCanceled, StopDebugging
<1>2. /\ PortInv'
      /\ ~chip'.waiting /\ ~buffered' /\ ~waitingOnInput'
      /\ chip'.requestAborted = chip.requestAborted
  BY <1>1, ClearIOPort
<1>3. termWaiting' = FALSE
  BY DEF Stop, SimulationFinished, ReadIsCanceled, StopDebugging, SessionInv,
     SessionTypes, Pane
<1>4. /\ reader # "requested"
      /\ reader' = reader \/ reader' = "none"
      /\ UNCHANGED <<tab, activePane, retString>>
  BY DEF Stop, SimulationFinished, ReadIsCanceled, StopDebugging
<1>5. QED
  BY <1>1, <1>2, <1>3, <1>4 DEF SessionInv, SessionTypes, ReaderState,
     TerminalAgreesWithChip, NothingOutlivesSession, FailureMeansStopped

LEMMA ReadByteSession ==
    ASSUME PortInv, SessionInv, ReadByte
    PROVE  PortInv' /\ SessionInv'
<1>1. /\ running /\ reader = "none"
      /\ UNCHANGED <<tab, activePane, retString, termWaiting, running>>
  BY DEF ReadByte
<1>2. CASE ServeFromBuffer /\ reader' = "returning"
  BY <1>1, <1>2, ServePort DEF SessionInv, SessionTypes, ReaderState,
     TerminalAgreesWithChip, NothingOutlivesSession, FailureMeansStopped, ReadFails
<1>3. CASE RequestInput /\ reader' = "requested"
  <2>1. PortInv' /\ chip'.waiting
    BY <1>3, RequestPort
  <2>2. ~chip'.requestCanceled
    BY <2>1 DEF PortInv
  <2>3. QED
    BY <1>1, <1>3, <2>1, <2>2 DEF SessionInv, SessionTypes, ReaderState,
       TerminalAgreesWithChip, NothingOutlivesSession, FailureMeansStopped, ReadFails
<1>4. QED
  BY <1>2, <1>3 DEF ReadByte

LEMMA OnDataRequestedSession ==
    ASSUME PortInv, SessionInv, OnDataRequested
    PROVE  PortInv' /\ SessionInv'
<1>1. /\ reader = "requested" /\ running /\ chip.waiting
      /\ ~chip.requestCanceled /\ ~chip.requestAborted
      /\ UNCHANGED <<tab, activePane, retString, running>>
  BY DEF OnDataRequested, SessionInv, PortInv
<1>2. CASE OnInputAborted /\ reader' = "returning" /\ UNCHANGED termWaiting
  BY <1>1, <1>2, AbortPort DEF SessionInv, SessionTypes, ReaderState,
     TerminalAgreesWithChip, NothingOutlivesSession, FailureMeansStopped, ReadFails
<1>3. CASE /\ activePane = "terminal" /\ termWaiting' = TRUE
           /\ reader' = "termLoop" /\ UNCHANGED portVars
  BY <1>1, <1>3 DEF portVars, PortInv, PortTypeOk, SessionInv, SessionTypes, ReaderState,
     TerminalAgreesWithChip, NothingOutlivesSession, FailureMeansStopped, ReadFails
<1>4. QED
  BY <1>2, <1>3 DEF OnDataRequested

LEMMA LeaveTerminalLoopSession ==
    ASSUME PortInv, SessionInv, LeaveTerminalLoop
    PROVE  PortInv' /\ SessionInv'
  BY DEF LeaveTerminalLoop, portVars, PortInv, PortTypeOk, SessionInv, SessionTypes,
     ReaderState, TerminalAgreesWithChip, NothingOutlivesSession, FailureMeansStopped,
     ReadFails

LEMMA ReadSucceedsSession ==
    ASSUME PortInv, SessionInv, ReadSucceeds
    PROVE  PortInv' /\ SessionInv'
<1>1. FinishRead /\ ~chip.waiting
  BY DEF ReadSucceeds, SessionInv
<1>2. /\ PortInv'
      /\ ~chip'.waiting
      /\ buffered' = buffered /\ waitingOnInput' = waitingOnInput
  BY <1>1, FinishPort DEF FinishRead
<1>3. QED
  BY <1>2 DEF ReadSucceeds, SessionInv, SessionTypes, ReaderState,
     TerminalAgreesWithChip, NothingOutlivesSession, FailureMeansStopped

-----------------------------------------------------------------------------
(* The history layer.                                                      *)

\* While a chip holds no byte for the reader, nothing is in flight.
LEMMA NothingInFlight ==
    ASSUME chip.waiting \/ reader \in {"none", "requested"}
    PROVE  InFlight = <<>>
  BY DEF InFlight

LEMMA QuietHistory ==
    ASSUME PortInv, SessionInv, HistoryTypes, NoCharacterLost,
           SwitchTab \/ Backspace \/ (\E c \in Char : KeyPress(c)) \/ LeaveTerminalLoop
    PROVE  HistoryTypes' /\ NoCharacterLost'
<1>1. /\ UNCHANGED <<chip, inputBuffer, running, accepted, delivered, fillers>>
      /\ (reader' = reader) \/ (reader = "termLoop" /\ reader' = "returning")
  <2>1. CASE LeaveTerminalLoop
    BY <2>1 DEF LeaveTerminalLoop, portVars, history
  <2>2. CASE SwitchTab
    BY <2>2 DEF SwitchTab, portVars, history
  <2>3. CASE Backspace \/ \E c \in Char : KeyPress(c)
    BY <2>3 DEF Backspace, KeyPress, portVars, history
  <2>4. QED
    BY <2>1, <2>2, <2>3
<1>2. InFlight' = InFlight
  BY <1>1 DEF InFlight
<1>3. QED
  BY <1>1, <1>2 DEF HistoryTypes, NoCharacterLost

LEMMA StopHistory ==
    ASSUME HistoryTypes, Stop \/ SimulationFinished \/ ReadIsCanceled
    PROVE  HistoryTypes' /\ NoCharacterLost'
  BY DEF Stop, SimulationFinished, ReadIsCanceled, StopDebugging, history,
         HistoryTypes, NoCharacterLost

LEMMA StartHistory ==
    ASSUME PortInv, SessionInv,
           StartInteractive \/ \E text \in BatchTexts : StartBatch(text)
    PROVE  HistoryTypes' /\ NoCharacterLost'
<1>1. /\ reader' = "none" /\ delivered' = <<>> /\ fillers' = 0
      /\ ~running /\ ~chip.waiting /\ inputBuffer = <<>>
  BY DEF StartInteractive, StartBatch, BeginSession, SessionInv, PortInv,
         NothingOutlivesSession
<1>2. InFlight' = <<>>
  BY <1>1 DEF InFlight
<1>3. ASSUME StartInteractive PROVE inputBuffer' = <<>> /\ accepted' = <<>>
  BY <1>1, <1>3 DEF StartInteractive, PortAtStart, ClearMemory, portVars
<1>4. ASSUME NEW text \in BatchTexts, StartBatch(text)
      PROVE  /\ inputBuffer' = text \o <<NL>>
             /\ accepted' = text \o <<NL>>
             /\ text \o <<NL>> \in Seq(Item)
  <2>1. text \o <<NL>> \in Seq(Item)
    BY SessionAssumption, LineIsItems
  <2>2. inputBuffer' = text \o <<NL>>
    BY <1>1, <1>4, <2>1, ConcatEmptySeq DEF StartBatch, OnInputReceived
  <2>3. QED
    BY <1>4, <2>1, <2>2 DEF StartBatch
<1>5. QED
  BY <1>1, <1>2, <1>3, <1>4, EmptySeq, ConcatEmptySeq DEF HistoryTypes, NoCharacterLost

LEMMA EnterHistory ==
    ASSUME PortInv, SessionInv, HistoryTypes, NoCharacterLost, Enter
    PROVE  HistoryTypes' /\ NoCharacterLost'
<1> DEFINE line == retString \o <<NL>>
<1>1. line \in Seq(Item) /\ line # <<>>
  BY LineIsItems DEF Enter, SessionInv, SessionTypes
<1>2. /\ reader = "termLoop" /\ chip.waiting /\ running
      /\ ~chip.requestCanceled /\ ~chip.requestAborted
      /\ inputBuffer = <<>>
  BY DEF Enter, SessionInv, PortInv, TerminalAgreesWithChip, NothingOutlivesSession
<1>3. accepted = delivered
  BY <1>2, NothingInFlight, ConcatEmptySeq DEF NoCharacterLost, HistoryTypes
<1>4. Head(line) \in Item /\ Tail(line) \in Seq(Item) /\ <<Head(line)>> \in Seq(Item)
      /\ <<Head(line)>> \o Tail(line) = line
  BY <1>1, HeadThenTail
<1>5. chip' = Received(chip, Head(line)) /\ inputBuffer' = Tail(line)
  BY <1>2 DEF Enter, OnInputReceived
<1>6. InFlight' = <<Head(line)>>
  <2>1. Head(line) \notin Filler
    BY <1>4, CharAssumption DEF Filler, Item
  <2>2. /\ chip'.memory = Head(line)
        /\ ~chip'.waiting /\ ~chip'.requestCanceled /\ ~chip'.requestAborted
    BY <1>2, <1>5 DEF Received, PortInv, PortTypeOk, ChipState
  <2>3. reader' = "termLoop"
    BY <1>2 DEF Enter
  <2>4. QED
    BY <2>1, <2>2, <2>3 DEF InFlight
<1>7. accepted' = delivered \o line
  <2>1. accepted' = (accepted \o retString) \o <<NL>>
    BY DEF Enter
  <2>2. retString \in Seq(Item) /\ <<NL>> \in Seq(Item) /\ delivered \in Seq(Item)
    BY LineIsItems DEF SessionInv, SessionTypes, HistoryTypes, Item
  <2>3. QED
    BY <1>3, <2>1, <2>2, ConcatAssociative
<1>8. delivered' = delivered /\ fillers' = fillers
  BY DEF Enter
<1>9. (delivered \o <<Head(line)>>) \o Tail(line) = delivered \o line
  BY <1>4, ConcatAssociative DEF HistoryTypes
<1>10. delivered \o line \in Seq(Item)
  BY <1>1, ConcatProperties DEF HistoryTypes
<1>11. QED
  BY <1>5, <1>6, <1>7, <1>8, <1>9, <1>10 DEF HistoryTypes, NoCharacterLost

LEMMA ReadByteHistory ==
    ASSUME PortInv, SessionInv, HistoryTypes, NoCharacterLost, ReadByte
    PROVE  HistoryTypes' /\ NoCharacterLost'
<1>1. /\ UNCHANGED <<running, accepted, delivered, fillers>>
      /\ reader = "none" /\ running
  BY DEF ReadByte, history
<1>2. accepted = delivered \o inputBuffer
  BY <1>1, NothingInFlight, ConcatEmptySeq DEF NoCharacterLost, HistoryTypes
<1>3. CASE RequestInput /\ reader' = "requested"
  <2>1. InFlight' = <<>> /\ inputBuffer' = inputBuffer
    BY <1>3 DEF InFlight, RequestInput
  <2>2. QED
    BY <1>1, <1>2, <2>1, ConcatEmptySeq DEF HistoryTypes, NoCharacterLost
<1>4. CASE ServeFromBuffer /\ reader' = "returning"
  <2>1. /\ ~chip'.waiting /\ ~chip'.requestCanceled /\ ~chip'.requestAborted
        /\ chip'.memory = Front(inputBuffer)
        /\ inputBuffer' = RemoveFront(inputBuffer)
    BY <1>4, ServePort DEF ServeFromBuffer
  <2>2. CASE inputBuffer = <<>>
    <3>1. InFlight' = <<>> /\ inputBuffer' = <<>>
      BY <2>1, <2>2 DEF InFlight, Front, RemoveFront, Filler
    <3>2. QED
      BY <1>1, <1>2, <2>2, <3>1, ConcatEmptySeq DEF HistoryTypes, NoCharacterLost
  <2>3. CASE inputBuffer # <<>>
    <3>1. /\ Head(inputBuffer) \in Item /\ Tail(inputBuffer) \in Seq(Item)
          /\ <<Head(inputBuffer)>> \in Seq(Item)
          /\ <<Head(inputBuffer)>> \o Tail(inputBuffer) = inputBuffer
      BY <2>3, HeadThenTail DEF PortInv
    <3>2. Head(inputBuffer) \notin Filler
      BY <3>1, CharAssumption DEF Filler, Item
    <3>3. InFlight' = <<Head(inputBuffer)>> /\ inputBuffer' = Tail(inputBuffer)
      BY <1>4, <2>1, <2>3, <3>2 DEF InFlight, Front, RemoveFront
    <3>4. (delivered \o <<Head(inputBuffer)>>) \o Tail(inputBuffer)
            = delivered \o inputBuffer
      BY <3>1, ConcatAssociative DEF HistoryTypes
    <3>5. QED
      BY <1>1, <1>2, <3>3, <3>4 DEF HistoryTypes, NoCharacterLost
  <2>4. QED
    BY <2>2, <2>3
<1>5. QED
  BY <1>3, <1>4 DEF ReadByte

LEMMA OnDataRequestedHistory ==
    ASSUME PortInv, SessionInv, HistoryTypes, NoCharacterLost, OnDataRequested
    PROVE  HistoryTypes' /\ NoCharacterLost'
<1>1. /\ UNCHANGED <<inputBuffer, running, accepted, delivered, fillers>>
      /\ reader = "requested" /\ chip.waiting
  BY DEF OnDataRequested, OnInputAborted, portVars, history, SessionInv
<1>2. InFlight = <<>>
  BY <1>1, NothingInFlight
<1>3. InFlight' = <<>>
  <2>1. CASE OnInputAborted
    BY <2>1, AbortPort DEF InFlight
  <2>2. CASE UNCHANGED portVars
    BY <1>1, <2>2 DEF InFlight, portVars
  <2>3. QED
    BY <2>1, <2>2 DEF OnDataRequested
<1>4. QED
  BY <1>1, <1>2, <1>3 DEF HistoryTypes, NoCharacterLost

LEMMA ReadSucceedsHistory ==
    ASSUME PortInv, SessionInv, HistoryTypes, NoCharacterLost, ReadSucceeds
    PROVE  HistoryTypes' /\ NoCharacterLost'
<1>1. /\ UNCHANGED <<inputBuffer, running, accepted>>
      /\ reader = "returning" /\ reader' = "none"
      /\ ~chip.waiting /\ ~chip.requestCanceled
  BY DEF ReadSucceeds, FinishRead, ReadFails, SessionInv
<1>2. InFlight' = <<>>
  BY <1>1 DEF InFlight
<1>3. CASE ReadValue \in Filler
  <2>1. delivered' = delivered /\ fillers' = fillers + 1
    BY <1>3 DEF ReadSucceeds
  <2>2. InFlight = <<>>
    BY <1>3 DEF InFlight, ReadValue
  <2>3. QED
    BY <1>1, <1>2, <2>1, <2>2 DEF HistoryTypes, NoCharacterLost
<1>4. CASE ReadValue \notin Filler
  <2>1. delivered' = Append(delivered, ReadValue) /\ fillers' = fillers
    BY <1>4 DEF ReadSucceeds
  <2>2. ~chip.requestAborted /\ ReadValue = chip.memory
    BY <1>4 DEF ReadValue, Filler
  <2>3. ReadValue \in Item
    BY <1>4, <2>2 DEF PortInv, PortTypeOk, ChipState, Byte, Filler, Item
  <2>4. InFlight = <<ReadValue>>
    BY <1>1, <1>4, <2>2 DEF InFlight
  <2>5. delivered' = delivered \o <<ReadValue>> /\ delivered' \in Seq(Item)
    BY <2>1, <2>3, AppendIsItemConcat DEF HistoryTypes
  <2>6. QED
    BY <1>1, <1>2, <2>1, <2>4, <2>5, ConcatEmptySeq DEF HistoryTypes, NoCharacterLost
<1>5. QED
  BY <1>3, <1>4

-----------------------------------------------------------------------------
(* The theorems.                                                           *)

LEMMA InitInv == Init => IInv
<1> SUFFICES ASSUME Init PROVE IInv
  OBVIOUS
<1>1. PortInv
  BY EmptySeq DEF Init, PortInit, PortInv, PortTypeOk, ClearedChip, ChipState, Byte
<1>2. SessionInv
  <2>1. ~chip.waiting /\ reader = "none" /\ ~termWaiting /\ ~buffered /\ ~waitingOnInput
    BY DEF Init, PortInit, ClearedChip
  <2>2. SessionTypes
    BY EmptySeq DEF Init, SessionTypes, Pane, ReaderState
  <2>3. QED
    BY <2>1, <2>2 DEF SessionInv, TerminalAgreesWithChip, NothingOutlivesSession,
       FailureMeansStopped
<1>3. HistoryTypes /\ NoCharacterLost
  BY DEF Init, HistoryTypes, NoCharacterLost
<1>4. QED
  BY <1>1, <1>2, <1>3, Layers

LEMMA NextInv == IInv /\ [Next]_vars => IInv'
<1> SUFFICES ASSUME PortInv, SessionInv, HistoryTypes, NoCharacterLost, [Next]_vars
             PROVE  PortInv' /\ SessionInv' /\ HistoryTypes' /\ NoCharacterLost'
  <2>1. IInv' <=> PortInv' /\ SessionInv' /\ HistoryTypes' /\ NoCharacterLost'
    BY Layers, PTL
  <2>2. QED
    BY <2>1, Layers
<1>1. CASE SwitchTab
  BY <1>1, SwitchTabSession, QuietHistory
<1>2. CASE StartInteractive \/ \E text \in BatchTexts : StartBatch(text)
  BY <1>2, StartSession, StartHistory
<1>3. CASE Backspace \/ \E c \in Char : KeyPress(c)
  BY <1>3, KeysSession, QuietHistory
<1>4. CASE Enter
  BY <1>4, EnterSession, EnterHistory
<1>5. CASE Stop \/ SimulationFinished \/ ReadIsCanceled
  BY <1>5, StopSession, StopHistory
<1>6. CASE ReadByte
  BY <1>6, ReadByteSession, ReadByteHistory
<1>7. CASE OnDataRequested
  BY <1>7, OnDataRequestedSession, OnDataRequestedHistory
<1>8. CASE LeaveTerminalLoop
  BY <1>8, LeaveTerminalLoopSession, QuietHistory
<1>9. CASE ReadSucceeds
  BY <1>9, ReadSucceedsSession, ReadSucceedsHistory
<1>10. CASE UNCHANGED vars
  BY <1>10 DEF vars, portVars, sessionVars, history, PortInv, PortTypeOk, SessionInv,
     SessionTypes, TerminalAgreesWithChip, NothingOutlivesSession,
     FailureMeansStopped, ReadFails, HistoryTypes, NoCharacterLost, InFlight
<1>11. QED
  BY <1>1, <1>2, <1>3, <1>4, <1>5, <1>6, <1>7, <1>8, <1>9, <1>10
     DEF Next, UserNext, ReadNext

\* The inductive invariant holds in every reachable state of every instance.
THEOREM Invariance == Spec => []IInv
  BY InitInv, NextInv, PTL DEF Spec

\* Every variable keeps its type (the run's TypeOk).
THEOREM TypeCorrect == Spec => []TypeOk
  BY Invariance, PTL DEF IInv

\* No character is lost, duplicated or reordered between the user and the
\* program, for every alphabet and every length of session.
THEOREM CharactersAreKept == Spec => []NoCharacterLost
  BY Invariance, PTL DEF IInv

\* clearIO's loop over buffered waiting addresses is never entered, and
\* memory's set of waiting addresses never misses a waiting chip.
THEOREM BufferedNeverWaits == Spec => []BufferedNeverWaiting
  BY Invariance, PTL DEF IInv

\* The terminal's nested loop and the chip are released together.
THEOREM TerminalAndChipAgree == Spec => []TerminalAgreesWithChip
  BY Invariance, PTL DEF IInv

\* No input, request or wait survives the session it belongs to.
THEOREM SessionsAreSeparate == Spec => []NothingOutlivesSession
  BY Invariance, PTL DEF IInv

\* Only stopping the session makes a read fail.
THEOREM OnlyStopFailsARead == Spec => []FailureMeansStopped
  BY Invariance, PTL DEF IInv

-----------------------------------------------------------------------------
(* The end of a batch text.                                                *)

\* In batch mode a read that is about to return without a character of the
\* text has read all of it; once one has returned so, none is in flight; and
\* memory waits for the port only when nothing is buffered for it.
EndInv ==
    activePane = "batch" =>
        /\ fillers > 0 => delivered = accepted /\ InFlight = <<>>
        /\ reader = "returning" /\ InFlight = <<>> => delivered = accepted
        /\ waitingOnInput => ~buffered /\ InFlight = <<>>

LEMMA SwitchTabEnd ==
    ASSUME EndInv, SwitchTab
    PROVE  EndInv'
  BY DEF SwitchTab, portVars, history, EndInv, InFlight

\* Keys are pressed and lines entered in the terminal only.
LEMMA TerminalEnd ==
    ASSUME SessionInv,
           Backspace \/ (\E c \in Char : KeyPress(c)) \/ Enter \/ LeaveTerminalLoop
    PROVE  EndInv'
<1>1. reader = "termLoop" /\ activePane' = activePane
  BY DEF Backspace, KeyPress, Enter, LeaveTerminalLoop
<1>2. QED
  BY <1>1 DEF SessionInv, EndInv

LEMMA StartEnd ==
    ASSUME PortInv, SessionInv,
           StartInteractive \/ \E text \in BatchTexts : StartBatch(text)
    PROVE  EndInv'
<1>1. fillers' = 0 /\ reader' = "none"
  BY DEF StartInteractive, StartBatch, BeginSession
<1>2. ~chip.waiting /\ ~waitingOnInput
  BY DEF StartInteractive, StartBatch, BeginSession, SessionInv, NothingOutlivesSession
<1>3. waitingOnInput' = FALSE
  <2>1. CASE StartInteractive
    BY <1>2, <2>1 DEF StartInteractive, PortAtStart, ClearMemory, portVars, PortInv, PortTypeOk
  <2>2. ASSUME NEW text \in BatchTexts, StartBatch(text) PROVE waitingOnInput' = FALSE
    BY <1>2, <2>2 DEF StartBatch, OnInputReceived, PortInv, PortTypeOk
  <2>3. QED
    BY <2>1, <2>2
<1>4. QED
  BY <1>1, <1>3 DEF EndInv

\* Stopping cancels a waiting chip, and then nothing was in flight.
LEMMA StopEnd ==
    ASSUME PortInv, SessionInv, EndInv, Stop \/ SimulationFinished \/ ReadIsCanceled
    PROVE  EndInv'
<1>1. /\ ClearIO
      /\ UNCHANGED <<activePane, accepted, delivered, fillers>>
      /\ reader' = reader \/ reader' = "none"
  BY DEF Stop, SimulationFinished, ReadIsCanceled, StopDebugging, history
<1>2. ~buffered' /\ ~waitingOnInput'
  BY <1>1, ClearIOPort
<1>3. CASE waitingOnInput
  <2>1. InFlight' = <<>>
    BY <1>1, <1>3 DEF ClearIO, Canceled, PortInv, PortTypeOk, ChipState, InFlight
  <2>2. QED
    BY <1>1, <1>2, <1>3, <2>1 DEF EndInv
<1>4. CASE ~waitingOnInput
  <2>1. InFlight' = InFlight \/ (reader' = "none" /\ InFlight' = <<>>)
    BY <1>1, <1>4 DEF ClearIO, InFlight
  <2>2. QED
    BY <1>1, <1>2, <2>1 DEF EndInv
<1>5. QED
  BY <1>3, <1>4

LEMMA ReadByteEnd ==
    ASSUME PortInv, SessionInv, HistoryTypes, NoCharacterLost, EndInv, ReadByte
    PROVE  EndInv'
<1>1. /\ UNCHANGED <<activePane, accepted, delivered, fillers>>
      /\ reader = "none" /\ running
  BY DEF ReadByte, history
<1>2. accepted = delivered \o inputBuffer
  BY <1>1, NothingInFlight, ConcatEmptySeq DEF NoCharacterLost, HistoryTypes
<1>3. CASE RequestInput /\ reader' = "requested"
  <2>1. InFlight' = <<>> /\ buffered' = buffered /\ ~buffered
    BY <1>3 DEF InFlight, RequestInput
  <2>2. QED
    BY <1>1, <1>3, <2>1 DEF EndInv
<1>4. CASE ServeFromBuffer /\ reader' = "returning"
  <2>1. /\ buffered /\ waitingOnInput' = waitingOnInput
        /\ ~chip'.waiting /\ ~chip'.requestCanceled /\ ~chip'.requestAborted
        /\ chip'.memory = Front(inputBuffer)
    BY <1>4, ServePort DEF ServeFromBuffer
  <2>2. CASE inputBuffer = <<>>
    <3>1. InFlight' = <<>>
      BY <2>1, <2>2 DEF InFlight, Front, Filler
    <3>2. delivered = accepted
      BY <1>2, <2>2, ConcatEmptySeq DEF HistoryTypes
    <3>3. QED
      BY <1>1, <2>1, <3>1, <3>2 DEF EndInv
  <2>3. CASE inputBuffer # <<>>
    <3>1. Head(inputBuffer) \in Item
      BY <2>3, HeadThenTail DEF PortInv
    <3>2. InFlight' # <<>>
      <4>1. InFlight' = <<Head(inputBuffer)>>
        BY <1>4, <2>1, <2>3, <3>1, CharAssumption DEF InFlight, Front, Filler, Item
      <4>2. QED
        BY <4>1
    <3>3. delivered # accepted
      <4>1. Len(inputBuffer) \in Nat /\ Len(inputBuffer) # 0 /\ Len(delivered) \in Nat
        BY <2>3, EmptySeq, LenProperties DEF PortInv, HistoryTypes
      <4>2. Len(accepted) = Len(delivered) + Len(inputBuffer)
        BY <1>2, ConcatProperties DEF PortInv, HistoryTypes
      <4>3. QED
        BY <4>1, <4>2
    <3>4. QED
      BY <1>1, <2>1, <3>2, <3>3 DEF EndInv
  <2>4. QED
    BY <2>2, <2>3
<1>5. QED
  BY <1>3, <1>4 DEF ReadByte

\* A batch read that finds nothing buffered is aborted, and by then the whole
\* text has been returned.
LEMMA OnDataRequestedEnd ==
    ASSUME PortInv, SessionInv, HistoryTypes, NoCharacterLost, EndInv, OnDataRequested
    PROVE  EndInv'
<1>1. /\ UNCHANGED <<inputBuffer, buffered, waitingOnInput, activePane>>
      /\ UNCHANGED <<accepted, delivered, fillers>>
      /\ reader = "requested" /\ chip.waiting /\ running
  BY DEF OnDataRequested, OnInputAborted, portVars, history, SessionInv
<1>2. CASE activePane = "batch" /\ OnInputAborted
  <2>1. InFlight' = <<>>
    BY <1>2, AbortPort DEF InFlight
  <2>2. InFlight = <<>> /\ inputBuffer = <<>> /\ ~buffered
    BY <1>1, NothingInFlight DEF PortInv
  <2>3. delivered = accepted
    BY <1>1, <2>2, ConcatEmptySeq DEF NoCharacterLost, HistoryTypes
  <2>4. QED
    BY <1>1, <2>1, <2>2, <2>3 DEF EndInv
<1>3. CASE activePane = "terminal"
  BY <1>1, <1>3 DEF EndInv
<1>4. QED
  BY <1>2, <1>3 DEF OnDataRequested

LEMMA ReadSucceedsEnd ==
    ASSUME SessionInv, HistoryTypes, EndInv, ReadSucceeds
    PROVE  EndInv'
<1>1. /\ UNCHANGED <<buffered, waitingOnInput, activePane, accepted>>
      /\ reader = "returning" /\ reader' = "none" /\ ~chip.waiting
  BY DEF ReadSucceeds, FinishRead, SessionInv
<1>2. InFlight' = <<>>
  BY <1>1 DEF InFlight
<1>3. CASE ReadValue \in Filler
  <2>1. delivered' = delivered /\ InFlight = <<>>
    BY <1>3 DEF ReadSucceeds, InFlight, ReadValue
  <2>2. QED
    BY <1>1, <1>2, <2>1 DEF EndInv
<1>4. CASE ReadValue \notin Filler /\ activePane = "batch"
  <2>1. fillers' = fillers
    BY <1>4 DEF ReadSucceeds
  <2>2. CASE InFlight = <<>>
    <3>1. ReadFails \/ chip.requestAborted \/ chip.memory \in Filler
      BY <1>1, <2>2 DEF InFlight, ReadFails
    <3>2. QED
      BY <1>4, <3>1 DEF ReadSucceeds, ReadValue, Filler
  <2>3. CASE InFlight # <<>>
    BY <1>1, <1>2, <1>4, <2>1, <2>3 DEF EndInv
  <2>4. QED
    BY <2>2, <2>3
<1>5. CASE activePane # "batch"
  BY <1>1, <1>5 DEF EndInv
<1>6. QED
  BY <1>3, <1>4, <1>5

LEMMA EndStep == IInv /\ EndInv /\ [Next]_vars => EndInv'
<1> SUFFICES ASSUME PortInv, SessionInv, HistoryTypes, NoCharacterLost, EndInv, [Next]_vars
             PROVE  EndInv'
  BY Layers
<1>1. CASE SwitchTab
  BY <1>1, SwitchTabEnd
<1>2. CASE Backspace \/ (\E c \in Char : KeyPress(c)) \/ Enter \/ LeaveTerminalLoop
  BY <1>2, TerminalEnd
<1>3. CASE StartInteractive \/ \E text \in BatchTexts : StartBatch(text)
  BY <1>3, StartEnd
<1>4. CASE Stop \/ SimulationFinished \/ ReadIsCanceled
  BY <1>4, StopEnd
<1>5. CASE ReadByte
  BY <1>5, ReadByteEnd
<1>6. CASE OnDataRequested
  BY <1>6, OnDataRequestedEnd
<1>7. CASE ReadSucceeds
  BY <1>7, ReadSucceedsEnd
<1>8. CASE UNCHANGED vars
  BY <1>8 DEF vars, portVars, sessionVars, history, EndInv, InFlight
<1>9. QED
  BY <1>1, <1>2, <1>3, <1>4, <1>5, <1>6, <1>7, <1>8 DEF Next, UserNext, ReadNext

\* A batch program is given the error character or a NUL only after the whole
\* text and its terminator, for every text and every length of session.
THEOREM EotComesLast == Spec => []EotOnlyAtEnd
<1>1. Init => EndInv
  BY DEF Init, EndInv
<1>2. EndInv => EotOnlyAtEnd
  BY DEF EndInv, EotOnlyAtEnd
<1>3. Spec => []IInv
  BY Invariance
<1>4. QED
  BY <1>1, <1>2, <1>3, EndStep, PTL DEF Spec

-----------------------------------------------------------------------------
(* The refinement.                                                         *)

\* A served read that has nothing in flight found nothing buffered: the byte
\* it returns stands for the end of the stream.
ServedFromEmpty ==
    /\ reader \in {"termLoop", "returning"}
    /\ ~chip.waiting
    /\ InFlight = <<>>
    => inputBuffer = <<>>

\* One step of the input port as a step of the stream.
StreamStep == Stream!Next \/ UNCHANGED Stream!vars

LEMMA StutterStep ==
    ASSUME PortInv, SessionInv, ServedFromEmpty,
           SwitchTab \/ Backspace \/ (\E c \in Char : KeyPress(c))
             \/ LeaveTerminalLoop \/ OnDataRequested
    PROVE  ServedFromEmpty' /\ StreamStep
<1>1. /\ UNCHANGED <<inputBuffer, running, delivered>>
      /\ (reader # "none") <=> (reader' # "none")
      /\ InFlight' = InFlight
  <2>1. CASE SwitchTab
    BY <2>1 DEF SwitchTab, portVars, history, InFlight
  <2>2. CASE Backspace \/ \E c \in Char : KeyPress(c)
    BY <2>2 DEF Backspace, KeyPress, portVars, history, InFlight
  <2>3. CASE LeaveTerminalLoop
    BY <2>3 DEF LeaveTerminalLoop, portVars, history, InFlight
  <2>4. CASE OnDataRequested
    <3>1. chip.waiting /\ InFlight = <<>> /\ reader = "requested" /\ reader' # "none"
      BY <2>4, NothingInFlight DEF OnDataRequested, SessionInv
    <3>2. InFlight' = <<>>
      <4>1. CASE OnInputAborted
        BY <4>1, AbortPort DEF InFlight
      <4>2. CASE UNCHANGED portVars
        BY <3>1, <4>2 DEF InFlight, portVars
      <4>3. QED
        BY <2>4, <4>1, <4>2 DEF OnDataRequested
    <3>3. QED
      BY <2>4, <3>1, <3>2 DEF OnDataRequested, OnInputAborted, portVars, history
  <2>5. QED
    BY <2>1, <2>2, <2>3, <2>4
<1>2. ServedFromEmpty'
  <2>1. CASE OnDataRequested
    BY <2>1 DEF OnDataRequested, SessionInv, PortInv, OnInputAborted, portVars,
       ServedFromEmpty
  <2>2. CASE ~OnDataRequested
    BY <1>1, <2>2 DEF SwitchTab, Backspace, KeyPress, LeaveTerminalLoop, portVars,
       ServedFromEmpty
  <2>3. QED
    BY <2>1, <2>2
<1>3. QED
  BY <1>1, <1>2 DEF StreamStep, Stream!vars

LEMMA OpenStep ==
    ASSUME PortInv, SessionInv,
           StartInteractive \/ \E text \in BatchTexts : StartBatch(text)
    PROVE  ServedFromEmpty' /\ StreamStep
<1>1. /\ ~running /\ running' = TRUE /\ reader = "none" /\ reader' = "none"
      /\ delivered' = <<>> /\ inputBuffer = <<>>
  BY DEF StartInteractive, StartBatch, BeginSession, SessionInv, PortInv,
         NothingOutlivesSession
<1>2. InFlight = <<>> /\ InFlight' = <<>>
  BY <1>1 DEF InFlight
<1>3. PortInv'
  BY StartSession
<1>4. InFlight' \o inputBuffer' \in Seq(Item) /\ InFlight \o inputBuffer = <<>>
  BY <1>1, <1>2, <1>3, ConcatEmptySeq, EmptySeq DEF PortInv
<1>5. Stream!Open
  BY <1>1, <1>4 DEF Stream!Open, Item
<1>6. QED
  BY <1>1, <1>5 DEF StreamStep, Stream!Next, ServedFromEmpty

LEMMA BeginReadStep ==
    ASSUME PortInv, SessionInv, HistoryTypes, NoCharacterLost, ReadByte
    PROVE  ServedFromEmpty' /\ StreamStep
<1>1. /\ running /\ reader = "none" /\ reader' # "none"
      /\ UNCHANGED <<running, delivered>>
  BY DEF ReadByte, history
<1>2. InFlight \o inputBuffer = inputBuffer
  BY <1>1, NothingInFlight, ConcatEmptySeq DEF PortInv
<1>3. CASE RequestInput /\ reader' = "requested"
  <2>1. InFlight' = <<>> /\ inputBuffer' = inputBuffer
    BY <1>3 DEF InFlight, RequestInput
  <2>2. InFlight' \o inputBuffer' = InFlight \o inputBuffer
    BY <1>2, <2>1, ConcatEmptySeq DEF PortInv
  <2>3. Stream!BeginRead
    BY <1>1, <2>2 DEF Stream!BeginRead
  <2>4. QED
    BY <1>3, <2>3 DEF StreamStep, Stream!Next, ServedFromEmpty
<1>4. CASE ServeFromBuffer /\ reader' = "returning"
  <2>1. /\ ~chip'.waiting /\ ~chip'.requestCanceled /\ ~chip'.requestAborted
        /\ chip'.memory = Front(inputBuffer)
        /\ inputBuffer' = RemoveFront(inputBuffer)
    BY <1>4, ServePort DEF ServeFromBuffer
  <2>2. InFlight' \o inputBuffer' = inputBuffer /\ ServedFromEmpty'
    <3>1. CASE inputBuffer = <<>>
      <4>1. InFlight' = <<>> /\ inputBuffer' = <<>>
        BY <2>1, <3>1 DEF InFlight, Front, RemoveFront, Filler
      <4>2. QED
        BY <3>1, <4>1, ConcatEmptySeq DEF ServedFromEmpty, PortInv
    <3>2. CASE inputBuffer # <<>>
      <4>1. /\ Head(inputBuffer) \in Item
            /\ <<Head(inputBuffer)>> \o Tail(inputBuffer) = inputBuffer
        BY <3>2, HeadThenTail DEF PortInv
      <4>2. Head(inputBuffer) \notin Filler
        BY <4>1, CharAssumption DEF Filler, Item
      <4>3. InFlight' = <<Head(inputBuffer)>> /\ inputBuffer' = Tail(inputBuffer)
        BY <1>4, <2>1, <3>2, <4>2 DEF InFlight, Front, RemoveFront
      <4>4. InFlight' # <<>>
        BY <4>3
      <4>5. QED
        BY <4>1, <4>3, <4>4 DEF ServedFromEmpty
    <3>3. QED
      BY <3>1, <3>2
  <2>3. Stream!BeginRead
    BY <1>1, <1>2, <2>2 DEF Stream!BeginRead
  <2>4. QED
    BY <2>2, <2>3 DEF StreamStep, Stream!Next
<1>5. QED
  BY <1>3, <1>4 DEF ReadByte

LEMMA SupplyStep ==
    ASSUME PortInv, SessionInv, Enter
    PROVE  ServedFromEmpty' /\ StreamStep
<1> DEFINE line == retString \o <<NL>>
<1>1. line \in Seq(Item) /\ line # <<>>
  BY LineIsItems DEF Enter, SessionInv, SessionTypes
<1>2. /\ reader = "termLoop" /\ chip.waiting /\ running
      /\ ~chip.requestCanceled /\ ~chip.requestAborted
      /\ inputBuffer = <<>>
  BY DEF Enter, SessionInv, PortInv, TerminalAgreesWithChip, NothingOutlivesSession
<1>3. Head(line) \in Item /\ <<Head(line)>> \o Tail(line) = line
  BY <1>1, HeadThenTail
<1>4. chip' = Received(chip, Head(line)) /\ inputBuffer' = Tail(line)
  BY <1>2 DEF Enter, OnInputReceived
<1>5. InFlight' = <<Head(line)>>
  <2>1. Head(line) \notin Filler
    BY <1>3, CharAssumption DEF Filler, Item
  <2>2. /\ chip'.memory = Head(line)
        /\ ~chip'.waiting /\ ~chip'.requestCanceled /\ ~chip'.requestAborted
    BY <1>2, <1>4 DEF Received, PortInv, PortTypeOk, ChipState
  <2>3. reader' = "termLoop"
    BY <1>2 DEF Enter
  <2>4. QED
    BY <2>1, <2>2, <2>3 DEF InFlight
<1>6. InFlight' \o inputBuffer' = line
  BY <1>3, <1>4, <1>5
<1>7. InFlight \o inputBuffer = <<>>
  BY <1>2, NothingInFlight, ConcatEmptySeq, EmptySeq
<1>8. /\ running' = running /\ delivered' = delivered
      /\ reader # "none" /\ reader' # "none"
  BY <1>2 DEF Enter
<1>9. Stream!Supply
  BY <1>1, <1>2, <1>6, <1>7, <1>8 DEF Stream!Supply, Item
<1>10. InFlight' # <<>>
  BY <1>5
<1>11. QED
  BY <1>9, <1>10 DEF StreamStep, Stream!Next, ServedFromEmpty

\* Stopping closes the stream, keeping at most the byte a read is returning.
LEMMA CloseStep ==
    ASSUME PortInv, SessionInv, Stop \/ SimulationFinished
    PROVE  ServedFromEmpty' /\ StreamStep
<1>1. /\ running /\ running' = FALSE /\ ClearIO
      /\ reader' = reader /\ delivered' = delivered
  BY DEF Stop, SimulationFinished, StopDebugging, history
<1>2. inputBuffer' = <<>>
  BY <1>1 DEF ClearIO
<1>3. CASE InFlight = <<>>
  <2>1. InFlight' = <<>>
    <3>1. CASE waitingOnInput
      BY <1>1, <3>1 DEF ClearIO, Canceled, PortInv, PortTypeOk, ChipState, InFlight
    <3>2. CASE ~waitingOnInput
      BY <1>1, <1>3, <3>2 DEF ClearIO, InFlight
    <3>3. QED
      BY <3>1, <3>2
  <2>2. InFlight' \o inputBuffer' = <<>>
    BY <1>2, <2>1, ConcatEmptySeq, EmptySeq
  <2>3. Stream!Close
    BY <1>1, <2>2 DEF Stream!Close
  <2>4. QED
    BY <1>2, <2>3 DEF StreamStep, Stream!Next, ServedFromEmpty
<1>4. CASE InFlight # <<>>
  <2>1. /\ InFlight = <<chip.memory>> /\ reader # "none"
        /\ chip.memory \in Item
    BY <1>4 DEF InFlight, PortInv, PortTypeOk, ChipState, Byte, Filler, Item
  <2>2. InFlight' = <<>> \/ InFlight' = <<chip.memory>>
    <3>1. CASE waitingOnInput
      BY <1>1, <3>1 DEF ClearIO, Canceled, PortInv, PortTypeOk, ChipState, InFlight
    <3>2. CASE ~waitingOnInput
      BY <1>1, <3>2 DEF ClearIO, InFlight
    <3>3. QED
      BY <3>1, <3>2
  <2>3. InFlight' \o inputBuffer' = <<>> \/ InFlight' \o inputBuffer' = <<chip.memory>>
    BY <1>2, <2>1, <2>2, ConcatEmptySeq, EmptySeq
  <2>4. /\ <<chip.memory>> \o inputBuffer # <<>>
        /\ Head(<<chip.memory>> \o inputBuffer) = chip.memory
    BY <2>1 DEF PortInv
  <2>5. Stream!Close
    BY <1>1, <2>1, <2>3, <2>4 DEF Stream!Close
  <2>6. QED
    BY <1>2, <2>5 DEF StreamStep, Stream!Next, ServedFromEmpty
<1>5. QED
  BY <1>3, <1>4

LEMMA FailStep ==
    ASSUME PortInv, SessionInv, ReadIsCanceled
    PROVE  ServedFromEmpty' /\ StreamStep
<1>1. /\ reader = "returning" /\ reader' = "none" /\ ~running /\ running' = FALSE
      /\ delivered' = delivered /\ InFlight = <<>> /\ ClearIO
  BY DEF ReadIsCanceled, StopDebugging, history, SessionInv, FailureMeansStopped,
     ReadFails, InFlight
<1>2. InFlight' = <<>> /\ inputBuffer = <<>> /\ inputBuffer' = <<>>
  BY <1>1 DEF InFlight, ClearIO, SessionInv, NothingOutlivesSession, PortInv
<1>3. InFlight \o inputBuffer = <<>> /\ InFlight' \o inputBuffer' = <<>>
  BY <1>1, <1>2, ConcatEmptySeq, EmptySeq
<1>4. running' = running
  BY <1>1 DEF SessionInv, SessionTypes
<1>5. Stream!ReturnNothing
  BY <1>1, <1>3, <1>4 DEF Stream!ReturnNothing
<1>6. QED
  BY <1>1, <1>5 DEF StreamStep, Stream!Next, ServedFromEmpty

LEMMA ReturnStep ==
    ASSUME PortInv, SessionInv, HistoryTypes, ServedFromEmpty, ReadSucceeds
    PROVE  ServedFromEmpty' /\ StreamStep
<1>1. /\ UNCHANGED <<inputBuffer, running>>
      /\ reader = "returning" /\ reader' = "none"
      /\ ~chip.waiting /\ ~chip.requestCanceled
  BY DEF ReadSucceeds, FinishRead, ReadFails, SessionInv
<1>2. InFlight' \o inputBuffer' = inputBuffer /\ ServedFromEmpty'
  BY <1>1, ConcatEmptySeq DEF InFlight, ServedFromEmpty, PortInv
<1>3. CASE ReadValue \in Filler
  <2>1. delivered' = delivered /\ InFlight = <<>>
    BY <1>3 DEF ReadSucceeds, InFlight, ReadValue
  <2>2. inputBuffer = <<>> /\ InFlight \o inputBuffer = <<>>
    BY <1>1, <2>1, ConcatEmptySeq, EmptySeq DEF ServedFromEmpty
  <2>3. Stream!ReturnNothing
    BY <1>1, <1>2, <2>1, <2>2 DEF Stream!ReturnNothing
  <2>4. QED
    BY <1>2, <2>3 DEF StreamStep, Stream!Next
<1>4. CASE ReadValue \notin Filler
  <2>1. delivered' = Append(delivered, ReadValue)
    BY <1>4 DEF ReadSucceeds
  <2>2. ~chip.requestAborted /\ ReadValue = chip.memory
    BY <1>4 DEF ReadValue, Filler
  <2>3. InFlight = <<ReadValue>> /\ ReadValue \in Item
    BY <1>1, <1>4, <2>2 DEF InFlight, PortInv, PortTypeOk, ChipState, Byte, Filler, Item
  <2>4. /\ InFlight \o inputBuffer # <<>>
        /\ Head(InFlight \o inputBuffer) = ReadValue
        /\ Tail(InFlight \o inputBuffer) = inputBuffer
    BY <2>3 DEF PortInv
  <2>5. Stream!ReturnItem
    BY <1>1, <1>2, <2>1, <2>4 DEF Stream!ReturnItem
  <2>6. QED
    BY <1>2, <2>5 DEF StreamStep, Stream!Next
<1>5. QED
  BY <1>3, <1>4

LEMMA RefinementInit == Init => Stream!Init /\ ServedFromEmpty
<1> SUFFICES ASSUME Init PROVE Stream!Init /\ ServedFromEmpty
  OBVIOUS
<1>1. /\ running = FALSE /\ reader = "none" /\ delivered = <<>>
      /\ inputBuffer = <<>> /\ InFlight = <<>>
  BY DEF Init, PortInit, InFlight
<1>2. InFlight \o inputBuffer = <<>>
  BY <1>1, ConcatEmptySeq, EmptySeq
<1>3. QED
  BY <1>1, <1>2 DEF Stream!Init, ServedFromEmpty

LEMMA RefinementStep ==
    IInv /\ ServedFromEmpty /\ [Next]_vars => ServedFromEmpty' /\ [Stream!Next]_(Stream!vars)
<1> SUFFICES ASSUME PortInv, SessionInv, HistoryTypes, NoCharacterLost,
                    ServedFromEmpty, [Next]_vars
             PROVE  ServedFromEmpty' /\ StreamStep
  BY Layers DEF StreamStep
<1>1. CASE SwitchTab \/ Backspace \/ (\E c \in Char : KeyPress(c))
             \/ LeaveTerminalLoop \/ OnDataRequested
  BY <1>1, StutterStep
<1>2. CASE StartInteractive \/ \E text \in BatchTexts : StartBatch(text)
  BY <1>2, OpenStep
<1>3. CASE ReadByte
  BY <1>3, BeginReadStep
<1>4. CASE Enter
  BY <1>4, SupplyStep
<1>5. CASE Stop \/ SimulationFinished
  BY <1>5, CloseStep
<1>6. CASE ReadIsCanceled
  BY <1>6, FailStep
<1>7. CASE ReadSucceeds
  BY <1>7, ReturnStep
<1>8. CASE UNCHANGED vars
  BY <1>8 DEF vars, portVars, sessionVars, history, ServedFromEmpty, InFlight,
     StreamStep, Stream!vars
<1>9. QED
  BY <1>1, <1>2, <1>3, <1>4, <1>5, <1>6, <1>7, <1>8 DEF Next, UserNext, ReadNext

\* The port, the widgets and the CPU's read together implement the stream the
\* program is promised, for every alphabet and every session.
THEOREM Refinement == Spec => ImplementsStream
<1>1. Spec => []IInv
  BY Invariance
<1>2. QED
  BY <1>1, RefinementInit, RefinementStep, PTL DEF Spec, ImplementsStream, Stream!Spec

=============================================================================
