-------------------------- MODULE BatchRun_proofs --------------------------
(***************************************************************************)
(* Proofs about BatchRun, for every alphabet, every set of input files,    *)
(* and every limit of steps.                                               *)
(*                                                                         *)
(* StageInv says, for each position of the worker, where the main thread   *)
(* is and what is posted to it; FileInv and ReadInv build on it and relate *)
(* the files and the reads to the history of the program.                  *)
(***************************************************************************)
EXTENDS BatchRun, SequenceTheorems, FiniteSetTheorems, TLAPS

Item == Char \cup {NL}

-----------------------------------------------------------------------------
(* Sequences.                                                              *)

\* A non-empty sequence is its head followed by its tail.
LEMMA HeadThenTail ==
    ASSUME NEW S, NEW s \in Seq(S), s # <<>>
    PROVE  /\ Head(s) \in S
           /\ Tail(s) \in Seq(S)
           /\ <<Head(s)>> \in Seq(S)
           /\ <<Head(s)>> \o Tail(s) = s
<1>1. Head(s) \in S /\ Tail(s) \in Seq(S)
  BY HeadTailProperties
<1>2. <<Head(s)>> \in Seq(S)
  BY <1>1
<1>3. Len(s) \in Nat /\ Len(s) >= 1
  BY EmptySeq, LenProperties
<1>4. SubSeq(s, 1, Len(s)) = <<s[1]>> \o SubSeq(s, 2, Len(s))
  BY <1>3, SubSeqRecursiveFirst
<1>5. QED
  BY <1>1, <1>2, <1>3, <1>4, SubSeqFull, TailIsSubSeq

\* Appending an item is concatenating the sequence that holds it alone.
LEMMA AppendIsItemConcat ==
    ASSUME NEW S, NEW s \in Seq(S), NEW e \in S
    PROVE  /\ Append(s, e) \in Seq(S)
           /\ Append(s, e) = s \o <<e>>
  OBVIOUS

\* A typed or batch line is a non-empty sequence of items.
LEMMA LineIsItems ==
    ASSUME NEW s \in Seq(Char)
    PROVE  /\ s \in Seq(Item)
           /\ s \o <<NL>> \in Seq(Item)
           /\ s \o <<NL>> # <<>>
<1>1. s \in Seq(Item)
  BY SeqMonotonic DEF Item
<1>2. <<NL>> \in Seq(Item)
  BY DEF Item
<1>3. QED
  BY <1>1, <1>2, ConcatProperties

-----------------------------------------------------------------------------
(* The port layer: what each handler of MemoryIO does to the port.         *)

PortInv ==
    /\ PortTypeOk
    /\ inputBuffer \in Seq(Item)
    /\ ~buffered => inputBuffer = <<>>
    /\ chip.waiting => /\ ~buffered
                       /\ waitingOnInput
                       /\ ~chip.requestCanceled
                       /\ ~chip.requestAborted

\* A read served from the buffer leaves a chip that no longer waits and holds
\* the front of the buffer.
LEMMA ServePort ==
    ASSUME PortInv, ServeFromBuffer
    PROVE  /\ PortInv'
           /\ ~chip'.waiting /\ ~chip'.requestCanceled /\ ~chip'.requestAborted
           /\ chip'.memory = Front(inputBuffer)
<1>1. Front(inputBuffer) \in Byte /\ RemoveFront(inputBuffer) \in Seq(Item)
  BY HeadThenTail DEF PortInv, Front, RemoveFront, Byte, Item
<1>2. RemoveFront(inputBuffer) \in Seq(Byte)
  BY <1>1, SeqMonotonic DEF Byte, Item
<1>3. /\ Requested(chip) \in ChipState
      /\ ~Requested(chip).requestCanceled
      /\ ~Requested(chip).requestAborted
  BY DEF PortInv, PortTypeOk, ChipState, Requested
<1>4. chip' = Received(Requested(chip), Front(inputBuffer))
  BY DEF ServeFromBuffer
<1>5. /\ chip' \in ChipState
      /\ chip'.memory = Front(inputBuffer)
      /\ ~chip'.waiting /\ ~chip'.requestCanceled /\ ~chip'.requestAborted
  BY <1>1, <1>3, <1>4 DEF Received, ChipState
<1>6. QED
  BY <1>1, <1>2, <1>5 DEF PortInv, PortTypeOk, ServeFromBuffer

\* A read that finds no entry leaves a chip that waits, known to memory.
LEMMA RequestPort ==
    ASSUME PortInv, RequestInput
    PROVE  PortInv' /\ chip'.waiting
<1>1. /\ chip' \in ChipState
      /\ chip'.waiting
      /\ ~chip'.requestCanceled
      /\ ~chip'.requestAborted
  BY DEF PortInv, PortTypeOk, RequestInput, Requested, ChipState
<1>2. QED
  BY <1>1 DEF PortInv, PortTypeOk, RequestInput

\* A line that arrives is split between the chip, if it waits, and the buffer.
LEMMA ReceivePort ==
    ASSUME PortInv, NEW arrived \in Seq(Item), arrived # <<>>, OnInputReceived(arrived)
    PROVE  /\ PortInv'
           /\ ~chip'.waiting
           /\ chip'.requestCanceled = chip.requestCanceled
           /\ chip'.requestAborted = chip.requestAborted
           /\ waitingOnInput' => waitingOnInput
<1>1. CASE chip.waiting
  <2>1. Head(arrived) \in Byte /\ Tail(arrived) \in Seq(Item)
    BY HeadThenTail DEF Byte, Item
  <2>2. Tail(arrived) \in Seq(Byte)
    BY <2>1, SeqMonotonic DEF Byte, Item
  <2>3. chip' = Received(chip, Head(arrived)) /\ inputBuffer' = Tail(arrived)
        /\ buffered' = TRUE /\ waitingOnInput' = FALSE
    BY <1>1 DEF OnInputReceived
  <2>4. /\ chip' \in ChipState
        /\ ~chip'.waiting
        /\ chip'.requestCanceled = chip.requestCanceled
        /\ chip'.requestAborted = chip.requestAborted
    BY <2>1, <2>3 DEF PortInv, PortTypeOk, Received, ChipState
  <2>5. QED
    BY <2>1, <2>2, <2>3, <2>4 DEF PortInv, PortTypeOk
<1>2. CASE ~chip.waiting
  <2>1. inputBuffer' = inputBuffer \o arrived /\ buffered' = TRUE
        /\ chip' = chip /\ waitingOnInput' = waitingOnInput
    BY <1>2 DEF OnInputReceived
  <2>2. inputBuffer \o arrived \in Seq(Item)
    BY ConcatProperties DEF PortInv
  <2>3. inputBuffer \o arrived \in Seq(Byte)
    BY <2>2, SeqMonotonic DEF Byte, Item
  <2>4. QED
    BY <1>2, <2>1, <2>2, <2>3 DEF PortInv, PortTypeOk
<1>3. QED
  BY <1>1, <1>2

\* An aborted request no longer waits.
LEMMA AbortPort ==
    ASSUME PortInv, OnInputAborted
    PROVE  /\ PortInv'
           /\ ~chip'.waiting /\ chip'.requestAborted
           /\ chip'.requestCanceled = chip.requestCanceled
  BY DEF PortInv, PortTypeOk, OnInputAborted, ChipState

\* The end of a read changes at most the chip's byte.
LEMMA FinishPort ==
    ASSUME PortInv, FinishRead
    PROVE  /\ PortInv'
           /\ chip'.waiting = chip.waiting
           /\ chip'.requestCanceled = chip.requestCanceled
           /\ chip'.requestAborted = chip.requestAborted
<1>1. ReadValue \in Byte
  BY DEF ReadValue, PortInv, PortTypeOk, ChipState, Byte
<1>2. CASE ReadFails
  BY <1>2 DEF FinishRead, PortInv, PortTypeOk
<1>3. CASE ~ReadFails
  BY <1>1, <1>3 DEF FinishRead, PortInv, PortTypeOk, ChipState
<1>4. QED
  BY <1>2, <1>3

-----------------------------------------------------------------------------
(* The worker, the main thread and the history of the program.            *)

\* Before the end of the simulation is announced.
Underway == {"starting", "executing", "accessed", "returning", "blocked"}

Reported == {"deleting", "idle"}

\* The main thread idles in its loop.
Quiet == Len(events) = 0 /\ main = "loop" /\ ~quitting

\* What is posted blocks nobody.
Announcements == \A i \in 1..Len(events) : events[i] \in {"simulationFinished", "quit"}

StageInv ==
    /\ main = "aborted" => worker \in {"starting", "idle"}
    /\ main = "exited" => worker = "idle"
    /\ worker = "starting" => Len(events) = 0 /\ ~quitting /\ main \in {"loop", "aborted"}
    /\ worker \in {"executing", "accessed", "returning"} => Quiet
    /\ worker = "testing" /\ ~finished => Quiet
    /\ worker = "blocked" => /\ main = "loop" /\ ~quitting
                             /\ Len(events) = 1
                             /\ events[1] \in {"inputRequested", "outputWritten"}
    /\ worker # "blocked" => Announcements
    /\ worker \in Underway => ~finished /\ ~memoryError /\ ~controlError
    /\ memoryError => finished
    /\ worker \in {"blocked", "returning"} => job = "run"
    /\ worker \in {"executing", "accessed", "testing", "ended"} => job \in {"run", "cpurun"}

FileInv ==
    /\ job = "run" /\ worker \notin Reported \cup {"blocked"} => file = written
    /\ worker = "blocked" => IF events[1] = "outputWritten"
                             THEN pending \in Char /\ written = Append(file, pending)
                             ELSE file = written
    /\ job = "run" => steps <= MaxSteps
    /\ job = "run" /\ worker \in Underway => steps < MaxSteps
    /\ job = "run" /\ worker = "ended" /\ steps = MaxSteps =>
           controlError /\ errorMessage = ENDLESS
    /\ controlError /\ worker = "testing" => errorMessage = CONTROL
    /\ controlError /\ worker = "ended" =>
           errorMessage = CONTROL \/ (job = "run" /\ steps = MaxSteps)
    /\ job = "run" /\ worker \in Reported => file = written \o Verdict
    /\ job = "cpurun" /\ HadErrorOnStep /\ worker \in Reported =>
           file = IF memoryError THEN <<MEMORY>> ELSE <<CONTROL>>
    /\ job = "asm" /\ worker \in Reported => file # <<>>

\* What the n-th read of a program returns.
Value(n) == IF n <= Len(text) THEN text[n] ELSE EOT

\* What is buffered when n characters have been taken.
Unread(n) ==
    /\ n <= Len(text) => Len(inputBuffer) = Len(text) - n
    /\ n > Len(text) => Len(inputBuffer) = 0
    /\ \A j \in 1..Len(inputBuffer) : inputBuffer[j] = text[n + j]
    /\ buffered <=> Len(inputBuffer) # 0

ReadInv ==
    /\ \A i \in 1..Len(read) : read[i] = Value(i)
    /\ worker = "starting" => /\ Len(read) = 0
                              /\ ~buffered /\ inputBuffer = <<>>
                              /\ ~chip.waiting
    /\ job = "run" /\ worker \notin {"starting", "returning"} => Unread(Len(read))
    /\ worker = "blocked" /\ events[1] = "inputRequested" => ~buffered /\ chip.waiting
    /\ worker = "returning" => /\ Unread(Len(read) + 1)
                               /\ ~chip.requestCanceled
                               /\ ReadValue = Value(Len(read) + 1)

IInv == TypeOk /\ PortInv /\ StageInv /\ FileInv /\ ReadInv

-----------------------------------------------------------------------------
(* The queue of events.                                                     *)

\* An announcement joins the announcements.
LEMMA PostAnnouncement ==
    ASSUME events \in Seq(Event), Announcements,
           NEW event \in {"simulationFinished", "quit"}, Post(event)
    PROVE  events' \in Seq(Event) /\ Announcements'
<1>1. event \in Event
  BY DEF Event, ToHelper
<1>2. /\ events' \in Seq(Event)
      /\ Len(events') = Len(events) + 1
      /\ events'[Len(events) + 1] = event
      /\ \A i \in 1..Len(events) : events'[i] = events[i]
  BY <1>1, AppendProperties DEF Post
<1>3. QED
  BY <1>2, LenProperties DEF Announcements

\* A blocking call is the only event.
LEMMA PostCall ==
    ASSUME events \in Seq(Event), Len(events) = 0,
           NEW event \in {"inputRequested", "outputWritten"}, Post(event)
    PROVE  events' \in Seq(Event) /\ Len(events') = 1 /\ events'[1] = event
<1>1. event \in Event
  BY DEF Event, ToHelper
<1>2. QED
  BY <1>1, AppendProperties DEF Post

\* A delivered event is the first.
LEMMA DeliverEvent ==
    ASSUME events \in Seq(Event), NEW event, Delivering(event)
    PROVE  /\ events' \in Seq(Event)
           /\ Len(events) > 0
           /\ events[1] = event
           /\ Len(events') = Len(events) - 1
           /\ \A i \in 1..Len(events') : events'[i] = events[i + 1]
<1>1. /\ events # <<>>
      /\ Head(events) = event
      /\ events' = Tail(events)
  BY DEF Delivering
<1>2. QED
  BY <1>1, HeadTailProperties, EmptySeq, LenProperties

\* Where only announcements are posted, one is delivered and the others stay.
LEMMA DeliverAnnouncement ==
    ASSUME events \in Seq(Event), Announcements, NEW event, Delivering(event)
    PROVE  /\ event \in {"simulationFinished", "quit"}
           /\ Len(events) # 0
           /\ Announcements'
<1>1. /\ Len(events) \in Nat /\ Len(events) > 0
      /\ events[1] = event
      /\ Len(events') = Len(events) - 1
      /\ \A i \in 1..Len(events') : events'[i] = events[i + 1]
  BY DeliverEvent, LenProperties
<1>2. QED
  BY <1>1 DEF Announcements

\* Nothing is posted after a blocking call has been delivered.
LEMMA DeliverCall ==
    ASSUME events \in Seq(Event), Len(events) = 1, NEW event, Delivering(event)
    PROVE  events[1] = event /\ Len(events') = 0 /\ Announcements'
BY DeliverEvent DEF Announcements

\* What outlives the helper are calls of quit.
LEMMA QuitsRemain ==
    ASSUME events \in Seq(Event)
    PROVE  /\ Quits \in Seq(Event)
           /\ \A i \in 1..Len(Quits) : Quits[i] = "quit"
<1> DEFINE quits == {i \in DOMAIN events : events[i] = "quit"}
<1>1. IsFiniteSet(quits)
  <2>1. DOMAIN events = 1..Len(events) /\ Len(events) \in Nat
    BY LenProperties
  <2>2. IsFiniteSet(1..Len(events))
    BY <2>1, FS_Interval
  <2>3. QED
    BY <2>1, <2>2, FS_Subset
<1>2. Cardinality(quits) \in Nat
  BY <1>1, FS_CardinalityType
<1>3. Quits = [k \in 1..Cardinality(quits) |-> "quit"]
  BY DEF Quits
<1> HIDE DEF quits
<1>4. QED
  BY <1>2, <1>3 DEF Event

-----------------------------------------------------------------------------
(* Where the two threads are.                                               *)

\* Each step of the worker leaves the main thread in its loop until the end of
\* the simulation has been announced.
LEMMA WorkerStage ==
    ASSUME TypeOk, StageInv, WorkerNext
    PROVE  StageInv'
<1>1. /\ events \in Seq(Event) /\ ~Over
      /\ worker # "blocked" => Announcements
      /\ UNCHANGED events => UNCHANGED Announcements
  BY DEF TypeOk, WorkerNext, StageInv, Announcements
<1> USE DEF StageInv, Underway, Quiet, Over, runVars
<1>2. CASE BuildProgram
  <2>1. Announcements'
    BY <1>1, <1>2, PostAnnouncement DEF BuildProgram
  <2>2. QED
    BY <1>1, <1>2, <2>1 DEF BuildProgram
<1>3. CASE BuildMicroprogram
  <2>1. Announcements'
    BY <1>1, <1>3, PostAnnouncement DEF BuildMicroprogram
  <2>2. QED
    BY <1>1, <1>3, <2>1 DEF BuildMicroprogram
<1>4. CASE \E input \in Inputs \cup {<<>>} : StartRun(input)
  BY <1>1, <1>4 DEF StartRun
<1>5. CASE CannotOpen
  BY <1>1, <1>5 DEF CannotOpen
<1>6. CASE StartMicroprogram
  <2>1. Post("quit") \/ UNCHANGED events
    BY <1>6 DEF StartMicroprogram
  <2>2. worker # "blocked"
    BY <1>6 DEF StartMicroprogram
  <2>3. CASE Post("quit")
    <3>1. Announcements'
      BY <1>1, <2>2, <2>3, PostAnnouncement
    <3>2. QED
      BY <1>1, <1>6, <2>3, <3>1 DEF TypeOk, StartMicroprogram
  <2>4. CASE UNCHANGED events
    BY <1>1, <1>6, <2>2, <2>4 DEF TypeOk, StartMicroprogram
  <2>5. QED
    BY <2>1, <2>3, <2>4
<1>7. CASE Compute
  BY <1>1, <1>7 DEF Compute
<1>8. CASE ReadBuffered
  BY <1>1, <1>8 DEF ReadBuffered
<1>9. CASE AskForInput
  <2>1. Len(events') = 1 /\ events'[1] = "inputRequested"
    BY <1>1, <1>9, PostCall DEF AskForInput
  <2>2. QED
    BY <1>1, <1>9, <2>1 DEF AskForInput
<1>10. CASE ReturnRead
  BY <1>1, <1>10 DEF ReturnRead
<1>11. CASE \E c \in Char : Write(c)
  <2>1. Len(events') = 1 /\ events'[1] = "outputWritten"
    BY <1>1, <1>11, PostCall DEF Write
  <2>2. QED
    BY <1>1, <1>11, <2>1 DEF Write
<1>12. CASE EndInstruction
  <2>1. /\ worker = "accessed" /\ worker' = "testing"
        /\ UNCHANGED <<job, main, quitting>>
    BY <1>12 DEF EndInstruction
  <2>2. CASE finished' = TRUE /\ Post("simulationFinished")
    <3>1. Announcements'
      BY <1>1, <2>1, <2>2, PostAnnouncement
    <3>2. QED
      BY <1>1, <2>1, <2>2, <3>1
  <2>3. CASE UNCHANGED <<finished, memoryError, controlError, events>>
    BY <1>1, <2>1, <2>3
  <2>4. QED
    BY <1>12, <2>2, <2>3 DEF EndInstruction
<1>13. CASE Test
  <2>1. Post("simulationFinished") \/ UNCHANGED events
    BY <1>13 DEF Test, TestOfRun, TestOfMicroprogram, GoesOn, HadErrorOnStep
  <2>2. worker # "blocked"
    BY <1>13 DEF Test
  <2>3. CASE Post("simulationFinished")
    <3>1. Announcements'
      BY <1>1, <2>2, <2>3, PostAnnouncement
    <3>2. QED
      BY <1>1, <1>13, <2>3, <3>1 DEF TypeOk, Test, TestOfRun, TestOfMicroprogram, GoesOn, HadErrorOnStep
  <2>4. CASE UNCHANGED events
    BY <1>1, <1>13, <2>2, <2>4 DEF TypeOk, Test, TestOfRun, TestOfMicroprogram, GoesOn, HadErrorOnStep
  <2>5. QED
    BY <2>1, <2>3, <2>4
<1>14. CASE ReportRun
  BY <1>1, <1>14 DEF ReportRun
<1>15. CASE ReportMicroprogram
  <2>1. Announcements'
    BY <1>1, <1>15, PostAnnouncement DEF ReportMicroprogram
  <2>2. QED
    BY <1>1, <1>15, <2>1 DEF ReportMicroprogram
<1>16. CASE DeleteHelper
  <2>1. Announcements'
    BY <1>1, <1>16, QuitsRemain DEF DeleteHelper, Announcements
  <2>2. QED
    BY <1>1, <1>16, <2>1 DEF DeleteHelper
<1>17. QED
  BY <1>2, <1>3, <1>4, <1>5, <1>6, <1>7, <1>8, <1>9, <1>10, <1>11, <1>12, <1>13, <1>14, <1>15, <1>16 DEF WorkerNext

\* Each step of the main thread lets a blocked worker go on, or happens when the
\* end of the simulation has been announced.
LEMMA MainStage ==
    ASSUME TypeOk, StageInv, MainNext
    PROVE  StageInv'
<1>1. /\ events \in Seq(Event)
      /\ worker # "blocked" => Announcements
      /\ UNCHANGED events => UNCHANGED <<Announcements, Len(events)>>
  BY DEF TypeOk, StageInv, Announcements
<1> USE DEF StageInv, Underway, Quiet, runVars
<1>2. CASE OnInputRequested
  <2>1. Delivering("inputRequested")
    BY <1>2 DEF OnInputRequested
  <2>2. worker = "blocked" /\ Len(events') = 0 /\ Announcements'
    BY <1>1, <2>1, DeliverCall, DeliverAnnouncement
  <2>3. QED
    BY <1>1, <1>2, <2>2 DEF OnInputRequested
<1>3. CASE OnOutputReceived
  <2>1. Delivering("outputWritten")
    BY <1>3 DEF OnOutputReceived
  <2>2. worker = "blocked" /\ Len(events') = 0 /\ Announcements'
    BY <1>1, <2>1, DeliverCall, DeliverAnnouncement
  <2>3. QED
    BY <1>1, <1>3, <2>2 DEF OnOutputReceived
<1>4. CASE OnSimulationFinished
  <2>1. Delivering("simulationFinished")
    BY <1>4 DEF OnSimulationFinished
  <2>2. worker # "blocked"
    BY <1>1, <2>1, DeliverCall
  <2>3. Announcements' /\ Len(events) # 0
    BY <1>1, <2>1, <2>2, DeliverAnnouncement
  <2>4. QED
    BY <1>1, <1>4, <2>1, <2>2, <2>3 DEF TypeOk, Delivering, OnSimulationFinished
<1>5. CASE EmitFinished
  BY <1>1, <1>5 DEF TypeOk, EmitFinished
<1>6. CASE OnQuit
  <2>1. Delivering("quit")
    BY <1>6 DEF OnQuit
  <2>2. worker # "blocked"
    BY <1>1, <2>1, DeliverCall
  <2>3. Announcements' /\ Len(events) # 0
    BY <1>1, <2>1, <2>2, DeliverAnnouncement
  <2>4. QED
    BY <1>1, <1>6, <2>1, <2>2, <2>3 DEF TypeOk, Delivering, OnQuit
<1>7. CASE LeaveLoop
  BY <1>1, <1>7 DEF TypeOk, LeaveLoop
<1>8. CASE Exit
  BY <1>1, <1>8 DEF TypeOk, Exit
<1>9. QED
  BY <1>2, <1>3, <1>4, <1>5, <1>6, <1>7, <1>8 DEF MainNext

-----------------------------------------------------------------------------
(* The port and the types.                                                  *)

\* What runProgram buffers is a line of items.
LEMMA StartText ==
    ASSUME NEW input \in Inputs \cup {<<>>}
    PROVE  Append(input, NL) \in Seq(Item) /\ Append(input, NL) # <<>>
<1>1. input \in Seq(Char)
  BY BatchAssumption, EmptySeq
<1>2. Append(input, NL) = input \o <<NL>>
  BY <1>1, SeqMonotonic, AppendIsItemConcat DEF Item
<1>3. QED
  BY <1>1, <1>2, LineIsItems

\* The port keeps its invariant: the handlers of MemoryIO are all there is.
LEMMA PortNext ==
    ASSUME PortInv, [Next]_vars
    PROVE  PortInv'
<1>1. CASE UNCHANGED portVars
  BY <1>1 DEF PortInv, PortTypeOk, portVars
<1>2. CASE \E input \in Inputs \cup {<<>>} : StartRun(input)
  BY <1>2, StartText, ReceivePort DEF StartRun
<1>3. CASE ReadBuffered
  BY <1>3, ServePort DEF ReadBuffered
<1>4. CASE AskForInput
  BY <1>4, RequestPort DEF AskForInput
<1>5. CASE ReturnRead
  BY <1>5, FinishPort DEF ReturnRead
<1>6. CASE OnInputRequested
  BY <1>6, AbortPort DEF OnInputRequested
<1>7. CASE UNCHANGED vars
  BY <1>1, <1>7 DEF vars
<1>8. CASE WorkerNext
  BY <1>1, <1>2, <1>3, <1>4, <1>5, <1>8
     DEF WorkerNext, BuildProgram, BuildMicroprogram, CannotOpen, StartMicroprogram, Compute,
         Write, EndInstruction, Test, ReportRun, ReportMicroprogram, DeleteHelper
<1>9. CASE MainNext
  BY <1>1, <1>6, <1>9
     DEF MainNext, OnOutputReceived, OnSimulationFinished, EmitFinished, OnQuit, LeaveLoop, Exit
<1>10. QED
  BY <1>7, <1>8, <1>9 DEF Next

\* The queue holds events.
LEMMA QueueNext ==
    ASSUME events \in Seq(Event), [Next]_vars
    PROVE  events' \in Seq(Event)
<1>1. CASE UNCHANGED events
  BY <1>1
<1>2. ASSUME NEW event \in Event, Post(event)
      PROVE  events' \in Seq(Event)
  BY <1>2, AppendProperties DEF Post
<1>3. {"inputRequested", "outputWritten", "simulationFinished", "quit"} \subseteq Event
  BY DEF Event, ToHelper
<1>4. CASE DeleteHelper
  BY <1>4, QuitsRemain DEF DeleteHelper
<1>5. CASE UNCHANGED vars
  BY <1>1, <1>5 DEF vars, threads
<1>6. CASE WorkerNext
  BY <1>1, <1>2, <1>3, <1>4, <1>6
     DEF WorkerNext, BuildProgram, BuildMicroprogram, StartRun, CannotOpen, StartMicroprogram,
         Compute, ReadBuffered, AskForInput, ReturnRead, Write, EndInstruction, Test, TestOfRun,
         TestOfMicroprogram, ReportRun, ReportMicroprogram
<1>7. CASE MainNext
  <2>1. ASSUME NEW event, Delivering(event)
        PROVE  events' \in Seq(Event)
    BY <2>1, DeliverEvent
  <2>2. QED
    BY <1>1, <1>7, <2>1
       DEF MainNext, OnInputRequested, OnOutputReceived, OnSimulationFinished, EmitFinished,
           OnQuit, LeaveLoop, Exit
<1>8. QED
  BY <1>5, <1>6, <1>7 DEF Next

\* What the worker buffers, writes and reads, and what either thread files.
LEMMA DataTypes ==
    ASSUME TypeOk, StageInv, FileInv, PortInv, [Next]_vars
    PROVE  /\ text' \in Seq(Char \cup {NL})
           /\ pending' \in Char \cup {NUL}
           /\ file' \in Seq(Char \cup Message)
           /\ written' \in Seq(Char)
           /\ read' \in Seq(Byte)
<1> USE DEF TypeOk
<1>1. CASE UNCHANGED <<text, pending, file, written, read>>
  BY <1>1
<1>2. CASE \E input \in Inputs \cup {<<>>} : StartRun(input)
  BY <1>2, StartText DEF StartRun, files, Item
<1>3. CASE ReturnRead
  <2>1. ReadValue \in Byte
    BY DEF PortInv, PortTypeOk, ChipState, ReadValue, Byte
  <2>2. QED
    BY <1>3, <2>1, AppendProperties DEF ReturnRead, files
<1>4. CASE \E c \in Char : Write(c)
  BY <1>4, AppendProperties DEF Write
<1>5. CASE OnOutputReceived
  <2>1. /\ Delivering("outputWritten")
        /\ file' = Append(file, pending)
        /\ UNCHANGED <<text, pending, written, read>>
    BY <1>5 DEF OnOutputReceived
  <2>2. worker = "blocked" /\ events[1] = "outputWritten"
    BY <2>1, DeliverEvent, DeliverAnnouncement DEF StageInv
  <2>3. pending \in Char \cup Message
    BY <2>2 DEF FileInv
  <2>4. QED
    BY <2>1, <2>3, AppendProperties
<1>6. CASE BuildProgram \/ BuildMicroprogram \/ StartMicroprogram \/ ReportMicroprogram \/ ReportRun
  <2>1. {ERRORS, OBJECT, MEMORY, ENDLESS, CONTROL} \subseteq Char \cup Message
    BY DEF Message
  <2>2. /\ <<>> \in Seq(Char \cup Message)
        /\ <<ERRORS>> \in Seq(Char \cup Message)
        /\ <<OBJECT>> \in Seq(Char \cup Message)
        /\ \A m \in {MEMORY, ENDLESS, CONTROL} : <<m>> \in Seq(Char \cup Message)
        /\ <<ERRORS, OBJECT>> \in Seq(Char \cup Message)
        /\ \A m \in {MEMORY, ENDLESS, CONTROL} : Append(file, m) \in Seq(Char \cup Message)
    BY <2>1, AppendProperties
  <2>3. worker = "ended" /\ HadErrorOnStep => ErrorMessage \in {MEMORY, ENDLESS, CONTROL}
    BY DEF StageInv, FileInv, HadErrorOnStep, ErrorMessage
  <2>4. QED
    BY <1>6, <2>2, <2>3
       DEF BuildProgram, BuildMicroprogram, StartMicroprogram, ReportMicroprogram, ReportRun
<1>7. CASE UNCHANGED vars
  BY <1>1, <1>7 DEF vars, threads, files
<1>8. CASE WorkerNext
  BY <1>1, <1>2, <1>3, <1>4, <1>6, <1>8
     DEF WorkerNext, CannotOpen, Compute, ReadBuffered, AskForInput, EndInstruction, Test,
         DeleteHelper, files
<1>9. CASE MainNext
  BY <1>1, <1>5, <1>9
     DEF MainNext, OnInputRequested, OnSimulationFinished, EmitFinished, OnQuit, LeaveLoop, Exit,
         files
<1>10. QED
  BY <1>7, <1>8, <1>9 DEF Next

\* The two threads' positions and the flags of the run.
LEMMA ControlTypes ==
    ASSUME TypeOk, [Next]_vars
    PROVE  /\ job' \in Jobs
           /\ worker' \in {"starting", "executing", "accessed", "blocked",
                           "returning", "testing", "ended", "deleting", "idle"}
           /\ main' \in {"loop", "finishing", "waiting", "exited", "aborted"}
           /\ quitting' \in BOOLEAN
           /\ steps' \in Nat
           /\ finished' \in BOOLEAN /\ memoryError' \in BOOLEAN /\ controlError' \in BOOLEAN
           /\ errorMessage' \in {NoMessage, CONTROL, ENDLESS}
<1> USE DEF TypeOk
<1>1. CASE UNCHANGED vars
  BY <1>1 DEF vars, threads, runVars
<1>2. CASE WorkerNext
  <2>1. UNCHANGED <<job, quitting>>
    BY <1>2
       DEF WorkerNext, BuildProgram, BuildMicroprogram, StartRun, CannotOpen, StartMicroprogram,
           Compute, ReadBuffered, AskForInput, ReturnRead, Write, EndInstruction, Test,
           ReportRun, ReportMicroprogram, DeleteHelper
  <2>2. CASE EndInstruction
    <3>1. finished' \in BOOLEAN /\ memoryError' \in BOOLEAN /\ controlError' \in BOOLEAN
      BY <2>2, Zenon DEF EndInstruction, Outcome
    <3>2. errorMessage' \in {errorMessage, CONTROL}
      BY <2>2 DEF EndInstruction, Outcome
    <3>3. QED
      BY <2>1, <2>2, <3>1, <3>2 DEF EndInstruction
  <2>3. CASE Test
    BY <2>1, <2>3 DEF Test, TestOfRun, TestOfMicroprogram
  <2>4. CASE ~EndInstruction /\ ~Test
    BY <1>2, <2>1, <2>4
       DEF WorkerNext, BuildProgram, BuildMicroprogram, StartRun, CannotOpen, StartMicroprogram,
           Compute, ReadBuffered, AskForInput, ReturnRead, Write, ReportRun,
           ReportMicroprogram, DeleteHelper, runVars
  <2>5. QED
    BY <2>2, <2>3, <2>4
<1>3. CASE MainNext
  BY <1>3
     DEF MainNext, OnInputRequested, OnOutputReceived, OnSimulationFinished, EmitFinished,
         OnQuit, LeaveLoop, Exit, runVars
<1>4. QED
  BY <1>1, <1>2, <1>3 DEF Next

LEMMA TypeNext ==
    ASSUME TypeOk, StageInv, FileInv, PortInv, [Next]_vars
    PROVE  TypeOk'
<1>1. PortTypeOk' /\ events' \in Seq(Event)
  BY PortNext, QueueNext DEF PortInv, TypeOk
<1>2. QED
  BY <1>1, DataTypes, ControlTypes DEF TypeOk

-----------------------------------------------------------------------------
(* The files.                                                               *)

\* A step that keeps what FileInv is about keeps FileInv.
LEMMA FileUnchanged ==
    ASSUME FileInv, UNCHANGED <<job, runVars, files>>, worker # "blocked", worker' # "blocked",
           worker' \in Underway => worker \in Underway,
           worker' \in {"testing", "ended"} => worker = worker',
           worker \in Reported <=> worker' \in Reported
    PROVE  FileInv'
BY DEF FileInv, Underway, Reported, HadErrorOnStep, Verdict, runVars, files

\* The worker writes what a finished run is told by, and counts its steps.
LEMMA WorkerFile ==
    ASSUME TypeOk, StageInv, FileInv, WorkerNext
    PROVE  FileInv'
<1>1. /\ steps \in Nat /\ MaxSteps \in Nat \ {0}
      /\ events \in Seq(Event)
      /\ file \in Seq(Char \cup Message) /\ written \in Seq(Char)
  BY BatchAssumption DEF TypeOk
<1> USE DEF Underway, Reported
<1>2. CASE BuildProgram
  <2>1. file' # <<>>
    BY <1>2 DEF BuildProgram
  <2>2. job' = "asm" /\ worker' = "deleting"
    BY <1>2 DEF BuildProgram
  <2>3. QED
    BY <2>1, <2>2 DEF FileInv
<1>3. CASE BuildMicroprogram
  BY <1>1, <1>3 DEF FileInv, StageInv, BuildMicroprogram, runVars
<1>4. CASE \E input \in Inputs \cup {<<>>} : StartRun(input)
  BY <1>4, FileUnchanged DEF StartRun
<1>5. CASE CannotOpen
  BY <1>5, FileUnchanged DEF CannotOpen
<1>6. CASE StartMicroprogram
  BY <1>1, <1>6 DEF FileInv, StageInv, HadErrorOnStep, StartMicroprogram, runVars
<1>7. CASE Compute \/ ReadBuffered
  BY <1>7, FileUnchanged DEF Compute, ReadBuffered
<1>8. CASE AskForInput
  <2>1. Len(events') = 1 /\ events'[1] = "inputRequested"
    BY <1>1, <1>8, PostCall DEF AskForInput, StageInv, Quiet
  <2>2. QED
    BY <1>8, <2>1 DEF FileInv, StageInv, AskForInput, runVars, files
<1>9. CASE ReturnRead
  BY <1>9 DEF FileInv, StageInv, ReturnRead, runVars, files
<1>10. CASE \E c \in Char : Write(c)
  <2>1. Len(events') = 1 /\ events'[1] = "outputWritten"
    BY <1>1, <1>10, PostCall DEF Write, StageInv, Quiet
  <2>2. QED
    BY <1>10, <2>1 DEF FileInv, StageInv, Write, runVars
<1>11. CASE EndInstruction
  <2>1. controlError' => errorMessage' = CONTROL
    BY <1>11 DEF StageInv, EndInstruction, Outcome
  <2>2. worker = "accessed" /\ worker' = "testing" /\ steps' = steps + 1
        /\ UNCHANGED <<job, files>>
    BY <1>11 DEF EndInstruction, files
  <2>3. QED
    BY <1>1, <2>1, <2>2 DEF FileInv, files
<1>12. CASE Test
  <2>1. CASE job = "run"
    BY <1>1, <1>12, <2>1 DEF FileInv, StageInv, Test, TestOfRun, GoesOn, HadErrorOnStep, files
  <2>2. CASE job # "run"
    BY <1>1, <1>12, <2>2 DEF FileInv, StageInv, Test, TestOfMicroprogram, files
  <2>3. QED
    BY <2>1, <2>2
<1>13. CASE ReportRun
  <2>1. /\ file = written
        /\ steps = MaxSteps => controlError /\ errorMessage = ENDLESS
        /\ steps # MaxSteps /\ controlError => errorMessage = CONTROL
    BY <1>13 DEF FileInv, ReportRun
  <2>2. /\ Append(written, MEMORY) = written \o <<MEMORY>>
        /\ Append(written, ENDLESS) = written \o <<ENDLESS>>
        /\ Append(written, CONTROL) = written \o <<CONTROL>>
        /\ written \o <<>> = written
    <3>1. written \in Seq(Char \cup {MEMORY, ENDLESS, CONTROL})
      BY <1>1
    <3>2. written \o <<>> = written
      BY <3>1, ConcatEmptySeq
    <3>3. /\ Append(written, MEMORY) = written \o <<MEMORY>>
          /\ Append(written, ENDLESS) = written \o <<ENDLESS>>
          /\ Append(written, CONTROL) = written \o <<CONTROL>>
      BY <3>1, AppendIsConcat
    <3>4. QED
      BY <3>2, <3>3
  <2>3. file' = written \o Verdict
    BY <1>13, <2>1, <2>2 DEF ReportRun, HadErrorOnStep, ErrorMessage, Verdict
  <2>4. UNCHANGED <<written, Verdict>>
    BY <1>13 DEF ReportRun, Verdict, runVars
  <2>5. QED
    BY <1>13, <2>1, <2>3, <2>4 DEF FileInv, HadErrorOnStep, ReportRun, runVars
<1>14. CASE ReportMicroprogram
  BY <1>14 DEF FileInv, StageInv, ReportMicroprogram, HadErrorOnStep, ErrorMessage, runVars
<1>15. CASE DeleteHelper
  BY <1>15, FileUnchanged DEF DeleteHelper
<1>16. QED
  BY <1>2, <1>3, <1>4, <1>5, <1>6, <1>7, <1>8, <1>9, <1>10, <1>11, <1>12, <1>13, <1>14, <1>15 DEF WorkerNext

\* The main thread files the character that the blocked worker writes.
LEMMA MainFile ==
    ASSUME TypeOk, StageInv, FileInv, MainNext
    PROVE  FileInv'
<1>1. events \in Seq(Event)
  BY DEF TypeOk
<1> USE DEF Underway, Reported
<1>2. CASE OnInputRequested
  <2>1. worker = "blocked" /\ events[1] = "inputRequested"
    BY <1>1, <1>2, DeliverEvent, DeliverAnnouncement DEF StageInv, OnInputRequested
  <2>2. QED
    BY <1>2, <2>1 DEF FileInv, StageInv, OnInputRequested, runVars, files
<1>3. CASE OnOutputReceived
  <2>1. worker = "blocked" /\ events[1] = "outputWritten"
    BY <1>1, <1>3, DeliverEvent, DeliverAnnouncement DEF StageInv, OnOutputReceived
  <2>2. QED
    BY <1>3, <2>1 DEF FileInv, StageInv, OnOutputReceived, runVars
<1>4. CASE OnSimulationFinished \/ OnQuit
  <2>1. worker # "blocked"
    BY <1>1, <1>4, DeliverCall DEF StageInv, OnSimulationFinished, OnQuit
  <2>2. QED
    BY <1>4, <2>1, FileUnchanged DEF OnSimulationFinished, OnQuit
<1>5. CASE EmitFinished \/ LeaveLoop \/ Exit
  <2>1. UNCHANGED <<job, worker, events, runVars, pending, files>>
    BY <1>5 DEF EmitFinished, LeaveLoop, Exit
  <2>2. UNCHANGED Verdict
    BY <2>1 DEF Verdict, runVars
  <2>3. QED
    BY <2>1, <2>2 DEF FileInv, HadErrorOnStep, runVars, files
<1>6. QED
  BY <1>2, <1>3, <1>4, <1>5 DEF MainNext

-----------------------------------------------------------------------------
(* The reads.                                                               *)

\* A step that touches neither the port nor the reads, away from a read.
LEMMA ReadUnchanged ==
    ASSUME ReadInv, UNCHANGED <<portVars, job, text, read>>,
           worker' = "starting" => worker = "starting",
           job = "run" => worker # "starting",
           worker \notin {"blocked", "returning"}, worker' \notin {"blocked", "returning"}
    PROVE  ReadInv'
BY DEF ReadInv, Unread, Value, portVars

\* What is buffered at the start is the text.
LEMMA StartRead ==
    ASSUME TypeOk, PortInv, ReadInv, NEW input \in Inputs \cup {<<>>}, StartRun(input)
    PROVE  ReadInv'
<1>1. text' = Append(input, NL) /\ text' \in Seq(Item) /\ text' # <<>>
  BY StartText DEF StartRun
<1>2. ~chip.waiting /\ inputBuffer = <<>> /\ Len(read) = 0 /\ UNCHANGED read
  BY DEF StartRun, ReadInv, files
<1>3. inputBuffer' = text' /\ buffered' = TRUE
  BY <1>1, <1>2, ConcatEmptySeq DEF StartRun, OnInputReceived
<1>4. Len(text') \in Nat /\ Len(text') # 0
  BY <1>1, EmptySeq, LenProperties
<1>5. worker' = "executing"
  BY DEF StartRun
<1>6. QED
  BY <1>2, <1>3, <1>4, <1>5 DEF ReadInv, Unread, Value

\* A read of the port takes the first of what is buffered.
LEMMA ServeRead ==
    ASSUME TypeOk, StageInv, PortInv, ReadInv, ReadBuffered
    PROVE  ReadInv'
<1> DEFINE n == Len(read)
<1>1. /\ inputBuffer \in Seq(Item) /\ text \in Seq(Item) /\ n \in Nat
      /\ Len(inputBuffer) \in Nat /\ Len(text) \in Nat
  BY LenProperties DEF TypeOk, PortInv, Item
<1>2. /\ worker = "executing" /\ worker' = "returning" /\ job = "run"
      /\ ServeFromBuffer /\ buffered
      /\ UNCHANGED <<job, text, read>>
  BY DEF ReadBuffered, ServeFromBuffer, files
<1>3. Unread(n)
  BY <1>2 DEF ReadInv
<1>4. Len(inputBuffer) # 0 /\ inputBuffer # <<>>
  BY <1>2, <1>3 DEF Unread
<1>5. /\ inputBuffer' = Tail(inputBuffer)
      /\ Len(inputBuffer') = Len(inputBuffer) - 1
      /\ \A j \in 1..Len(inputBuffer') : inputBuffer'[j] = inputBuffer[j + 1]
      /\ Front(inputBuffer) = inputBuffer[1]
  BY <1>1, <1>2, <1>4, HeadTailProperties DEF ServeFromBuffer, RemoveFront, Front
<1>6. buffered' <=> Len(inputBuffer') # 0
  BY <1>1, <1>2, <1>4, <1>5, EmptySeq, HeadTailProperties DEF ServeFromBuffer, RemoveFront
<1>7. n < Len(text) /\ Len(inputBuffer) = Len(text) - n /\ inputBuffer[1] = text[n + 1]
  BY <1>1, <1>3, <1>4 DEF Unread
<1>8. Unread(n + 1)'
  BY <1>1, <1>2, <1>3, <1>5, <1>6, <1>7 DEF Unread
<1>9. ~chip'.requestCanceled /\ ReadValue' = inputBuffer[1]
  BY <1>2, <1>5, ServePort DEF ReadValue
<1>10. QED
  BY <1>1, <1>2, <1>7, <1>8, <1>9 DEF ReadInv, Value

\* A read that finds nothing buffered waits for an answer.
LEMMA AskRead ==
    ASSUME TypeOk, StageInv, PortInv, ReadInv, AskForInput
    PROVE  ReadInv'
<1>1. chip'.waiting /\ ~buffered /\ UNCHANGED <<buffered, inputBuffer>>
  BY RequestPort DEF AskForInput, RequestInput
<1>2. worker = "executing" /\ worker' = "blocked" /\ job = "run" /\ UNCHANGED <<job, text, read>>
  BY DEF AskForInput, files
<1>3. QED
  BY <1>1, <1>2 DEF ReadInv, Unread, Value

\* The answer is the end of the transmission, and everything was read.
LEMMA AbortRead ==
    ASSUME TypeOk, StageInv, PortInv, ReadInv, OnInputRequested
    PROVE  ReadInv'
<1> DEFINE n == Len(read)
<1>1. events \in Seq(Event) /\ n \in Nat /\ Len(text) \in Nat
  BY LenProperties DEF TypeOk
<1>2. worker = "blocked" /\ events[1] = "inputRequested" /\ job = "run"
  BY <1>1, DeliverEvent, DeliverAnnouncement DEF StageInv, OnInputRequested
<1>3. Unread(n) /\ ~buffered /\ chip.waiting
  BY <1>2 DEF ReadInv
<1>4. Len(inputBuffer) = 0 /\ n >= Len(text)
  BY <1>1, <1>3 DEF Unread
<1>5. ~chip'.requestCanceled /\ ReadValue' = EOT
  BY <1>3, AbortPort DEF OnInputRequested, PortInv, ReadValue
<1>6. worker' = "returning" /\ UNCHANGED <<job, text, read, buffered, inputBuffer>>
  BY DEF OnInputRequested, OnInputAborted, files
<1>7. Unread(n + 1)'
  BY <1>1, <1>3, <1>4, <1>6 DEF Unread
<1>8. Value(n + 1)' = EOT
  BY <1>1, <1>4, <1>6 DEF Value
<1>9. QED
  BY <1>1, <1>2, <1>5, <1>6, <1>7, <1>8 DEF ReadInv, Value

\* A read returns the value that its place in the text has.
LEMMA FinishedRead ==
    ASSUME TypeOk, StageInv, PortInv, ReadInv, ReturnRead
    PROVE  ReadInv'
<1>1. /\ worker = "returning" /\ worker' = "accessed" /\ job = "run"
      /\ UNCHANGED <<job, text, buffered, inputBuffer>>
      /\ read' = Append(read, ReadValue)
  BY DEF ReturnRead, FinishRead, StageInv
<1>2. ReadValue = Value(Len(read) + 1) /\ Unread(Len(read) + 1)
  BY <1>1 DEF ReadInv
<1>3. ReadValue \in Byte
  BY DEF PortInv, PortTypeOk, ChipState, ReadValue, Byte
<1>4. /\ Len(read) \in Nat
      /\ Len(read') = Len(read) + 1
      /\ read'[Len(read) + 1] = ReadValue
      /\ \A i \in 1..Len(read) : read'[i] = read[i]
  BY <1>1, <1>3, AppendProperties, LenProperties DEF TypeOk
<1>5. Unread(Len(read))'
  BY <1>1, <1>2, <1>4 DEF Unread
<1>6. \A i \in 1..Len(read') : read'[i] = Value(i)'
  BY <1>1, <1>2, <1>4 DEF ReadInv, Value
<1>7. QED
  BY <1>1, <1>5, <1>6 DEF ReadInv

LEMMA ReadNext ==
    ASSUME TypeOk, StageInv, PortInv, ReadInv, Next
    PROVE  ReadInv'
<1>1. CASE \E input \in Inputs \cup {<<>>} : StartRun(input)
  BY <1>1, StartRead
<1>2. CASE BuildProgram \/ BuildMicroprogram \/ StartMicroprogram
  BY <1>2 DEF ReadInv, Value, BuildProgram, BuildMicroprogram, StartMicroprogram
<1>3. CASE CannotOpen \/ EmitFinished \/ LeaveLoop \/ Exit
  <2>1. UNCHANGED <<portVars, job, text, worker, events, read>>
    BY <1>3 DEF CannotOpen, EmitFinished, LeaveLoop, Exit, files
  <2>2. QED
    BY <2>1 DEF ReadInv, Unread, Value, ReadValue, portVars
<1>4. CASE ReadBuffered
  BY <1>4, ServeRead
<1>5. CASE AskForInput
  BY <1>5, AskRead
<1>6. CASE ReturnRead
  BY <1>6, FinishedRead
<1>7. CASE \E c \in Char : Write(c)
  <2>1. events' \in Seq(Event) /\ events'[1] = "outputWritten"
    BY <1>7, PostCall DEF TypeOk, StageInv, Quiet, Write
  <2>2. QED
    BY <1>7, <2>1 DEF ReadInv, Unread, Value, Write, portVars
<1>8. CASE Compute \/ EndInstruction \/ Test \/ ReportRun \/ ReportMicroprogram \/ DeleteHelper
  <2>1. worker \notin {"starting", "blocked", "returning"}
        /\ worker' \notin {"starting", "blocked", "returning"}
    BY <1>8 DEF Compute, EndInstruction, Test, TestOfRun, TestOfMicroprogram, ReportRun,
                ReportMicroprogram, DeleteHelper
  <2>2. UNCHANGED <<portVars, job, text, read>>
    BY <1>8 DEF Compute, EndInstruction, Test, ReportRun, ReportMicroprogram, DeleteHelper, files
  <2>3. QED
    BY <2>1, <2>2, ReadUnchanged
<1>9. CASE OnInputRequested
  BY <1>9, AbortRead
<1>10. CASE OnOutputReceived
  <2>1. worker = "blocked" /\ events[1] = "outputWritten" /\ job = "run"
    BY <1>10, DeliverEvent, DeliverAnnouncement DEF TypeOk, StageInv, OnOutputReceived
  <2>2. QED
    BY <1>10, <2>1 DEF ReadInv, Unread, Value, OnOutputReceived, portVars
<1>11. CASE OnSimulationFinished \/ OnQuit
  <2>1. worker # "blocked"
    BY <1>11, DeliverCall DEF TypeOk, StageInv, OnSimulationFinished, OnQuit
  <2>2. QED
    BY <1>11, <2>1
       DEF ReadInv, Unread, Value, ReadValue, OnSimulationFinished, OnQuit, portVars, files
<1>12. QED
  BY <1>1, <1>2, <1>3, <1>4, <1>5, <1>6, <1>7, <1>8, <1>9, <1>10, <1>11
     DEF Next, WorkerNext, MainNext

-----------------------------------------------------------------------------
(* The invariant.                                                           *)

LEMMA InitInv == Init => IInv
<1> SUFFICES ASSUME Init
             PROVE  IInv
  OBVIOUS
<1>1. PortInv
  BY EmptySeq DEF Init, PortInit, PortInv, PortTypeOk, ClearedChip, ChipState, Byte
<1>2. TypeOk
  BY <1>1, EmptySeq DEF Init, TypeOk, PortInv
<1>3. StageInv
  BY DEF Init, StageInv, Quiet, Announcements, Underway
<1>4. FileInv
  BY BatchAssumption DEF Init, FileInv, Underway, Reported
<1>5. ReadInv
  BY DEF Init, PortInit, ClearedChip, ReadInv
<1>6. QED
  BY <1>1, <1>2, <1>3, <1>4, <1>5 DEF IInv

LEMMA Inductive == IInv /\ [Next]_vars => IInv'
<1> SUFFICES ASSUME IInv, [Next]_vars
             PROVE  IInv'
  OBVIOUS
<1>1. TypeOk' /\ PortInv'
  BY TypeNext, PortNext DEF IInv
<1>2. CASE Next
  <2>1. StageInv' /\ FileInv'
    BY <1>2, WorkerStage, MainStage, WorkerFile, MainFile DEF IInv, Next
  <2>2. ReadInv'
    BY <1>2, ReadNext DEF IInv
  <2>3. QED
    BY <1>1, <2>1, <2>2 DEF IInv
<1>3. CASE UNCHANGED vars
  <2>1. StageInv'
    BY <1>3 DEF IInv, StageInv, Quiet, Announcements, vars, threads, runVars
  <2>2. FileInv'
    BY <1>3 DEF IInv, FileInv, HadErrorOnStep, Verdict, vars, threads, runVars, files
  <2>3. ReadInv'
    BY <1>3 DEF IInv, ReadInv, Unread, Value, ReadValue, vars, threads, portVars
  <2>4. QED
    BY <1>1, <2>1, <2>2, <2>3 DEF IInv
<1>4. QED
  BY <1>2, <1>3

THEOREM Invariant == Spec => []IInv
BY InitInv, Inductive, PTL DEF Spec

\* The variables of the two threads, of the port and of the files keep their
\* types: in particular, what the main thread files when a call is delivered
\* is a character that the blocked worker wrote.
THEOREM BatchTypes == Spec => []TypeOk
<1>1. IInv => TypeOk
  BY DEF IInv
<1>2. QED
  BY <1>1, Invariant, PTL

\* A worker that waits in a blocking signal waits for a main thread that is in
\* its loop, was not asked to leave it, and has that one call to deliver.
THEOREM WorkerIsServed == Spec => []NoCallIntoAStoppedLoop
<1>1. IInv => NoCallIntoAStoppedLoop
  BY LenProperties DEF IInv, TypeOk, StageInv, NoCallIntoAStoppedLoop, Posted
<1>2. QED
  BY <1>1, Invariant, PTL

\* At the exit the output file is what the program wrote and the verdict on
\* its run, although one thread writes the characters and another the verdict.
THEOREM OutputIsComplete == Spec => []FileTellsTheRun
<1>1. IInv => FileTellsTheRun
  BY DEF IInv, StageInv, FileInv, Reported, FileTellsTheRun
<1>2. QED
  BY <1>1, Invariant, PTL

\* The n-th read returns the n-th character of the input file and its line
\* feed, and the end-of-transmission character behind them.
THEOREM InputIsComplete == Spec => []InputIsReadInOrder
<1>1. IInv => InputIsReadInOrder
  BY LenProperties DEF IInv, TypeOk, ReadInv, Value, InputIsReadInOrder
<1>2. QED
  BY <1>1, Invariant, PTL

=============================================================================
