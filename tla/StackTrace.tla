----------------------------- MODULE StackTrace -----------------------------
(***************************************************************************)
(* StackTrace and StackFrame: the memory trace pane's picture of the run-  *)
(* time stack.  A trace is a call stack of frames and the frame that the   *)
(* next call will take over, into which its parameters are pushed.  A      *)
(* frame is a stack of cells; the isOrphaned flag of a frame, which only   *)
(* colours it, is left out.                                                *)
(*                                                                         *)
(* An operation that can fail returns the trace it leaves and whether the  *)
(* C++ function returned true.                                             *)
(***************************************************************************)
EXTENDS Integers, Sequences, SequencesExt

\* The sum of a sequence of numbers.
Total(numbers) ==
    LET sum[k \in 0..Len(numbers)] == IF k = 0 THEN 0 ELSE sum[k - 1] + numbers[k]
    IN  sum[Len(numbers)]

\* StackFrame::size
Bytes(frame) == Total([i \in DOMAIN frame |-> frame[i].bytes])

TopCells(frame, k) == SubSeq(frame, Len(frame) - k + 1, Len(frame))

\* How many cells StackFrame::pop takes: as few as hold `size` bytes, or all.
CellsToPop(frame, size) ==
    LET enough == {k \in 0..Len(frame) : Bytes(TopCells(frame, k)) >= size}
    IN  IF enough = {} THEN Len(frame) ELSE CHOOSE k \in enough : \A j \in enough : k <= j

FramePop(frame, size) ==
    LET k == CellsToPop(frame, size)
    IN  [frame |-> SubSeq(frame, 1, Len(frame) - k),
         ok |-> Bytes(TopCells(frame, k)) = size]

\* StackTrace::clear
EmptyTrace == [callStack |-> <<>>, nextFrame |-> <<>>]

ReturnAddress(sp) == [addr |-> sp, bytes |-> 2, tag |-> "retAddr"]

\* The cells of a list of tags, laid out downwards from `start`.
CellsBelow(start, tags) ==
    [i \in 1..Len(tags) |->
        [addr |-> start - Total(SubSeq(tags, 1, i)),
         bytes |-> tags[i], tag |-> "symbol"]]

\* Mutant: the return address is not pushed.
CallWithoutAddress(t, sp) ==
    [callStack |-> Append(t.callStack, t.nextFrame), nextFrame |-> <<>>]

Call(t, sp) ==
    [callStack |-> Append(t.callStack, Append(t.nextFrame, ReturnAddress(sp))),
     nextFrame |-> <<>>]

\* Mutant: the frame of the caller's parameters is dropped with the call.
RetDropsFrame(t) ==
    IF t.callStack = <<>>
    THEN [trace |-> t, ok |-> FALSE]
    ELSE [trace |-> [callStack |-> Front(t.callStack), nextFrame |-> <<>>],
          ok |-> FramePop(Last(t.callStack), 2).ok]

Ret(t) ==
    IF t.callStack = <<>>
    THEN [trace |-> t, ok |-> FALSE]
    ELSE LET popped == FramePop(Last(t.callStack), 2)
         IN  [trace |-> [callStack |-> Front(t.callStack), nextFrame |-> popped.frame],
              ok |-> popped.ok]

PushParams(t, cells) == [t EXCEPT !.nextFrame = @ \o cells]

PushLocals(t, cells) ==
    IF t.callStack = <<>>
    THEN [t EXCEPT !.callStack = <<cells>>]
    ELSE [t EXCEPT !.callStack[Len(t.callStack)] = @ \o cells]

PopLocals(t, size) ==
    IF t.callStack = <<>>
    THEN [trace |-> t, ok |-> FALSE]
    ELSE LET popped == FramePop(Last(t.callStack), size)
         IN  [trace |-> [t EXCEPT !.callStack[Len(t.callStack)] = popped.frame],
              ok |-> popped.ok]

\* getTOS
TopOfStack(t) ==
    IF Bytes(t.nextFrame) = 0 /\ t.callStack # <<>> THEN Last(t.callStack) ELSE t.nextFrame

\* popParams for a size that the top frame holds, as its only caller sees to.
\* While the next frame has no contents the top of the call stack takes its
\* place; the call fails when there is nothing left to take.
PopParams(t, size) ==
    LET filled == {i \in 1..Len(t.callStack) : Bytes(t.callStack[i]) > 0}
        depth  == CHOOSE i \in filled : \A j \in filled : j <= i
        popped == FramePop(t.callStack[depth], size)
        next   == FramePop(t.nextFrame, size)
    IN  IF Bytes(t.nextFrame) > 0
        THEN [trace |-> [t EXCEPT !.nextFrame = next.frame], ok |-> next.ok]
        ELSE IF filled = {}
        THEN [trace |-> EmptyTrace, ok |-> FALSE]
        ELSE [trace |-> [callStack |-> SubSeq(t.callStack, 1, depth - 1),
                         nextFrame |-> popped.frame],
              ok |-> popped.ok]

PopAndOrphan(t, size) ==
    IF size >= Bytes(t.nextFrame)
    THEN [trace |-> t, ok |-> FALSE]
    ELSE PopLocals([callStack |-> Append(t.callStack, t.nextFrame), nextFrame |-> <<>>], size)

=============================================================================
