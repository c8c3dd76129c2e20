---------------------------- MODULE StackTracing ----------------------------
(***************************************************************************)
(* InterfaceISACPU's tracing of the run-time stack: what it makes of each  *)
(* instruction of the user program (calculateStackChangeEnd), next to what *)
(* the instruction does to the machine's stack.  Addresses are relative to *)
(* the stack pointer at the start.                                         *)
(*                                                                         *)
(* The program is one without trace tag warnings.  An instruction that     *)
(* moves the stack pointer has an operand, and a list of trace tags, which *)
(* is empty when the line has none.  Instructions of the operating system, *)
(* a trap and its return included, are not traced.  The heap trace is left *)
(* out.                                                                    *)
(***************************************************************************)
EXTENDS StackTrace

CONSTANTS
    TagLists,   \* the lists of tag sizes, in bytes, that lines carry
    Operands,   \* the operands of SUBSP and ADDSP
    MaxBytes,   \* bound: how far the stack grows
    MaxGroups   \* bound: allocations and calls outstanding

\* The sizes that the code adds up in 16 bits do not wrap.
ASSUME TracingAssumption ==
    /\ TagLists \subseteq Seq({1, 2})
    /\ \A tags \in TagLists : Total(tags) < 65536
    /\ Operands \subseteq Nat
    /\ \A operand \in Operands : operand < 65536
    /\ MaxBytes \in Nat /\ MaxBytes < 65536
    /\ MaxGroups \in Nat

VARIABLES
    trace,               \* memTrace->userStack
    stackIntact,         \* its stackIntact flag
    actions,             \* userActions: what the program is expected to undo
    firstLineAfterCall,
    undefined,           \* an empty QStack was popped
    sp,                  \* the machine's stack pointer
    cells,               \* the machine's stack: the tagged cells at or above sp
    groups,              \* history: what the program has outstanding
    tagged,              \* history: every SUBSP and ADDSP so far had trace tags
    disciplined          \* history: everything was undone in its order

traceVars == <<trace, stackIntact, actions, firstLineAfterCall, undefined>>
machineVars == <<sp, cells>>
history == <<groups, tagged, disciplined>>
vars == <<traceVars, machineVars, history>>

Action == {"call", "locals", "params"}
Cell == [addr : Int, bytes : {1, 2}, tag : {"retAddr", "symbol"}]
Trace == [callStack : Seq(Seq(Cell)), nextFrame : Seq(Cell)]

TypeOk ==
    /\ trace \in Trace
    /\ stackIntact \in BOOLEAN
    /\ actions \in Seq(Action)
    /\ firstLineAfterCall \in BOOLEAN
    /\ undefined \in BOOLEAN
    /\ sp \in Int
    /\ cells \subseteq Cell
    /\ groups \in Seq([kind : Action, bytes : Nat])
    /\ tagged \in BOOLEAN /\ disciplined \in BOOLEAN

\* InterfaceISACPU::reset
Init ==
    /\ trace = EmptyTrace
    /\ stackIntact = TRUE
    /\ actions = <<>>
    /\ firstLineAfterCall = FALSE
    /\ undefined = FALSE
    /\ sp = 0
    /\ cells = {}
    /\ groups = <<>>
    /\ tagged = TRUE
    /\ disciplined = TRUE

\* Nothing is traced any more once the stack is known not to be intact.
Tracing == stackIntact /\ ~undefined

\* A program is followed up to its first undisciplined instruction.
Followed == Tracing /\ tagged /\ disciplined

-----------------------------------------------------------------------------
(* The machine.                                                            *)

Grow(newCells, bytes, kind) ==
    /\ sp - bytes >= -MaxBytes
    /\ Len(groups) < MaxGroups
    /\ sp' = sp - bytes
    /\ cells' = cells \cup ToSet(newCells)
    /\ groups' = Append(groups, [kind |-> kind, bytes |-> bytes])

\* Cells below the new stack pointer are gone.  The program is disciplined if
\* it undoes the latest call or allocation, and all of it.
Shrink(bytes, kinds, matched) ==
    /\ sp' = sp + bytes
    /\ cells' = {c \in cells : c.addr >= sp'}
    /\ disciplined' = /\ disciplined
                      /\ matched
                      /\ groups # <<>>
                      /\ Last(groups).kind \in kinds
                      /\ Last(groups).bytes = bytes
    /\ groups' = IF groups # <<>> THEN Front(groups) ELSE groups

-----------------------------------------------------------------------------
(* The instructions.                                                       *)

CallInstr ==
    /\ Followed
    /\ trace' = Call(trace, sp - 2)
    /\ actions' = Append(actions, "call")
    /\ firstLineAfterCall' = TRUE
    /\ Grow(<<ReturnAddress(sp - 2)>>, 2, "call")
    /\ UNCHANGED <<stackIntact, undefined, tagged, disciplined>>

RetInstr ==
    /\ Followed
    /\ IF actions = <<>>
       THEN UNCHANGED <<trace, stackIntact, actions, firstLineAfterCall>>
       ELSE /\ actions' = Front(actions)
            /\ IF Last(actions) = "call"
               THEN /\ trace' = Ret(trace).trace
                    /\ stackIntact' = Ret(trace).ok
                    /\ firstLineAfterCall' = (firstLineAfterCall \/ Ret(trace).ok)
               ELSE /\ stackIntact' = FALSE
                    /\ UNCHANGED <<trace, firstLineAfterCall>>
    /\ Shrink(2, {"call"}, TRUE)
    /\ UNCHANGED <<undefined, tagged>>

SubSp(tags, operand) ==
    /\ Followed
    /\ LET kind == IF firstLineAfterCall THEN "locals" ELSE "params"
           new  == CellsBelow(sp, tags)
       IN  /\ IF tags # <<>> /\ Total(tags) # operand
              THEN /\ stackIntact' = FALSE
                   /\ UNCHANGED <<trace, actions>>
              ELSE /\ actions' = Append(actions, kind)
                   /\ trace' = IF tags = <<>> THEN trace
                               ELSE IF kind = "locals" THEN PushLocals(trace, new)
                               ELSE PushParams(trace, new)
                   /\ UNCHANGED stackIntact
           /\ Grow(new, operand, kind)
           /\ disciplined' = /\ disciplined
                             /\ tags # <<>> => Total(tags) = operand
                             /\ groups # <<>> => Last(groups).kind # "params"
    /\ tagged' = (tagged /\ tags # <<>>)
    /\ UNCHANGED <<firstLineAfterCall, undefined>>

\* One turn of ADDSP's loop over the frames that hold the parameters.
PopTurn(s) ==
    LET n == Bytes(TopOfStack(s.trace))
        popped == PopParams(s.trace, n)
    IN  IF s.size = 0 \/ ~s.success \/ s.undefined
        THEN s
        ELSE [trace |-> popped.trace,
              size |-> (s.size - n) % 65536,
              success |-> popped.ok,
              actions |-> IF s.actions = <<>> THEN <<>> ELSE Front(s.actions),
              undefined |-> s.actions = <<>>]

\* The loop takes a frame per turn and ends at the latest without frames.
PopFrames(t, acts, size) ==
    LET turns == Len(t.callStack) + 2
        after[n \in 0..turns] ==
            IF n = 0
            THEN [trace |-> t, size |-> size, success |-> TRUE,
                  actions |-> Append(acts, "params"), undefined |-> FALSE]
            ELSE PopTurn(after[n - 1])
    IN  after[turns]

\* ADDSP when `params` was taken from the action stack.  popAndOrphan may have
\* changed the trace by the time it fails and the next condition is tested.
AddSpParams(acts, size) ==
    LET orphaned == PopAndOrphan(trace, size)
        larger == Bytes(TopOfStack(trace)) > size
        t == IF larger THEN orphaned.trace ELSE trace
        all == PopFrames(t, acts, size)
    IN  IF larger /\ orphaned.ok
        THEN /\ trace' = t
             /\ actions' = Append(acts, "params")
             /\ UNCHANGED <<stackIntact, undefined>>
        ELSE IF Bytes(TopOfStack(t)) <= size
        THEN /\ trace' = all.trace
             /\ actions' = all.actions
             /\ undefined' = all.undefined
             /\ stackIntact' = all.success
        ELSE /\ trace' = t
             /\ actions' = acts
             /\ stackIntact' = FALSE
             /\ UNCHANGED undefined

\* Without tags the stack is no longer intact; if there is no action to undo
\* either, the code goes on to take one.
AddSp(tags, operand) ==
    /\ Followed
    /\ \/ /\ IF tags = <<>> THEN actions # <<>> ELSE Total(tags) # operand
          /\ stackIntact' = FALSE
          /\ UNCHANGED <<trace, actions, undefined>>
       \/ /\ tags = <<>> \/ Total(tags) = operand
          /\ actions = <<>>
          /\ undefined' = TRUE
          /\ stackIntact' = (tags # <<>>)
          /\ UNCHANGED <<trace, actions>>
       \/ /\ tags # <<>> /\ Total(tags) = operand
          /\ actions # <<>>
          /\ \/ /\ Last(actions) = "locals"
                /\ trace' = PopLocals(trace, operand).trace
                /\ stackIntact' = PopLocals(trace, operand).ok
                /\ actions' = Front(actions)
                /\ UNCHANGED undefined
             \/ /\ Last(actions) = "params"
                /\ AddSpParams(Front(actions), operand)
             \/ /\ Last(actions) = "call"
                /\ stackIntact' = FALSE
                /\ actions' = Front(actions)
                /\ UNCHANGED <<trace, undefined>>
    /\ Shrink(operand, {"locals", "params"}, tags # <<>> => Total(tags) = operand)
    /\ tagged' = (tagged /\ tags # <<>>)
    /\ UNCHANGED firstLineAfterCall

Branch ==
    /\ Followed
    /\ firstLineAfterCall' = TRUE
    /\ UNCHANGED <<trace, stackIntact, actions, undefined, machineVars, history>>

Other ==
    /\ Followed
    /\ firstLineAfterCall' = FALSE
    /\ UNCHANGED <<trace, stackIntact, actions, undefined, machineVars, history>>

\* The next simulation resets the CPU.
Reset ==
    /\ trace' = EmptyTrace
    /\ stackIntact' = TRUE
    /\ actions' = <<>>
    /\ firstLineAfterCall' = FALSE
    /\ undefined' = FALSE
    /\ sp' = 0 /\ cells' = {} /\ groups' = <<>>
    /\ tagged' = TRUE /\ disciplined' = TRUE

Next ==
    \/ CallInstr
    \/ RetInstr
    \/ \E tags \in TagLists, operand \in Operands : SubSp(tags, operand)
    \/ \E tags \in TagLists, operand \in Operands : AddSp(tags, operand)
    \/ Branch
    \/ Other
    \/ Reset

Spec == Init /\ [][Next]_vars

-----------------------------------------------------------------------------

TracedCells == ToSet(trace.nextFrame) \cup UNION {ToSet(trace.callStack[i]) : i \in DOMAIN trace.callStack}

\* A program that undoes its calls and allocations in their order, each with
\* one instruction, and allocates the parameters of a call with one, is never
\* reported to have corrupted its stack.
DisciplinedIsIntact == tagged /\ disciplined => Tracing

\* What the memory trace pane shows of such a program is what is on the
\* machine's stack, at its addresses.
DisciplinedTraceMatches == tagged /\ disciplined => TracedCells = cells

=============================================================================
