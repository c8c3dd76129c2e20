---------------------------- MODULE InputStream ----------------------------
(***************************************************************************)
(* What the input port promises the program that reads it: a stream of     *)
(* items, opened with a session, supplied only while a reader waits on an  *)
(* empty stream, read in order, and gone when the session closes.          *)
(***************************************************************************)
EXTENDS Sequences

CONSTANT Item

VARIABLES
    open,      \* a session is running
    unread,    \* items supplied and not yet returned, oldest first
    reading,   \* a read is in progress
    log        \* items returned in this session, oldest first

vars == <<open, unread, reading, log>>

Init ==
    /\ open = FALSE
    /\ unread = <<>>
    /\ reading = FALSE
    /\ log = <<>>

Open ==
    /\ ~open
    /\ ~reading
    /\ unread = <<>>
    /\ open' = TRUE
    /\ unread' \in Seq(Item)
    /\ log' = <<>>
    /\ UNCHANGED reading

BeginRead ==
    /\ open
    /\ ~reading
    /\ reading' = TRUE
    /\ UNCHANGED <<open, unread, log>>

Supply ==
    /\ open
    /\ reading
    /\ unread = <<>>
    /\ unread' \in Seq(Item) \ {<<>>}
    /\ UNCHANGED <<open, reading, log>>

ReturnItem ==
    /\ reading
    /\ unread # <<>>
    /\ log' = Append(log, Head(unread))
    /\ unread' = Tail(unread)
    /\ reading' = FALSE
    /\ UNCHANGED open

\* Nothing is unread: the read returns a byte that is no item, or fails.
ReturnNothing ==
    /\ reading
    /\ unread = <<>>
    /\ reading' = FALSE
    /\ UNCHANGED <<open, unread, log>>

\* Unread items are discarded, except the one a read is about to return.
Close ==
    /\ open
    /\ open' = FALSE
    /\ \/ unread' = <<>>
       \/ reading /\ unread # <<>> /\ unread' = <<Head(unread)>>
    /\ UNCHANGED <<reading, log>>

Next == Open \/ BeginRead \/ Supply \/ ReturnItem \/ ReturnNothing \/ Close

Spec == Init /\ [][Next]_vars

=============================================================================
