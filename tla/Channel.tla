------------------------------ MODULE Channel ------------------------------
(***************************************************************************)
(* What a JSWorkerMessagePipe promises to its two threads: messages        *)
(* numbered 1, 2, 3... are handed to the receiver's handler in the order   *)
(* in which they were posted, none twice and none left out.  The channel   *)
(* is closed once, discarding what is still in it, and unused afterwards.  *)
(***************************************************************************)
EXTENDS Naturals, Sequences

VARIABLES
    chan,     \* messages posted and not handled yet
    posted,   \* number of the last message posted
    handled,  \* number of the last message handled
    closed    \* the channel has been closed

vars == <<chan, posted, handled, closed>>

Init == chan = <<>> /\ posted = 0 /\ handled = 0 /\ closed = FALSE

Post ==
    /\ ~closed
    /\ posted' = posted + 1
    /\ chan' = Append(chan, posted')
    /\ UNCHANGED <<handled, closed>>

Handle ==
    /\ ~closed
    /\ chan # <<>>
    /\ handled' = Head(chan)
    /\ chan' = Tail(chan)
    /\ UNCHANGED <<posted, closed>>

Close ==
    /\ ~closed
    /\ closed' = TRUE
    /\ chan' = <<>>
    /\ UNCHANGED <<posted, handled>>

Next == Post \/ Handle \/ Close

Spec == Init /\ [][Next]_vars

=============================================================================
