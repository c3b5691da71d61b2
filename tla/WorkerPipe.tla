----------------------------- MODULE WorkerPipe -----------------------------
(***************************************************************************)
(* A JSWorkerMessagePipe of quickjs-libc between two threads: the sender   *)
(* posts messages (js_worker_postMessage), the receiver waits in select    *)
(* for the read end of an operating system pipe and takes the messages     *)
(* out of a list (js_os_poll, handle_posted_message).  The list is         *)
(* protected by a mutex; the pipe holds one byte while the list is not     *)
(* empty, and select looks at it without the mutex.                        *)
(*                                                                         *)
(* The structure is reference counted: one reference for each thread and   *)
(* one for the receiver's onmessage handler.                               *)
(***************************************************************************)
EXTENDS Naturals, Sequences

CONSTANTS
    MaxMessages,   \* bound: messages posted
    MaxOther,      \* bound: timers and file events of the receiver's loop
    WriteMayFail   \* can write() return -1 ?

ASSUME BoundsAssumption == MaxMessages \in Nat /\ MaxOther \in Nat
ASSUME WriteAssumption == WriteMayFail \in BOOLEAN

VARIABLES
    queue,     \* ps->msg_queue
    bytes,     \* bytes in the operating system pipe
    mutex,     \* ps->mutex: the thread that holds it, or "none"
    ref,       \* ps->ref_count
    freed,     \* the structure has been freed
    spc,       \* where the sender is
    rpc,       \* where the receiver is
    handler,   \* the receiver has a port: worker->msg_handler
    posted,    \* history: number of the last message put in the list
    taken,     \* history: number of the last message taken out of it
    handled,   \* history: number of the last message given to the handler
    others     \* other events the receiver's loop has handled

vars == <<queue, bytes, mutex, ref, freed, spc, rpc, handler, posted, taken,
          handled, others>>

\* A message is known by its number.
Message == 1..MaxMessages

SenderStates == {"idle", "locked", "signalled", "gone"}
ReceiverStates == {"script", "poll", "lock", "locked", "read", "call",
                   "exit", "gone"}

-----------------------------------------------------------------------------
(***************************************************************************)
(* Reference counting.                                                     *)
(***************************************************************************)

\* js_free_message_pipe, called n times in a row: the last reference frees
\* the messages and closes both ends.
js_free_message_pipe(n) ==
    /\ ref' = ref - n
    /\ freed' = (ref = n)
    /\ queue' = IF ref = n THEN <<>> ELSE queue

js_dup_message_pipe == ref' = ref + 1 /\ UNCHANGED <<freed, queue>>

-----------------------------------------------------------------------------
(***************************************************************************)
(* The sender: js_worker_postMessage.                                      *)
(***************************************************************************)
PostLock ==
    /\ spc = "idle"
    /\ posted < MaxMessages
    /\ mutex = "none"
    /\ mutex' = "sender"
    /\ spc' = "locked"
    /\ UNCHANGED <<queue, bytes, ref, freed, rpc, handler, posted, taken,
                   handled, others>>

\* write(): one byte, or an error.
Write == bytes' \in {bytes + 1} \cup (IF WriteMayFail THEN {bytes} ELSE {})

\* Faulty variant of PostSignal: a byte for every message.
SignalAlways ==
    /\ spc = "locked"
    /\ Write
    /\ spc' = "signalled"
    /\ UNCHANGED <<queue, mutex, ref, freed, rpc, handler, posted, taken,
                   handled, others>>

\* Faulty variant of PostSignal: the test for an empty list is inverted.
SignalIfNotEmpty ==
    /\ spc = "locked"
    /\ IF queue # <<>> THEN Write ELSE UNCHANGED bytes
    /\ spc' = "signalled"
    /\ UNCHANGED <<queue, mutex, ref, freed, rpc, handler, posted, taken,
                   handled, others>>

\* Indicate that data is present.  After any error, EINTR and EAGAIN too,
\* the loop gives up: "errno != EAGAIN || errno != EINTR" is always true.
PostSignal ==
    /\ spc = "locked"
    /\ IF queue = <<>> THEN Write ELSE UNCHANGED bytes
    /\ spc' = "signalled"
    /\ UNCHANGED <<queue, mutex, ref, freed, rpc, handler, posted, taken,
                   handled, others>>

\* Faulty variant of PostUnlock: list_add instead of list_add_tail.
PostAtHead ==
    /\ spc = "signalled"
    /\ posted' = posted + 1
    /\ queue' = <<posted'>> \o queue
    /\ mutex' = "none"
    /\ spc' = "idle"
    /\ UNCHANGED <<bytes, ref, freed, rpc, handler, taken, handled, others>>

\* The message goes to the tail of the list.
PostUnlock ==
    /\ spc = "signalled"
    /\ posted' = posted + 1
    /\ queue' = Append(queue, posted')
    /\ mutex' = "none"
    /\ spc' = "idle"
    /\ UNCHANGED <<bytes, ref, freed, rpc, handler, taken, handled, others>>

\* js_worker_finalizer on the sender's Worker object, or the end of the
\* sender's thread.
SenderGoes ==
    /\ spc = "idle"
    /\ spc' = "gone"
    /\ js_free_message_pipe(1)
    /\ UNCHANGED <<bytes, mutex, rpc, handler, posted, taken, handled, others>>

-----------------------------------------------------------------------------
(***************************************************************************)
(* The receiver: js_std_loop, js_os_poll and handle_posted_message.        *)
(***************************************************************************)

\* Faulty variant of SetHandler: the port borrows the Worker's reference.
SetHandlerBorrowed ==
    /\ rpc = "script"
    /\ ~handler
    /\ handler' = TRUE
    /\ UNCHANGED <<queue, bytes, mutex, ref, freed, spc, rpc, posted, taken,
                   handled, others>>

\* JavaScript of the receiver sets onmessage (js_worker_set_onmessage).
SetHandler ==
    /\ rpc = "script"
    /\ ~handler
    /\ handler' = TRUE
    /\ js_dup_message_pipe
    /\ UNCHANGED <<bytes, mutex, spc, rpc, posted, taken, handled, others>>

\* onmessage = null: js_free_port.
ClearHandler ==
    /\ rpc = "script"
    /\ handler
    /\ handler' = FALSE
    /\ js_free_message_pipe(1)
    /\ UNCHANGED <<bytes, mutex, spc, rpc, posted, taken, handled, others>>

ScriptReturns ==
    /\ rpc = "script"
    /\ rpc' = "poll"
    /\ UNCHANGED <<queue, bytes, mutex, ref, freed, spc, handler, posted,
                   taken, handled, others>>

\* js_os_poll: select reports the read end, and no timer or file handler
\* comes first.
PollMessage ==
    /\ rpc = "poll"
    /\ handler
    /\ bytes > 0
    /\ rpc' = "lock"
    /\ UNCHANGED <<queue, bytes, mutex, ref, freed, spc, handler, posted,
                   taken, handled, others>>

\* js_os_poll: a timer or a file handler runs instead.
PollOther ==
    /\ rpc = "poll"
    /\ others < MaxOther
    /\ others' = others + 1
    /\ rpc' = "script"
    /\ UNCHANGED <<queue, bytes, mutex, ref, freed, spc, handler, posted,
                   taken, handled>>

\* js_os_poll: no port, no timer and no file handler: js_std_loop ends.
PollNothing ==
    /\ rpc = "poll"
    /\ ~handler
    /\ rpc' = "exit"
    /\ UNCHANGED <<queue, bytes, mutex, ref, freed, spc, handler, posted,
                   taken, handled, others>>

TakeLock ==
    /\ rpc = "lock"
    /\ mutex = "none"
    /\ mutex' = "receiver"
    /\ rpc' = "locked"
    /\ UNCHANGED <<queue, bytes, ref, freed, spc, handler, posted, taken,
                   handled, others>>

\* The first message leaves the list; with the last one the byte must be
\* read, still under the mutex.  An empty list would only be unlocked.
Take ==
    /\ rpc = "locked"
    /\ taken' = IF queue = <<>> THEN taken ELSE Head(queue)
    /\ queue' = IF queue = <<>> THEN <<>> ELSE Tail(queue)
    /\ rpc' = IF queue = <<>> THEN "poll"
              ELSE IF Tail(queue) = <<>> THEN "read" ELSE "call"
    /\ mutex' = IF rpc' = "read" THEN mutex ELSE "none"
    /\ UNCHANGED <<bytes, ref, freed, spc, handler, posted, handled, others>>

\* read() of up to 16 bytes; it would block if there were none.
ReadByte ==
    /\ rpc = "read"
    /\ bytes > 0
    /\ bytes' = IF bytes > 16 THEN bytes - 16 ELSE 0
    /\ mutex' = "none"
    /\ rpc' = "call"
    /\ UNCHANGED <<queue, ref, freed, spc, handler, posted, taken, handled,
                   others>>

\* The message is decoded and given to the handler, which runs next.
Call ==
    /\ rpc = "call"
    /\ handled' = taken
    /\ rpc' = "script"
    /\ UNCHANGED <<queue, bytes, mutex, ref, freed, spc, handler, posted,
                   taken, others>>

\* The end of worker_func: js_std_free_handlers.
ReceiverGoes ==
    /\ rpc = "exit"
    /\ rpc' = "gone"
    /\ js_free_message_pipe(1)
    /\ UNCHANGED <<bytes, mutex, spc, handler, posted, taken, handled, others>>

\* js_worker_finalizer on the receiver's Worker object, when it is collected:
\* the pipe's reference and the port's.
WorkerCollected ==
    /\ rpc = "script"
    /\ rpc' = "gone"
    /\ js_free_message_pipe(IF handler THEN 2 ELSE 1)
    /\ handler' = FALSE
    /\ UNCHANGED <<bytes, mutex, spc, posted, taken, handled, others>>

-----------------------------------------------------------------------------
\* js_new_message_pipe and js_dup_message_pipe in js_worker_ctor: a reference
\* for each side.
Init ==
    /\ queue = <<>>
    /\ bytes = 0
    /\ mutex = "none"
    /\ ref = 2
    /\ freed = FALSE
    /\ spc = "idle"
    /\ rpc = "script"
    /\ handler = FALSE
    /\ posted = 0
    /\ taken = 0
    /\ handled = 0
    /\ others = 0

SenderNext ==
    \/ PostLock
    \/ PostSignal
    \/ PostUnlock
    \/ SenderGoes

ReceiverNext ==
    \/ SetHandler
    \/ ClearHandler
    \/ ScriptReturns
    \/ PollMessage
    \/ PollOther
    \/ PollNothing
    \/ TakeLock
    \/ Take
    \/ ReadByte
    \/ Call
    \/ ReceiverGoes
    \/ WorkerCollected

Next == SenderNext \/ ReceiverNext

Spec == Init /\ [][Next]_vars

(***************************************************************************)
(* A thread that holds the mutex goes on; scripts return; the receiver's   *)
(* loop goes on.  Nothing obliges the sender to post.  Weak fairness of    *)
(* TakeLock is enough because a sender that posts for ever is beyond the   *)
(* bound: no fairness of the mutex itself is assumed.                      *)
(***************************************************************************)
Fairness ==
    /\ WF_vars(PostSignal \/ PostUnlock)
    /\ WF_vars(ScriptReturns)
    /\ WF_vars(PollMessage \/ PollNothing \/ TakeLock \/ Take \/ ReadByte
               \/ Call \/ ReceiverGoes)

FairSpec == Spec /\ Fairness

-----------------------------------------------------------------------------
(***************************************************************************)
(* Properties.                                                             *)
(***************************************************************************)

\* Type invariant of the pipe and of the two threads.
TypeOK ==
    /\ queue \in Seq(Message)
    /\ bytes \in Nat
    /\ mutex \in {"none", "sender", "receiver"}
    /\ ref \in 0..3
    /\ freed \in BOOLEAN
    /\ spc \in SenderStates
    /\ rpc \in ReceiverStates
    /\ handler \in BOOLEAN
    /\ posted \in 0..MaxMessages
    /\ taken \in 0..MaxMessages
    /\ handled \in 0..MaxMessages
    /\ others \in 0..MaxOther

\* Outside the critical sections the pipe holds a byte exactly while there
\* are messages: select neither misses a message nor wakes for nothing.
ByteIndicatesData ==
    mutex = "none" /\ ~freed => bytes = (IF queue = <<>> THEN 0 ELSE 1)

\* The structure is freed when, and only when, both threads and the handler
\* have given it up: never under a thread that may still use it.
FreedWhenUnowned == freed <=> spc = "gone" /\ rpc = "gone" /\ ~handler

\* Between the list and the handler a message is in the receiver's hands.
InHand == IF rpc \in {"read", "call"} THEN <<taken>> ELSE <<>>

\* The pipe implements a first-in first-out channel, closed when the last
\* reference goes.
Chan == INSTANCE Channel WITH chan <- InHand \o queue, closed <- freed
ChannelSpec == Chan!Spec

\* A message that was posted is handled, unless the receiver has no handler.
MessagesHandled ==
    \A i \in 1..MaxMessages : posted >= i ~> handled >= i \/ ~handler

=============================================================================
