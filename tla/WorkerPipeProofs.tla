-------------------------- MODULE WorkerPipeProofs --------------------------
(***************************************************************************)
(* Proofs about WorkerPipe, for every number of messages.                  *)
(***************************************************************************)
EXTENDS WorkerPipe, TLAPS

\* A sender in its critical section has a message to post.
PostInv == spc \in {"locked", "signalled"} => posted < MaxMessages

\* The mutex is held by the thread that is in its critical section.
MutexInv ==
    /\ mutex = "sender" <=> spc \in {"locked", "signalled"}
    /\ mutex = "receiver" <=> rpc \in {"locked", "read"}

\* The reference count is that of the owners, and the structure goes with the
\* last of them.
Count(owned) == IF owned THEN 1 ELSE 0

Owners == Count(spc # "gone") + Count(rpc # "gone") + Count(handler)

RefInv ==
    /\ ref = Owners
    /\ freed <=> ref = 0
    /\ rpc \in {"exit", "gone"} => ~handler

\* What the receiver has in hand is a message; it reads the byte when that
\* was the last one.
HandInv ==
    /\ rpc \in {"read", "call"} => taken \in Message
    /\ rpc = "read" => queue = <<>>

\* The byte in each of the states of the two threads.  Between the select
\* and the lock the sender may run, but only the receiver takes messages out.
ByteInv ==
    /\ rpc \in {"lock", "locked", "read"} => bytes = 1
    /\ spc = "signalled" => bytes = 1
    /\ ~freed /\ rpc # "read" /\ spc # "signalled"
          => bytes = (IF queue = <<>> THEN 0 ELSE 1)

Inv == TypeOK /\ PostInv /\ MutexInv /\ RefInv /\ HandInv

-----------------------------------------------------------------------------
(***************************************************************************)
(* Types, the mutex and the reference count.                               *)
(***************************************************************************)

\* Lists of messages: the empty one, one message more, one message less.
LEMMA EmptyList == <<>> \in Seq(Message)
OBVIOUS

LEMMA ListType ==
    ASSUME TypeOK, queue # <<>>
    PROVE  Head(queue) \in Message /\ Tail(queue) \in Seq(Message)
BY DEF TypeOK

\* What js_free_message_pipe does to the count and to the list.
LEMMA FreeType ==
    ASSUME TypeOK, NEW n \in 1..2, n <= ref, js_free_message_pipe(n)
    PROVE  /\ ref' \in 0..3
           /\ freed' \in BOOLEAN
           /\ freed' <=> ref' = 0
           /\ queue' \in Seq(Message)
           /\ queue' = <<>> \/ queue' = queue
           /\ freed' => queue' = <<>>
           /\ ~freed' => queue' = queue
<1>1. ref' \in 0..3 /\ (ref = n <=> ref' = 0)
  BY DEF TypeOK, js_free_message_pipe
<1>2. freed' \in BOOLEAN /\ (freed' <=> ref = n)
  BY DEF js_free_message_pipe
<1>3. /\ queue' = <<>> \/ queue' = queue
      /\ freed' => queue' = <<>>
      /\ ~freed' => queue' = queue
  BY <1>2 DEF js_free_message_pipe
<1>4. queue' \in Seq(Message)
  BY <1>3, EmptyList DEF TypeOK
<1>5. QED
  BY <1>1, <1>2, <1>3, <1>4

LEMMA InitInv ==
    ASSUME Init
    PROVE  Inv
<1>1. TypeOK
  <2>1. queue \in Seq(Message)
    BY EmptyList DEF Init
  <2>2. /\ posted \in 0..MaxMessages
        /\ taken \in 0..MaxMessages
        /\ handled \in 0..MaxMessages
        /\ others \in 0..MaxOther
    BY BoundsAssumption DEF Init
  <2>3. freed \in BOOLEAN /\ handler \in BOOLEAN
    BY Zenon DEF Init
  <2>4. bytes \in Nat /\ ref \in 0..3
    BY DEF Init
  <2>5. /\ mutex \in {"none", "sender", "receiver"}
        /\ spc \in SenderStates
        /\ rpc \in ReceiverStates
    BY DEF Init, SenderStates, ReceiverStates
  <2>6. QED
    BY <2>1, <2>2, <2>3, <2>4, <2>5 DEF TypeOK
<1>2. RefInv
  BY DEF Init, RefInv, Owners, Count
<1>3. PostInv /\ MutexInv /\ HandInv
  BY DEF Init, PostInv, MutexInv, HandInv
<1>4. QED
  BY <1>1, <1>2, <1>3 DEF Inv

\* Each step of the sender preserves the invariant.
LEMMA SenderInv ==
    ASSUME Inv, SenderNext
    PROVE  Inv'
<1> USE BoundsAssumption
<1>1. CASE PostLock
  BY <1>1 DEF PostLock, Inv, TypeOK, PostInv, MutexInv, RefInv, HandInv,
              Owners, Count, SenderStates
<1>2. CASE PostSignal
  <2>1. bytes' \in Nat
    BY <1>2 DEF PostSignal, Write, Inv, TypeOK
  <2>2. QED
    BY <1>2, <2>1 DEF PostSignal, Inv, TypeOK, PostInv, MutexInv, RefInv,
                      HandInv, Owners, Count, SenderStates
<1>3. CASE PostUnlock
  <2>1. posted' \in Message /\ posted' \in 0..MaxMessages
    BY <1>3 DEF PostUnlock, Inv, TypeOK, PostInv, Message
  <2>2. queue' \in Seq(Message)
    BY <1>3, <2>1 DEF PostUnlock, Inv, TypeOK
  <2>3. rpc # "read"
    BY <1>3 DEF PostUnlock, Inv, MutexInv
  <2>4. QED
    BY <1>3, <2>1, <2>2, <2>3
       DEF PostUnlock, Inv, TypeOK, PostInv, MutexInv, RefInv, HandInv, Owners,
           Count, SenderStates
<1>4. CASE SenderGoes
  <2>1. ref >= 1
    BY <1>4 DEF SenderGoes, Inv, RefInv, Owners, Count
  <2>2. /\ ref' \in 0..3
        /\ freed' \in BOOLEAN
        /\ freed' <=> ref' = 0
        /\ queue' \in Seq(Message)
        /\ queue' = <<>> \/ queue' = queue
    BY <1>4, <2>1, FreeType DEF SenderGoes, Inv
  <2>3. TypeOK'
    BY <1>4, <2>2 DEF SenderGoes, Inv, TypeOK, SenderStates
  <2>4. ref' = Owners'
    BY <1>4 DEF SenderGoes, js_free_message_pipe, Inv, RefInv, Owners, Count
  <2>5. RefInv'
    BY <1>4, <2>2, <2>4 DEF SenderGoes, Inv, RefInv
  <2>6. (PostInv /\ MutexInv /\ HandInv)'
    BY <1>4, <2>2 DEF SenderGoes, Inv, PostInv, MutexInv, HandInv
  <2>7. QED
    BY <2>3, <2>5, <2>6 DEF Inv
<1>5. QED
  BY <1>1, <1>2, <1>3, <1>4 DEF SenderNext

\* Each step of the receiver preserves the invariant.
LEMMA ReceiverInv ==
    ASSUME Inv, ReceiverNext
    PROVE  Inv'
<1> USE BoundsAssumption
<1>1. CASE SetHandler
  <2>1. /\ ref' \in 0..3
        /\ ref' = Owners'
        /\ ref' # 0
        /\ ~freed
    BY <1>1 DEF SetHandler, js_dup_message_pipe, Inv, TypeOK, RefInv, Owners,
                Count
  <2>2. UNCHANGED <<queue, freed, bytes, mutex, spc, rpc, posted, taken,
                    handled, others>> /\ handler' = TRUE
    BY <1>1 DEF SetHandler, js_dup_message_pipe
  <2>3. TypeOK'
    BY <2>1, <2>2 DEF Inv, TypeOK
  <2>4. RefInv'
    BY <1>1, <2>1, <2>2 DEF SetHandler, RefInv
  <2>5. (PostInv /\ MutexInv /\ HandInv)'
    BY <2>2 DEF Inv, PostInv, MutexInv, HandInv
  <2>6. QED
    BY <2>3, <2>4, <2>5 DEF Inv
<1>2. CASE ClearHandler \/ ReceiverGoes \/ WorkerCollected
  <2>1. PICK n \in 1..2 : /\ js_free_message_pipe(n)
                          /\ n <= ref
                          /\ ref' = Owners'
    <3>1. CASE ClearHandler \/ ReceiverGoes
      BY <3>1 DEF ClearHandler, ReceiverGoes, js_free_message_pipe, Inv,
                  TypeOK, RefInv, Owners, Count
    <3>2. CASE WorkerCollected
      BY <3>2 DEF WorkerCollected, js_free_message_pipe, Inv, TypeOK, RefInv,
                  Owners, Count
    <3>3. QED
      BY <1>2, <3>1, <3>2
  <2>2. /\ ref' \in 0..3
        /\ freed' \in BOOLEAN
        /\ freed' <=> ref' = 0
        /\ queue' \in Seq(Message)
        /\ queue' = <<>> \/ queue' = queue
    BY <2>1, FreeType DEF Inv
  <2>3. /\ UNCHANGED <<bytes, mutex, spc, posted, taken, handled, others>>
        /\ rpc \in {"script", "exit"}
        /\ rpc' \in {"script", "gone"}
        /\ handler' = FALSE
    BY <1>2 DEF ClearHandler, ReceiverGoes, WorkerCollected, Inv, TypeOK,
                RefInv
  <2>4. TypeOK'
    BY <2>2, <2>3 DEF Inv, TypeOK, ReceiverStates
  <2>5. RefInv'
    BY <2>1, <2>2, <2>3 DEF RefInv
  <2>6. (PostInv /\ MutexInv /\ HandInv)'
    BY <2>2, <2>3 DEF Inv, PostInv, MutexInv, HandInv
  <2>7. QED
    BY <2>4, <2>5, <2>6 DEF Inv
<1>3. CASE ScriptReturns \/ PollMessage \/ PollOther \/ PollNothing
  BY <1>3 DEF ScriptReturns, PollMessage, PollOther, PollNothing, Inv, TypeOK,
              PostInv, MutexInv, RefInv, HandInv, Owners, Count,
              ReceiverStates
<1>4. CASE TakeLock
  BY <1>4 DEF TakeLock, Inv, TypeOK, PostInv, MutexInv, RefInv, HandInv,
              Owners, Count, ReceiverStates
<1>5. CASE Take
  <2>1. /\ taken' \in 0..MaxMessages
        /\ queue' \in Seq(Message)
    <3>1. CASE queue = <<>>
      BY <1>5, <3>1, EmptyList DEF Take, Inv, TypeOK
    <3>2. CASE queue # <<>>
      <4>1. Head(queue) \in Message /\ Tail(queue) \in Seq(Message)
        BY <3>2, ListType DEF Inv
      <4>2. Head(queue) \in 0..MaxMessages
        BY <4>1 DEF Message
      <4>3. QED
        BY <1>5, <3>2, <4>1, <4>2 DEF Take
    <3>3. QED
      BY <3>1, <3>2
  <2>2. rpc' \in {"poll", "read", "call"}
    BY <1>5 DEF Take
  <2>3. mutex' = IF rpc' = "read" THEN "receiver" ELSE "none"
    BY <1>5 DEF Take, Inv, MutexInv
  <2>4. HandInv'
    BY <1>5, ListType DEF Take, Inv, HandInv
  <2>5. spc \notin {"locked", "signalled"}
    BY <1>5 DEF Take, Inv, MutexInv
  <2>6. UNCHANGED <<bytes, ref, freed, spc, handler, posted, handled, others>>
    BY <1>5 DEF Take
  <2>7. TypeOK'
    BY <2>1, <2>2, <2>3, <2>6 DEF Inv, TypeOK, ReceiverStates
  <2>8. RefInv'
    BY <1>5, <2>2, <2>6 DEF Take, Inv, RefInv, Owners, Count
  <2>9. (PostInv /\ MutexInv)'
    BY <2>2, <2>3, <2>5, <2>6 DEF Inv, PostInv, MutexInv
  <2>10. QED
    BY <2>4, <2>7, <2>8, <2>9 DEF Inv
<1>6. CASE ReadByte
  <2>1. bytes' \in Nat
    BY <1>6 DEF ReadByte, Inv, TypeOK
  <2>2. QED
    BY <1>6, <2>1 DEF ReadByte, Inv, TypeOK, PostInv, MutexInv, RefInv,
                      HandInv, Owners, Count, ReceiverStates
<1>7. CASE Call
  BY <1>7 DEF Call, Inv, TypeOK, PostInv, MutexInv, RefInv, HandInv, Owners,
              Count, ReceiverStates
<1>8. QED
  BY <1>1, <1>2, <1>3, <1>4, <1>5, <1>6, <1>7 DEF ReceiverNext

\* The inductive invariant of the pipe.
THEOREM PipeInv == Spec => []Inv
<1>1. Init => Inv
  BY InitInv
<1>2. Inv /\ [Next]_vars => Inv'
  <2>1. CASE UNCHANGED vars
    BY <2>1 DEF vars, Inv, TypeOK, PostInv, MutexInv, RefInv, HandInv, Owners,
                Count
  <2>2. CASE Next
    BY <2>2, SenderInv, ReceiverInv DEF Next
  <2>3. QED
    BY <2>1, <2>2
<1>3. QED
  BY <1>1, <1>2, PTL DEF Spec

\* Spec implies the type invariant.
THEOREM TypeCorrect == Spec => []TypeOK
BY PipeInv, PTL DEF Inv

\* The structure is freed when both threads and the handler have given it up,
\* and not before: no thread uses a freed pipe.
THEOREM NeverFreedInUse == Spec => []FreedWhenUnowned
<1>1. Inv => FreedWhenUnowned
  BY DEF Inv, TypeOK, RefInv, Owners, Count, FreedWhenUnowned
<1>2. QED
  BY <1>1, PipeInv, PTL

-----------------------------------------------------------------------------
(***************************************************************************)
(* The byte in the operating system pipe, when write() does not fail.      *)
(***************************************************************************)

\* A pipe with an owner has not been freed.
LEMMA OwnedNotFreed ==
    ASSUME Inv, spc # "gone" \/ rpc # "gone"
    PROVE  ~freed
BY DEF Inv, TypeOK, RefInv, Owners, Count

\* Each step preserves ByteInv.
LEMMA ByteStep ==
    ASSUME ~WriteMayFail, Inv, ByteInv, [Next]_vars
    PROVE  ByteInv'
<1>1. CASE UNCHANGED vars
  BY <1>1 DEF vars, ByteInv
<1>2. CASE PostLock
  BY <1>2 DEF PostLock, ByteInv
<1>3. CASE PostSignal
  <2>1. ~freed /\ rpc # "read" /\ spc # "signalled"
    BY <1>3, OwnedNotFreed DEF PostSignal, Inv, MutexInv
  <2>2. bytes = IF queue = <<>> THEN 0 ELSE 1
    BY <2>1 DEF ByteInv
  <2>3. bytes' = 1
    BY <1>3, <2>2 DEF PostSignal, Write
  <2>4. QED
    BY <1>3, <2>3 DEF PostSignal, ByteInv
<1>4. CASE PostUnlock
  <2>1. queue' # <<>>
    BY <1>4 DEF PostUnlock, Inv, TypeOK
  <2>2. bytes' = 1
    BY <1>4 DEF PostUnlock, ByteInv
  <2>3. QED
    BY <1>4, <2>1, <2>2 DEF PostUnlock, ByteInv
<1>5. CASE SenderGoes
  <2>1. ref >= 1
    BY <1>5 DEF SenderGoes, Inv, RefInv, Owners, Count
  <2>2. ~freed' => queue' = queue
    BY <1>5, <2>1, FreeType DEF SenderGoes, Inv
  <2>3. ~freed
    BY <1>5, OwnedNotFreed DEF SenderGoes
  <2>4. QED
    BY <1>5, <2>2, <2>3 DEF SenderGoes, ByteInv
<1>6. CASE SetHandler
  BY <1>6 DEF SetHandler, js_dup_message_pipe, ByteInv
<1>7. CASE ClearHandler \/ ReceiverGoes \/ WorkerCollected
  <2>1. rpc \in {"script", "exit"} /\ rpc' \in {"script", "gone"}
    BY <1>7 DEF ClearHandler, ReceiverGoes, WorkerCollected
  <2>2. PICK n \in 1..2 : js_free_message_pipe(n)
    BY <1>7 DEF ClearHandler, ReceiverGoes, WorkerCollected
  <2>3. ~freed /\ (~freed' => queue' = queue)
    BY <2>1, <2>2, OwnedNotFreed DEF js_free_message_pipe
  <2>4. UNCHANGED <<bytes, spc>>
    BY <1>7 DEF ClearHandler, ReceiverGoes, WorkerCollected
  <2>5. QED
    BY <2>1, <2>3, <2>4 DEF ByteInv
<1>8. CASE ScriptReturns \/ PollOther \/ PollNothing
  BY <1>8 DEF ScriptReturns, PollOther, PollNothing, ByteInv
<1>9. CASE PollMessage
  <2>1. ~freed
    BY <1>9, OwnedNotFreed DEF PollMessage
  <2>2. bytes = 1
    BY <1>9, <2>1 DEF PollMessage, ByteInv
  <2>3. QED
    BY <1>9, <2>2 DEF PollMessage, ByteInv
<1>10. CASE TakeLock
  BY <1>10 DEF TakeLock, ByteInv
<1>11. CASE Take
  <2>1. ~freed /\ spc # "signalled"
    BY <1>11, OwnedNotFreed DEF Take, Inv, MutexInv
  <2>2. bytes = 1 /\ queue # <<>>
    BY <1>11, <2>1 DEF Take, ByteInv
  <2>3. /\ queue' = Tail(queue)
        /\ rpc' = IF Tail(queue) = <<>> THEN "read" ELSE "call"
        /\ UNCHANGED <<bytes, freed, spc>>
    BY <1>11, <2>2 DEF Take
  <2>4. QED
    BY <2>1, <2>2, <2>3 DEF ByteInv
<1>12. CASE ReadByte
  <2>1. queue = <<>> /\ spc # "signalled" /\ bytes = 1
    BY <1>12 DEF ReadByte, Inv, MutexInv, HandInv, ByteInv
  <2>2. QED
    BY <1>12, <2>1 DEF ReadByte, ByteInv
<1>13. CASE Call
  BY <1>13 DEF Call, ByteInv
<1>14. QED
  BY <1>1, <1>2, <1>3, <1>4, <1>5, <1>6, <1>7, <1>8, <1>9, <1>10, <1>11,
     <1>12, <1>13 DEF Next, SenderNext, ReceiverNext

\* The invariant that says where the byte is.
LEMMA ByteAlways ==
    ASSUME ~WriteMayFail
    PROVE  Spec => []ByteInv
<1>1. Init => ByteInv
  BY DEF Init, ByteInv
<1>2. Inv /\ ByteInv /\ [Next]_vars => ByteInv'
  BY ByteStep
<1>3. QED
  BY <1>1, <1>2, PipeInv, PTL DEF Spec

\* Outside the critical sections the pipe holds one byte while there are
\* messages and none otherwise, so that select sees what the list says.
THEOREM SelectIsRight ==
    ASSUME ~WriteMayFail
    PROVE  Spec => []ByteIndicatesData
<1>1. Inv /\ ByteInv => ByteIndicatesData
  BY DEF Inv, MutexInv, ByteInv, ByteIndicatesData
<1>2. QED
  BY <1>1, PipeInv, ByteAlways, PTL

-----------------------------------------------------------------------------
(***************************************************************************)
(* The pipe implements the channel.                                        *)
(***************************************************************************)

\* A message in hand and the list, as one sequence.
LEMMA OneAndList ==
    ASSUME NEW S, NEW m \in S, NEW q \in Seq(S)
    PROVE  /\ <<m>> \o q \in Seq(S)
           /\ <<m>> \o q # <<>>
           /\ Head(<<m>> \o q) = m
           /\ Tail(<<m>> \o q) = q
OBVIOUS

LEMMA EmptyAndList ==
    ASSUME NEW S, NEW q \in Seq(S)
    PROVE  <<>> \o q = q
OBVIOUS

LEMMA HeadAndTail ==
    ASSUME NEW S, NEW q \in Seq(S), q # <<>>
    PROVE  <<Head(q)>> \o Tail(q) = q
OBVIOUS

LEMMA ListAndOne ==
    ASSUME NEW S, NEW p \in Seq(S), NEW q \in Seq(S), NEW m \in S
    PROVE  p \o Append(q, m) = Append(p \o q, m)
OBVIOUS

\* Every step of the two threads is a step of the channel or leaves it alone.
LEMMA ChannelStep ==
    ASSUME Inv, Next
    PROVE  [Chan!Next]_(Chan!vars)
<1> DEFINE chan == InHand \o queue
<1>1. queue \in Seq(Message) /\ InHand \in Seq(Message)
  BY EmptyList DEF Inv, TypeOK, HandInv, InHand
<1>2. CASE /\ UNCHANGED <<queue, posted, handled, taken, freed>>
           /\ rpc' \in {"read", "call"} <=> rpc \in {"read", "call"}
  BY <1>2 DEF Chan!vars, InHand
<1>3. CASE PostUnlock
  <2>1. posted' \in Message /\ queue' = Append(queue, posted')
    BY <1>3, BoundsAssumption DEF PostUnlock, Inv, TypeOK, PostInv, Message
  <2>2. UNCHANGED <<InHand, handled, freed>> /\ posted' = posted + 1 /\ ~freed
    BY <1>3, OwnedNotFreed DEF PostUnlock, InHand
  <2>3. chan' = Append(chan, posted')
    BY <1>1, <2>1, <2>2, ListAndOne
  <2>4. QED
    BY <2>2, <2>3 DEF Chan!Next, Chan!Post
<1>4. CASE Take
  <2>1. InHand = <<>> /\ chan = queue
    BY <1>1, <1>4, EmptyAndList DEF Take, InHand
  <2>2. CASE queue = <<>>
    <3>1. InHand' = <<>> /\ queue' = <<>> /\ chan' = <<>>
      BY <1>4, <2>2, EmptyList, EmptyAndList DEF Take, InHand
    <3>2. QED
      BY <1>4, <2>1, <2>2, <3>1 DEF Take, Chan!vars
  <2>3. CASE queue # <<>>
    <3>1. InHand' = <<Head(queue)>> /\ queue' = Tail(queue)
      BY <1>4, <2>3 DEF Take, InHand
    <3>2. chan' = queue
      BY <1>1, <2>3, <3>1, HeadAndTail
    <3>3. QED
      BY <1>4, <2>1, <3>2 DEF Take, Chan!vars
  <2>4. QED
    BY <2>2, <2>3
<1>5. CASE Call
  <2>1. taken \in Message /\ InHand = <<taken>> /\ InHand' = <<>>
    BY <1>5 DEF Call, InHand, Inv, HandInv
  <2>2. chan # <<>> /\ Head(chan) = taken /\ Tail(chan) = queue
    BY <1>1, <2>1, OneAndList
  <2>3. chan' = queue
    BY <1>1, <1>5, <2>1, EmptyAndList DEF Call
  <2>4. ~freed
    BY <1>5, OwnedNotFreed DEF Call
  <2>5. QED
    BY <1>5, <2>2, <2>3, <2>4 DEF Call, Chan!Next, Chan!Handle
<1>6. CASE SenderGoes \/ ClearHandler \/ ReceiverGoes \/ WorkerCollected
  <2>1. UNCHANGED <<posted, handled, taken>>
    BY <1>6 DEF SenderGoes, ClearHandler, ReceiverGoes, WorkerCollected
  <2>2. ~freed
    BY <1>6, OwnedNotFreed DEF SenderGoes, ClearHandler, ReceiverGoes,
                               WorkerCollected
  <2>3. rpc' \in {"read", "call"} <=> rpc \in {"read", "call"}
    BY <1>6 DEF SenderGoes, ClearHandler, ReceiverGoes, WorkerCollected
  <2>4. PICK n \in 1..2 : js_free_message_pipe(n)
    BY <1>6 DEF SenderGoes, ClearHandler, ReceiverGoes, WorkerCollected
  <2>5. CASE ref # n
    <3>1. UNCHANGED queue /\ freed' = FALSE
      BY <2>4, <2>5 DEF js_free_message_pipe
    <3>2. freed = FALSE
      BY <2>2 DEF Inv, TypeOK
    <3>3. QED
      BY <1>2, <2>1, <2>3, <3>1, <3>2
  <2>6. CASE ref = n
    <3>1. queue' = <<>> /\ freed' = TRUE
      BY <2>4, <2>6 DEF js_free_message_pipe
    <3>2. rpc' = "gone"
      <4>1. Inv'
        BY SenderInv, ReceiverInv DEF Next
      <4>2. QED
        BY <3>1, <4>1 DEF Inv, TypeOK, RefInv, Owners, Count
    <3>3. chan' = <<>>
      BY <3>1, <3>2, EmptyList, EmptyAndList DEF InHand
    <3>4. QED
      BY <2>1, <2>2, <3>1, <3>3 DEF Chan!Next, Chan!Close
  <2>7. QED
    BY <2>5, <2>6
<1>7. CASE PostLock \/ PostSignal
  BY <1>2, <1>7 DEF PostLock, PostSignal
<1>8. CASE \/ SetHandler \/ ScriptReturns \/ PollMessage \/ PollOther
           \/ PollNothing \/ TakeLock \/ ReadByte
  BY <1>2, <1>8 DEF SetHandler, js_dup_message_pipe, ScriptReturns,
                    PollMessage, PollOther, PollNothing, TakeLock, ReadByte
<1>9. QED
  BY <1>3, <1>4, <1>5, <1>6, <1>7, <1>8 DEF Next, SenderNext, ReceiverNext

\* The list, the mutex, the byte and the two threads together implement a
\* first-in first-out channel: no message is lost, repeated or overtaken
\* while somebody can still receive it.
THEOREM ImplementsChannel == Spec => ChannelSpec
<1>1. Init => Chan!Init
  BY EmptyList, EmptyAndList DEF Init, Chan!Init, InHand
<1>2. Inv /\ [Next]_vars => [Chan!Next]_(Chan!vars)
  <2>1. CASE UNCHANGED vars
    BY <2>1 DEF vars, Chan!vars, InHand
  <2>2. QED
    BY <2>1, ChannelStep
<1>3. QED
  BY <1>1, <1>2, PipeInv, PTL DEF Spec, ChannelSpec, Chan!Spec

=============================================================================
