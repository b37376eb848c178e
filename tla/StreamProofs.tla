---------------------------- MODULE StreamProofs ----------------------------
(* Proofs about Stream, for contents, reads and pieces of every size: the    *)
(* type invariant, that a read copies received bytes only, that the cache is *)
(* given the whole content, and that the reader implements module File.      *)
EXTENDS Stream, TLAPS

\* The bytes of the content that are fetched ahead.
Ends == AtMost(Tail, size)

\* What the download worker has brought, and where it is with it.
WriterInv ==
    /\ total = IF wpc = "connect" THEN 0 ELSE size
    /\ wpc \in {"connect", "ends"} => recvd = 0
    /\ wpc \notin {"lock", "publish"} => fresh = 0
    /\ recvd + fresh <= size
    /\ 0 .. recvd + fresh - 1 \subseteq filled
    /\ endsLeft <= Ends
    /\ wpc # "connect" => size - Ends .. size - endsLeft - 1 \subseteq filled
    /\ wpc \notin {"connect", "ends"} => size - Ends .. size - 1 \subseteq filled
    /\ saved => recvd = size

\* What libmpg123 has asked for, and what the reader has found to be there.
ReaderInv ==
    /\ position <= size
    /\ position > 0 => recvd > 0 \/ size = Tail
    /\ rpc # "idle" => asked \in IF op = "read" THEN Counts ELSE 0..size + 1
    /\ rpc \in {"unlock", "go"} => Arrived
    /\ rpc = "direct" => op = "read" /\ total = size /\ Tail <= size /\ size - Tail <= position

IInv == TypeInvariant /\ WriterInv /\ ReaderInv

-----------------------------------------------------------------------------
\* The place from which a read does not wait: size_t's difference without the modulus.
LEMMA EndsStartValue ==
  ASSUME TypeInvariant, total \in {0, size}
  PROVE  EndsStart = IF Tail <= total THEN total - Tail ELSE total - Tail + Word
<1>1. /\ total \in Nat /\ Tail \in Nat \ {0} /\ Word \in Nat
      /\ total + Tail < Word
  BY SizesAssumption, ChunksAssumption, WordAssumption DEF TypeInvariant
<1>2. ASSUME NEW d \in Int, 0 <= d, d < Word PROVE d % Word = d
  BY <1>1, <1>2
<1>3. ASSUME NEW d \in Int, d < 0, 0 - Word < d PROVE d % Word = d + Word
  BY <1>1, <1>3
<1>4. CASE Tail <= total
  BY <1>1, <1>2, <1>4 DEF EndsStart
<1>5. CASE total < Tail
  BY <1>1, <1>3, <1>5 DEF EndsStart
<1> QED BY <1>1, <1>4, <1>5

\* The facts about the constants and the sizes that the steps below rest on.
LEMMA Sizing ==
  ASSUME TypeInvariant
  PROVE  /\ size \in Nat /\ Tail \in Nat \ {0} /\ Chunk \in Nat \ {0}
         /\ Counts \subseteq Nat \ {0}
         /\ Ends \in 0..size /\ Ends <= Tail
BY SizesAssumption, ChunksAssumption DEF TypeInvariant, Ends, AtMost

\* A part of an interval lies where the interval does.
LEMMA SubInterval ==
  ASSUME NEW S, NEW lo \in Int, NEW hi \in Int, lo..hi \subseteq S,
         NEW a \in Int, NEW b \in Int, lo <= a, b <= hi
  PROVE  a..b \subseteq S
OBVIOUS

\* The inductive invariant holds at the start.
LEMMA InitInv == Init => IInv
<1> SUFFICES ASSUME Init PROVE IInv
  OBVIOUS
<1>1. size \in Nat
  BY SizesAssumption DEF Init
<1>2. TypeInvariant
  <2>1. saved \in BOOLEAN
    BY DEF Init
  <2>2. reply \in [op : {"open", "read", "seek"}, asked : Nat, returned : Nat \cup {-1}]
    BY DEF Init
  <2> QED BY <1>1, <2>1, <2>2 DEF Init, TypeInvariant
<1>3. WriterInv
  BY <1>1, <1>2, Sizing DEF Init, WriterInv
<1>4. ReaderInv
  BY <1>1 DEF Init, ReaderInv
<1> QED BY <1>2, <1>3, <1>4 DEF IInv

\* A step of the download worker keeps the types.
LEMMA WriterTyped == ASSUME IInv, Writer PROVE TypeInvariant'
<1> USE Sizing DEF IInv, TypeInvariant, WriterInv
<1>1. CASE Allocate
  BY <1>1 DEF Allocate, AtMost
<1>2. CASE RecvEnds
  <2>1. PICK n \in 1..endsLeft :
          /\ filled' = filled \cup (size - endsLeft .. size - endsLeft + n - 1)
          /\ endsLeft' = endsLeft - n
    BY <1>2 DEF RecvEnds
  <2>2. size - endsLeft .. size - endsLeft + n - 1 \subseteq 0..size - 1
    BY SubInterval
  <2>3. filled' \subseteq 0..size - 1
    BY <2>1, <2>2
  <2>4. endsLeft' \in Nat
    BY <2>1
  <2> QED BY <1>2, <2>3, <2>4 DEF RecvEnds
<1>3. CASE Begin
  BY <1>3 DEF Begin, buffer
<1>4. CASE Recv
  BY <1>4 DEF Recv, AtMost
<1>5. CASE WriterLock
  BY <1>5 DEF WriterLock, buffer
<1>6. CASE Publish
  BY <1>6 DEF Publish
<1>7. CASE WriterUnlock
  BY <1>7 DEF WriterUnlock, buffer
<1>8. CASE Callback
  BY <1>8 DEF Callback, buffer
<1>9. CASE Finish
  BY <1>9 DEF Finish, buffer
<1> QED BY <1>1, <1>2, <1>3, <1>4, <1>5, <1>6, <1>7, <1>8, <1>9 DEF Writer

\* A step of the reader, or a call of it, keeps the types.
LEMMA ReaderTyped ==
  ASSUME IInv, Reader \/ CallRead \/ CallSeek \/ SpuriousWakeup PROVE TypeInvariant'
<1> USE Sizing DEF IInv, TypeInvariant, ReaderInv, buffer, writer
<1>1. CASE ReaderLock BY <1>1 DEF ReaderLock
<1>2. CASE ReaderTest BY <1>2 DEF ReaderTest
<1>3. CASE ReaderRelock BY <1>3 DEF ReaderRelock
<1>4. CASE ReaderRetest BY <1>4 DEF ReaderRetest
<1>5. CASE ReaderUnlock BY <1>5 DEF ReaderUnlock
<1>6. CASE ReadDirect
  BY <1>6 DEF ReadDirect, Return, AtMost
<1>7. CASE ReadWaited
  BY <1>7 DEF ReadWaited, Return, AtMost
<1>8. CASE SeekWaited
  BY <1>8 DEF SeekWaited, Return
<1>9. CASE CallRead BY <1>9 DEF CallRead
<1>10. CASE CallSeek BY <1>10 DEF CallSeek
<1>11. CASE SpuriousWakeup BY <1>11 DEF SpuriousWakeup
<1> QED
  BY <1>1, <1>2, <1>3, <1>4, <1>5, <1>6, <1>7, <1>8, <1>9, <1>10, <1>11 DEF Reader, Await

-----------------------------------------------------------------------------
\* Bytes are stored before they are counted, behind the ones that are there already.
LEMMA WriterStep == ASSUME IInv, Writer, TypeInvariant' PROVE WriterInv'
<1> DEFINE E == Ends
<1>1. E' = E /\ size' = size
  BY DEF Writer, Allocate, RecvEnds, Begin, Recv, WriterLock, Publish, WriterUnlock,
         Callback, Finish, buffer, Ends
<1> USE <1>1, Sizing DEF IInv, TypeInvariant, WriterInv
<1>2. CASE Allocate
  BY <1>2 DEF Allocate, Ends
<1>3. CASE RecvEnds
  BY <1>3 DEF RecvEnds
<1>4. CASE Begin
  BY <1>4 DEF Begin, buffer
<1>5. CASE Recv
  BY <1>5 DEF Recv, AtMost
<1>6. CASE WriterLock
  BY <1>6 DEF WriterLock, buffer
<1>7. CASE Publish
  BY <1>7 DEF Publish
<1>8. CASE WriterUnlock
  BY <1>8 DEF WriterUnlock, buffer
<1>9. CASE Callback
  BY <1>9 DEF Callback, buffer
<1>10. CASE Finish
  BY <1>10 DEF Finish, buffer
<1> QED BY <1>2, <1>3, <1>4, <1>5, <1>6, <1>7, <1>8, <1>9, <1>10 DEF Writer

\* What the reader has found to be there stays there: bytes_recvd only grows.
LEMMA WriterKeepsReader == ASSUME IInv, Writer, TypeInvariant' PROVE ReaderInv'
<1>1. /\ recvd <= recvd' /\ size' = size
      /\ total' = total \/ (total = 0 /\ total' = size)
      /\ rpc' = rpc \/ (rpc = "wait" /\ rpc' = "wake")
      /\ position' = position /\ asked' = asked /\ op' = op
  BY Sizing DEF IInv, TypeInvariant, WriterInv, Writer, Allocate, RecvEnds, Begin, Recv,
         WriterLock, Publish, WriterUnlock, Callback, Finish, buffer
<1> QED BY <1>1, Sizing DEF IInv, TypeInvariant, ReaderInv, Arrived, Awaited

\* A read returns as many bytes as there are, a seek a place inside.
LEMMA ReaderStep ==
  ASSUME IInv, Reader \/ CallRead \/ CallSeek \/ SpuriousWakeup, TypeInvariant'
  PROVE  WriterInv' /\ ReaderInv'
<1>1. UNCHANGED <<buffer, writer>>
  BY DEF Reader, Await, ReaderLock, ReaderTest, ReaderRelock, ReaderRetest, ReaderUnlock,
         ReadDirect, ReadWaited, SeekWaited, CallRead, CallSeek, SpuriousWakeup
<1>2. WriterInv'
  BY <1>1 DEF IInv, WriterInv, Ends, AtMost, buffer, writer
<1>3. total \in {0, size}
  BY DEF IInv, WriterInv
<1> SUFFICES ReaderInv'
  BY <1>2
<1> USE <1>1, Sizing DEF IInv, TypeInvariant, ReaderInv, Arrived, Awaited, buffer, writer
<1>4. CASE ReaderLock BY <1>4 DEF ReaderLock
<1>5. CASE ReaderTest BY <1>5 DEF ReaderTest
<1>6. CASE ReaderRelock BY <1>6 DEF ReaderRelock
<1>7. CASE ReaderRetest BY <1>7 DEF ReaderRetest
<1>8. CASE ReaderUnlock BY <1>8 DEF ReaderUnlock
<1>9. CASE ReadDirect
  BY <1>9 DEF ReadDirect, Return, AtMost
<1>10. CASE ReadWaited
  BY <1>10 DEF ReadWaited, Return, AtMost, WriterInv
<1>11. CASE SeekWaited
  BY <1>3, <1>11 DEF SeekWaited, Return
<1>12. CASE CallRead
  BY <1>3, <1>12, EndsStartValue, WordAssumption DEF CallRead
<1>13. CASE CallSeek BY <1>13 DEF CallSeek
<1>14. CASE SpuriousWakeup BY <1>14 DEF SpuriousWakeup
<1> QED
  BY <1>2, <1>4, <1>5, <1>6, <1>7, <1>8, <1>9, <1>10, <1>11, <1>12, <1>13, <1>14
     DEF Reader, Await

\* The inductive invariant holds in every state.
LEMMA Invariance == Spec => []IInv
<1>1. IInv /\ [Next]_vars => IInv'
  <2> SUFFICES ASSUME IInv, [Next]_vars PROVE IInv'
    OBVIOUS
  <2>1. CASE Writer
    BY <2>1, WriterTyped, WriterStep, WriterKeepsReader DEF IInv
  <2>2. CASE Reader \/ CallRead \/ CallSeek \/ SpuriousWakeup
    BY <2>2, ReaderTyped, ReaderStep DEF IInv
  <2>3. CASE UNCHANGED vars
    BY <2>3 DEF vars, buffer, writer, IInv, TypeInvariant, WriterInv, ReaderInv, Ends,
                AtMost, Arrived, Awaited
  <2> QED BY <2>1, <2>2, <2>3 DEF Next
<1> QED BY <1>1, InitInv, PTL DEF Spec

-----------------------------------------------------------------------------
\* The values every variable of the model keeps to.
THEOREM TypeCorrect == Spec => []TypeInvariant
<1>1. IInv => TypeInvariant
  BY DEF IInv
<1> QED BY <1>1, Invariance, PTL

\* io_callback saves a track only when the buffer holds all of its content.
THEOREM CacheGetsWholeContent == Spec => []SavesWholeContent
<1>1. IInv => SavesWholeContent
  <2> SUFFICES ASSUME IInv, saved PROVE filled = 0..size - 1 /\ recvd = size
    BY DEF SavesWholeContent
  <2>1. recvd = size /\ fresh = 0
    BY Sizing DEF IInv, TypeInvariant, WriterInv
  <2>2. filled \subseteq 0..size - 1 /\ 0..size - 1 \subseteq filled
    BY <2>1, Sizing DEF IInv, TypeInvariant, WriterInv
  <2> QED BY <2>1, <2>2
<1> QED BY <1>1, Invariance, PTL

\* _io_read copies only bytes the download worker has stored.
THEOREM ReadsAreReceived == Spec => ReadsOnlyReceived
<1>1. IInv /\ [Next]_vars =>
         [size # Tail /\ rpc \in {"direct", "go"} => CopiesReceived]_vars
  <2> SUFFICES ASSUME IInv, Next, size # Tail, rpc \in {"direct", "go"}, op = "read",
                      rpc' = "idle"
               PROVE  position .. position' - 1 \subseteq filled
    BY DEF CopiesReceived
  <2>1. ReadDirect \/ ReadWaited
    BY DEF Next, Writer, Allocate, RecvEnds, Begin, Recv, WriterLock, Publish, WriterUnlock,
           Callback, Finish, Reader, Await, ReaderLock, ReaderTest, ReaderRelock,
           ReaderRetest, ReaderUnlock, SeekWaited, CallRead, CallSeek, SpuriousWakeup
  <2>2. /\ position \in Int /\ size \in Int /\ Ends \in Int
        /\ recvd \in Int /\ fresh \in Int
    BY Sizing DEF IInv, TypeInvariant
  <2>3. CASE ReadDirect
    <3>1. size - Ends <= position /\ wpc \notin {"connect", "ends"}
      BY <2>3, Sizing DEF ReadDirect, Ends, AtMost, IInv, TypeInvariant, WriterInv, ReaderInv
    <3>2. position' \in Int /\ position' <= size
      BY <2>3, Sizing DEF ReadDirect, AtMost, IInv, TypeInvariant, ReaderInv
    <3>3. size - Ends .. size - 1 \subseteq filled
      BY <3>1 DEF IInv, WriterInv
    <3>4. PICK to \in Int : to = position'
      BY <3>2
    <3>5. to <= size
      BY <2>2, <3>2, <3>4
    <3>6. position .. to - 1 \subseteq size - Ends .. size - 1
      BY <2>2, <3>1, <3>5
    <3> QED BY <3>3, <3>4, <3>6
  <2>4. CASE ReadWaited
    <3>1. position' \in Int /\ 0 <= position /\ position' <= recvd + fresh
      BY <2>4, Sizing DEF ReadWaited, AtMost, Arrived, Awaited, IInv, TypeInvariant, ReaderInv
    <3>2. 0 .. recvd + fresh - 1 \subseteq filled
      BY DEF IInv, WriterInv
    <3>3. PICK to \in Int : to = position'
      BY <3>1
    <3>4. to <= recvd + fresh /\ 0 <= position
      BY <2>2, <3>1, <3>3
    <3>5. position .. to - 1 \subseteq 0 .. recvd + fresh - 1
      BY <2>2, <3>4
    <3> QED BY <3>2, <3>3, <3>5
  <2> QED BY <2>1, <2>3, <2>4
<1> QED BY <1>1, Invariance, PTL DEF Spec, ReadsOnlyReceived

-----------------------------------------------------------------------------
\* Every step of the reader is a step of a complete file, or none of its business.
LEMMA ReaderSimulatesFile == ASSUME IInv, [Next]_vars PROVE [AsFile!Next]_(AsFile!vars)
<1> USE Sizing DEF IInv, TypeInvariant, WriterInv, ReaderInv
<1>1. CASE ReadDirect
  BY <1>1 DEF ReadDirect, Return, AtMost, buffer, AsFile!Next, AsFile!Read, AsFile!AtMost
<1>2. CASE ReadWaited
  BY <1>2 DEF ReadWaited, Return, AtMost, Arrived, Awaited, buffer, AsFile!Next,
              AsFile!Read, AsFile!AtMost
<1>3. CASE SeekWaited
  BY <1>3 DEF SeekWaited, Return, Arrived, Awaited, buffer, AsFile!Next, AsFile!Seek
<1>4. ASSUME ~ReadDirect, ~ReadWaited, ~SeekWaited PROVE UNCHANGED AsFile!vars
  BY <1>4 DEF AsFile!vars, vars, Next, Writer, Allocate, RecvEnds, Begin, Recv, WriterLock,
       Publish, WriterUnlock, Callback, Finish, Reader, Await, ReaderLock, ReaderTest,
       ReaderRelock, ReaderRetest, ReaderUnlock, CallRead, CallSeek, SpuriousWakeup, buffer
<1> QED BY <1>1, <1>2, <1>3, <1>4

\* libmpg123 cannot tell the download in progress from a complete file: every read and
\* seek returns what it would return for one, for contents and reads of any size.
THEOREM ReaderIsFile == Spec => ImplementsFile
<1>1. Init => AsFile!Init
  BY DEF Init, AsFile!Init
<1> QED BY <1>1, ReaderSimulatesFile, Invariance, PTL DEF Spec, ImplementsFile, AsFile!Spec
=============================================================================
