------------------------------- MODULE Stream -------------------------------
(***************************************************************************)
(* One track's data on its way from the server to the decoder: struct      *)
(* download_state, written by a download worker (src/src/downloader.c) and *)
(* read by libmpg123 in the play thread through _io_read and _io_seek      *)
(* (src/src/sound.c).                                                      *)
(*                                                                         *)
(* The worker first fetches the last bytes of the content, then all of it  *)
(* from the start; bytes_recvd counts the second part only.  The reader    *)
(* takes what lies in the last bytes without waiting; for anything else it *)
(* waits until bytes_recvd is beyond what it asks for.  io_mutex and       *)
(* io_cond make it wait.  A cached track starts with all its bytes.        *)
(***************************************************************************)
EXTENDS Integers

CONSTANTS
    Sizes,   \* the content's lengths
    Counts,  \* what libmpg123 asks for in one read
    Tail,    \* bytes fetched ahead, and taken without waiting (4096)
    Chunk,   \* CHUNK_SIZE (4096)
    Word     \* size_t counts modulo Word

ASSUME SizesAssumption == Sizes \subseteq Nat /\ Counts \subseteq Nat \ {0}
ASSUME ChunksAssumption == Tail \in Nat \ {0} /\ Chunk \in Nat \ {0}
ASSUME WordAssumption == Word \in Nat /\ \A s \in Sizes : s + Tail < Word

VARIABLES
    size,      \* the length of the content (the server's Content-Length)
    total,     \* bytes_total: 0 until the server has answered
    recvd,     \* bytes_recvd
    filled,    \* the places of the buffer that hold the content's bytes
    endsLeft,  \* bytes of the last part still to receive
    fresh,     \* bytes just received, not yet counted in bytes_recvd
    wpc,       \* where the download worker is
    saved,     \* cache_track_save has been called for the buffer
    mutex,     \* who holds io_mutex: "free", "writer" or "reader"
    position,  \* iohandle->position
    asked,     \* the argument of the operation: a count, or a place to seek to
    op,        \* the operation libmpg123 is in: "read" or "seek"
    rpc,       \* where the reader is
    reply      \* history: the last operation that returned

buffer == <<size, total, recvd, filled>>
writer == <<endsLeft, fresh, wpc, saved>>
vars == <<buffer, writer, mutex, position, asked, op, rpc, reply>>

AtMost(n, m) == IF n < m THEN n ELSE m

\* Either the track comes from the cache, which maps no empty file, or a worker has yet
\* to ask for it.
Init ==
    /\ size \in Sizes
    /\ \/ /\ total = 0 /\ recvd = 0 /\ filled = {} /\ wpc = "connect"
       \/ /\ size > 0
          /\ total = size /\ recvd = size /\ filled = 0..size - 1 /\ wpc = "finished"
    /\ endsLeft = 0 /\ fresh = 0 /\ saved = FALSE
    /\ mutex = "free"
    /\ position = 0 /\ asked = 0 /\ op = "read" /\ rpc = "idle"
    /\ reply = [op |-> "open", asked |-> 0, returned |-> 0]

-----------------------------------------------------------------------------
(* The download worker *)

\* Both requests are answered; the buffer is allocated and bytes_total set.
Allocate ==
    /\ wpc = "connect"
    /\ total' = size /\ endsLeft' = AtMost(Tail, size)
    /\ wpc' = "ends"
    /\ UNCHANGED <<size, recvd, filled, fresh, saved, mutex, position, asked, op, rpc, reply>>

RecvEnds ==
    /\ wpc = "ends" /\ endsLeft > 0
    /\ \E n \in 1..endsLeft :
        /\ filled' = filled \cup (size - endsLeft .. size - endsLeft + n - 1)
        /\ endsLeft' = endsLeft - n
    /\ UNCHANGED <<size, total, recvd, fresh, wpc, saved, mutex, position, asked, op,
                   rpc, reply>>

\* Mutated form: the main part is begun before the last bytes are there.
BeginEarly ==
    /\ wpc = "ends"
    /\ wpc' = "fetch"
    /\ UNCHANGED <<buffer, endsLeft, fresh, saved, mutex, position, asked, op, rpc, reply>>

\* The last bytes are there; the main part is begun.
Begin ==
    /\ wpc = "ends" /\ endsLeft = 0
    /\ wpc' = "fetch"
    /\ UNCHANGED <<buffer, endsLeft, fresh, saved, mutex, position, asked, op, rpc, reply>>

\* Mutated form: a whole chunk is asked for where less is left.
RecvBeyond ==
    /\ wpc = "fetch" /\ recvd < size
    /\ \E n \in 1..Chunk :
        /\ filled' = filled \cup (recvd .. recvd + n - 1)
        /\ fresh' = n
    /\ wpc' = "lock"
    /\ UNCHANGED <<size, total, recvd, endsLeft, saved, mutex, position, asked, op, rpc, reply>>

\* recv: at most CHUNK_SIZE bytes are stored behind the ones already counted.
Recv ==
    /\ wpc = "fetch" /\ recvd < size
    /\ \E n \in 1..AtMost(Chunk, size - recvd) :
        /\ filled' = filled \cup (recvd .. recvd + n - 1)
        /\ fresh' = n
    /\ wpc' = "lock"
    /\ UNCHANGED <<size, total, recvd, endsLeft, saved, mutex, position, asked, op, rpc, reply>>

WriterLock ==
    /\ wpc = "lock" /\ mutex = "free"
    /\ mutex' = "writer" /\ wpc' = "publish"
    /\ UNCHANGED <<buffer, endsLeft, fresh, saved, position, asked, op, rpc, reply>>

\* Mutated form: nobody is woken.
PublishSilent ==
    /\ wpc = "publish"
    /\ recvd' = recvd + fresh /\ fresh' = 0
    /\ wpc' = "unlock"
    /\ UNCHANGED <<size, total, filled, endsLeft, saved, mutex, position, asked, op, rpc, reply>>

\* bytes_recvd += ret; pthread_cond_signal
Publish ==
    /\ wpc = "publish"
    /\ recvd' = recvd + fresh /\ fresh' = 0
    /\ rpc' = IF rpc = "wait" THEN "wake" ELSE rpc
    /\ wpc' = "unlock"
    /\ UNCHANGED <<size, total, filled, endsLeft, saved, mutex, position, asked, op, reply>>

WriterUnlock ==
    /\ wpc = "unlock"
    /\ mutex' = "free" /\ wpc' = "callback"
    /\ UNCHANGED <<buffer, endsLeft, fresh, saved, position, asked, op, rpc, reply>>

\* Mutated form: the track is saved when its first bytes have come.
CallbackEarly ==
    /\ wpc = "callback"
    /\ saved' = TRUE
    /\ wpc' = "fetch"
    /\ UNCHANGED <<buffer, endsLeft, fresh, mutex, position, asked, op, rpc, reply>>

\* io_callback: the track is saved to the cache when all of it has come.
Callback ==
    /\ wpc = "callback"
    /\ saved' = (saved \/ recvd = total)
    /\ wpc' = "fetch"
    /\ UNCHANGED <<buffer, endsLeft, fresh, mutex, position, asked, op, rpc, reply>>

Finish ==
    /\ wpc = "fetch" /\ recvd = size
    /\ wpc' = "finished"
    /\ UNCHANGED <<buffer, endsLeft, fresh, saved, mutex, position, asked, op, rpc, reply>>

-----------------------------------------------------------------------------
(* _io_read and _io_seek, called by libmpg123 one at a time *)

\* bytes_total - 4096, with size_t's wrap-around when fewer bytes are announced.
EndsStart == (total - Tail) % Word

CallRead ==
    /\ rpc = "idle"
    /\ asked' \in Counts
    /\ op' = "read"
    /\ rpc' = IF position >= EndsStart THEN "direct" ELSE "lock"
    /\ UNCHANGED <<buffer, writer, mutex, position, reply>>

CallSeek ==
    /\ rpc = "idle"
    /\ asked' \in 0..size + 1
    /\ op' = "seek"
    /\ rpc' = "lock"
    /\ UNCHANGED <<buffer, writer, mutex, position, reply>>

\* What _io_await_recvd_size is called with, and the test it makes.
Awaited == IF op = "read" THEN position + asked ELSE 0
Arrived == Awaited < recvd

Return(returned) ==
    /\ reply' = [op |-> op, asked |-> asked, returned |-> returned]
    /\ rpc' = "idle"

\* The place read from lies in the last bytes: they are taken at once.
ReadDirect ==
    /\ rpc = "direct"
    /\ LET got == AtMost(asked, total - position)
       IN position' = position + got /\ Return(got)
    /\ UNCHANGED <<buffer, writer, mutex, asked, op>>

ReaderLock ==
    /\ rpc = "lock" /\ mutex = "free"
    /\ mutex' = "reader" /\ rpc' = "test"
    /\ UNCHANGED <<buffer, writer, position, asked, op, reply>>

\* The first test; pthread_cond_wait gives the mutex up and waits in one step.
ReaderTest ==
    /\ rpc = "test"
    /\ IF Arrived THEN rpc' = "unlock" /\ UNCHANGED mutex
                  ELSE rpc' = "wait" /\ mutex' = "free"
    /\ UNCHANGED <<buffer, writer, position, asked, op, reply>>

\* pthread_cond_wait may return without a signal.
SpuriousWakeup ==
    /\ rpc = "wait" /\ rpc' = "wake"
    /\ UNCHANGED <<buffer, writer, mutex, position, asked, op, reply>>

ReaderRelock ==
    /\ rpc = "wake" /\ mutex = "free"
    /\ mutex' = "reader" /\ rpc' = "retest"
    /\ UNCHANGED <<buffer, writer, position, asked, op, reply>>

\* Mutated form: what woke the reader is taken for what it waits for.
ReaderNoRetest ==
    /\ rpc = "retest"
    /\ rpc' = "unlock"
    /\ UNCHANGED <<buffer, writer, mutex, position, asked, op, reply>>

\* The second test; if it fails the mutex is given up and the loop is entered again.
ReaderRetest ==
    /\ rpc = "retest"
    /\ IF Arrived THEN rpc' = "unlock" /\ UNCHANGED mutex
                  ELSE rpc' = "lock" /\ mutex' = "free"
    /\ UNCHANGED <<buffer, writer, position, asked, op, reply>>

ReaderUnlock ==
    /\ rpc = "unlock"
    /\ mutex' = "free" /\ rpc' = "go"
    /\ UNCHANGED <<buffer, writer, position, asked, op, reply>>

\* After the wait bytes_recvd is read again, without the mutex.
ReadWaited ==
    /\ rpc = "go" /\ op = "read"
    /\ LET available == IF recvd > position THEN recvd - position ELSE 0
           got       == AtMost(asked, available)
       IN position' = position + got /\ Return(got)
    /\ UNCHANGED <<buffer, writer, mutex, asked, op>>

SeekWaited ==
    /\ rpc = "go" /\ op = "seek"
    /\ IF asked > total THEN Return(-1) /\ UNCHANGED position
                        ELSE Return(asked) /\ position' = asked
    /\ UNCHANGED <<buffer, writer, mutex, asked, op>>

-----------------------------------------------------------------------------
Writer == Allocate \/ RecvEnds \/ Begin \/ Recv \/ WriterLock \/ Publish
          \/ WriterUnlock \/ Callback \/ Finish
Await == ReaderLock \/ ReaderTest \/ ReaderRelock \/ ReaderRetest \/ ReaderUnlock
Reader == Await \/ ReadDirect \/ ReadWaited \/ SeekWaited

Next == Writer \/ Reader \/ CallRead \/ CallSeek \/ SpuriousWakeup

Spec == Init /\ [][Next]_vars

\* The server sends what it announced and both threads run; io_mutex is held for a few
\* instructions only, so that even a reader woken for nothing again and again cannot
\* keep the worker from it.  libmpg123 need not call.
FairSpec == Spec /\ WF_vars(Writer) /\ SF_vars(WriterLock) /\ WF_vars(Reader)

-----------------------------------------------------------------------------
TypeInvariant ==
    /\ size \in Sizes /\ total \in Nat /\ recvd \in Nat
    /\ filled \subseteq 0..size - 1
    /\ endsLeft \in Nat /\ fresh \in Nat /\ saved \in BOOLEAN
    /\ wpc \in {"connect", "ends", "fetch", "lock", "publish", "unlock", "callback",
                "finished"}
    /\ mutex \in {"free", "writer", "reader"}
    /\ position \in Nat /\ asked \in Nat /\ op \in {"read", "seek"}
    /\ rpc \in {"idle", "direct", "lock", "test", "wait", "wake", "retest", "unlock", "go"}
    /\ reply \in [op : {"open", "read", "seek"}, asked : Nat, returned : Nat \cup {-1}]

\* What a read copies to the decoder are bytes of the content, received by then,
\* although those of the last part are taken without asking.  A content of exactly
\* Tail bytes is left out: its first read asks nobody either.
CopiesReceived ==
    op = "read" /\ rpc' = "idle" =>
        position .. position' - 1 \subseteq filled
ReadsOnlyReceived == [][size # Tail /\ rpc \in {"direct", "go"} => CopiesReceived]_vars

\* The decoder cannot tell the download from a complete file: no read comes back short
\* before the end, none is taken for the end, no seek goes beyond.
AsFile == INSTANCE File WITH Sizes <- Sizes, Counts <- Counts, size <- size,
                             position <- position, reply <- reply
ImplementsFile == AsFile!Spec

\* The cache is given the whole content and nothing else.
SavesWholeContent == saved => filled = 0..size - 1 /\ recvd = size

\* A read or a seek returns, however the data comes and whoever is woken when: for a
\* content longer than the part fetched ahead and a read of at most as many bytes.
Servable == size > Tail /\ (op = "read" => asked <= Tail)
EveryCallReturns == (rpc # "idle" /\ Servable) ~> rpc = "idle"
=============================================================================
