-------------------------------- MODULE Log ---------------------------------
(***************************************************************************)
(* The log file (log.c): every thread writes its lines under log_sem, a    *)
(* semaphore.  The handler of SIGINT (main.c) writes one too, in the       *)
(* middle of whatever its thread was doing, and lets a wait for a          *)
(* semaphore return with EINTR.  At exit() the log is closed after the     *)
(* threads that somebody joins have ended; the others go on until the      *)
(* process is gone.                                                        *)
(***************************************************************************)
EXTENDS Integers, FiniteSets

CONSTANTS
    Threads,    \* the threads that write to the log
    Main,       \* the one that leaves the program
    Joined,     \* threads joined before log_close
    MaxSignals, \* bound: SIGINTs
    MaxLines    \* bound: lines of a thread

ThreadsAssumption ==
    Main \in Threads /\ Joined \subseteq Threads \ {Main} /\ MaxSignals \in Nat /\ MaxLines \in Nat

VARIABLES
    pc,         \* of a thread: "out" of __log, "wait"ing for log_sem, "write", or "gone"
    handler,    \* of its signal handler: "none", "wait", "write"
    blocked,    \* the thread was blocked in sem_wait when the signal came
    cut,        \* a wait was cut short
    log_sem,
    log,        \* log_fh: "open" or "closed"
    misused,    \* __log was called, or was still busy, after log_close
    lines, signals \* lines of each thread; SIGINTs so far

vars == <<pc, handler, blocked, cut, log_sem, log, misused, lines, signals>>

Init ==
    /\ pc = [t \in Threads |-> "out"] /\ handler = [t \in Threads |-> "none"]
    /\ blocked = [t \in Threads |-> FALSE] /\ cut = FALSE /\ log_sem = 1 /\ log = "open" /\ misused = FALSE
    /\ lines = [t \in Threads |-> 0] /\ signals = 0

Misuse == misused' = (misused \/ log = "closed")

Call(t) ==
    /\ pc[t] = "out" /\ handler[t] = "none" /\ lines[t] < MaxLines
    /\ pc' = [pc EXCEPT ![t] = "wait"] /\ lines' = [lines EXCEPT ![t] = @ + 1]
    /\ Misuse /\ UNCHANGED <<handler, blocked, cut, log_sem, log, signals>>

\* Mutated form: the semaphore is not taken.
EnterOpen(t) ==
    /\ pc[t] = "wait" /\ handler[t] = "none" /\ log_sem > 0
    /\ pc' = [pc EXCEPT ![t] = "write"]
    /\ Misuse /\ UNCHANGED <<handler, blocked, cut, log_sem, log, lines, signals>>
Enter(t) ==
    /\ pc[t] = "wait" /\ handler[t] = "none" /\ log_sem > 0
    /\ pc' = [pc EXCEPT ![t] = "write"] /\ log_sem' = log_sem - 1
    /\ Misuse /\ UNCHANGED <<handler, blocked, cut, log, lines, signals>>

\* Mutated form: no sem_post on the way out.
LeaveSilent(t) ==
    /\ pc[t] = "write" /\ handler[t] = "none"
    /\ pc' = [pc EXCEPT ![t] = "out"]
    /\ Misuse /\ UNCHANGED <<handler, blocked, cut, log_sem, log, lines, signals>>
Leave(t) ==
    /\ pc[t] = "write" /\ handler[t] = "none"
    /\ pc' = [pc EXCEPT ![t] = "out"] /\ log_sem' = log_sem + 1
    /\ Misuse /\ UNCHANGED <<handler, blocked, cut, log, lines, signals>>

\* SIGINT, delivered to some thread.
Signal(t) ==
    /\ pc[t] # "gone" /\ handler[t] = "none" /\ signals < MaxSignals
    /\ handler' = [handler EXCEPT ![t] = "wait"] /\ signals' = signals + 1
    /\ blocked' = [blocked EXCEPT ![t] = pc[t] = "wait" /\ log_sem = 0]
    /\ Misuse /\ UNCHANGED <<pc, cut, log_sem, log, lines>>

\* Mutated form: the handler does not wait.
HandlerEnterOpen(t) ==
    /\ handler[t] = "wait"
    /\ handler' = [handler EXCEPT ![t] = "write"] /\ log_sem' = log_sem - 1
    /\ Misuse /\ UNCHANGED <<pc, blocked, cut, log, lines, signals>>
HandlerEnter(t) ==
    /\ handler[t] = "wait" /\ log_sem > 0
    /\ handler' = [handler EXCEPT ![t] = "write"] /\ log_sem' = log_sem - 1
    /\ Misuse /\ UNCHANGED <<pc, blocked, cut, log, lines, signals>>

\* A sem_wait that was blocked returns with EINTR, which __log takes for success.
HandlerLeave(t) ==
    /\ handler[t] = "write"
    /\ handler' = [handler EXCEPT ![t] = "none"] /\ log_sem' = log_sem + 1
    /\ pc' = IF blocked[t] THEN [pc EXCEPT ![t] = "write"] ELSE pc
    /\ cut' = (cut \/ blocked[t])
    /\ Misuse /\ UNCHANGED <<blocked, log, lines, signals>>

End(t) ==
    /\ t # Main /\ pc[t] = "out" /\ handler[t] = "none" /\ pc' = [pc EXCEPT ![t] = "gone"]
    /\ UNCHANGED <<handler, blocked, cut, log_sem, log, misused, lines, signals>>

\* Mutated form: the log is closed before the threads are joined.
CloseFirst ==
    /\ pc[Main] = "out" /\ handler[Main] = "none"
    /\ log' = "closed" /\ pc' = [pc EXCEPT ![Main] = "gone"]
    /\ misused' = (misused \/ \E t \in Threads : pc[t] \in {"wait", "write"})
    /\ UNCHANGED <<handler, blocked, cut, log_sem, lines, signals>>
\* log_close, registered first and thus the last function exit() calls.
Close ==
    /\ pc[Main] = "out" /\ handler[Main] = "none" /\ \A t \in Joined : pc[t] = "gone"
    /\ log' = "closed" /\ pc' = [pc EXCEPT ![Main] = "gone"]
    /\ misused' = (misused \/ \E t \in Threads : pc[t] \in {"wait", "write"})
    /\ UNCHANGED <<handler, blocked, cut, log_sem, lines, signals>>

Steps(t) == Enter(t) \/ Leave(t) \/ HandlerEnter(t) \/ HandlerLeave(t)
Next == Close \/ \E t \in Threads : Call(t) \/ Steps(t) \/ Signal(t) \/ End(t)

\* A thread that can run goes on; nobody has to write another line, to end or to leave.
Spec == Init /\ [][Next]_vars /\ \A t \in Threads : WF_vars(Steps(t))

-----------------------------------------------------------------------------
(* Properties *)

TypeInvariant ==
    /\ pc \in [Threads -> {"out", "wait", "write", "gone"}] /\ log \in {"open", "closed"}
    /\ handler \in [Threads -> {"none", "wait", "write"}] /\ blocked \in [Threads -> BOOLEAN]
    /\ cut \in BOOLEAN
    /\ log_sem \in Nat /\ misused \in BOOLEAN
    /\ lines \in [Threads -> 0..MaxLines] /\ signals \in 0..MaxSignals

\* While no wait for the semaphore was cut short, the parts of a line stay together: one
\* thread at a time is between sem_wait and sem_post, its handler included.
OneWriter ==
    /\ \A t, u \in Threads : pc[t] = "write" /\ pc[u] = "write" => t = u
    /\ \A t, u \in Threads : ~(handler[t] = "write" /\ pc[u] = "write")
UndisturbedWriter == ~cut => OneWriter

\* Every call returns, unless a handler waits for the semaphore its own thread holds.
Stuck == \E u \in Threads : pc[u] = "write" /\ handler[u] = "wait"
Waits(t) == pc[t] = "wait"
ReturnedOrStuck(t) == pc[t] = "out" \/ Stuck
LogReturns == \A t \in Threads : Waits(t) ~> ReturnedOrStuck(t)

\* Nobody is in __log, and nobody calls it, after log_close has closed the file, once all
\* other threads are joined.
NoLogAfterClose == ~misused

\* The semaphore is free only while nobody writes, and two handlers do not write at once.
Token ==
    /\ log_sem > 0 => log_sem = 1 /\ \A t \in Threads : pc[t] # "write" /\ handler[t] # "write"
    /\ \A t, u \in Threads : handler[t] = "write" /\ handler[u] = "write" => t = u
    /\ OneWriter
UndisturbedToken == ~cut => Token

\* A thread that has ended is in no handler, and the log is closed after all have.
ClosedLast ==
    /\ \A t \in Threads : pc[t] = "gone" => handler[t] = "none"
    /\ log = "closed" => \A t \in Threads : pc[t] = "gone"
    /\ ~misused

\* log.h: __log `is synchronized internally and therefore may be called by several threads'.
LinesApart == OneWriter
CallReturns == \A t \in Threads : Waits(t) ~> pc[t] = "out"
\* log.h: `Calling _log() [...] after log_close() does not have any effect.'
LateCallsIgnored == NoLogAfterClose
=============================================================================
