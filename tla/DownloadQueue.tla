---------------------------- MODULE DownloadQueue ----------------------------
(***************************************************************************)
(* What src/src/downloader.c promises its callers: a download that is      *)
(* asked for joins the end of one queue, leaves it at the front, is with   *)
(* one worker at a time, and is done once.  Semaphores, the pointers of    *)
(* the list and the order in which workers are woken do not appear.        *)
(***************************************************************************)
EXTENDS Sequences

CONSTANTS
    Items,    \* downloads
    Servers,  \* workers
    Nothing   \* what a worker has that has no download

VARIABLES
    asked,    \* downloads asked for that are not in the queue yet
    waiting,  \* the queue
    held,     \* held[s]: the download worker s has
    served    \* downloads a worker has finished

vars == <<asked, waiting, held, served>>

Init ==
    /\ asked = {} /\ waiting = <<>> /\ served = {}
    /\ held = [s \in Servers |-> Nothing]

Known(i) ==
    \/ i \in asked \cup served
    \/ \E n \in DOMAIN waiting : waiting[n] = i
    \/ \E s \in Servers : held[s] = i

Ask(i) ==
    /\ ~Known(i)
    /\ asked' = asked \cup {i}
    /\ UNCHANGED <<waiting, held, served>>

Join(i) ==
    /\ i \in asked
    /\ asked' = asked \ {i} /\ waiting' = Append(waiting, i)
    /\ UNCHANGED <<held, served>>

Take(s) ==
    /\ held[s] = Nothing /\ waiting # <<>>
    /\ held' = [held EXCEPT ![s] = Head(waiting)] /\ waiting' = Tail(waiting)
    /\ UNCHANGED <<asked, served>>

Serve(s) ==
    /\ held[s] # Nothing
    /\ served' = served \cup {held[s]} /\ held' = [held EXCEPT ![s] = Nothing]
    /\ UNCHANGED <<asked, waiting>>

Next == (\E i \in Items : Ask(i) \/ Join(i)) \/ (\E s \in Servers : Take(s) \/ Serve(s))

Spec == Init /\ [][Next]_vars
=============================================================================
