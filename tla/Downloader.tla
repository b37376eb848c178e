----------------------------- MODULE Downloader -----------------------------
(***************************************************************************)
(* The download queue and its worker threads (src/src/downloader.c).       *)
(*                                                                         *)
(* downloader_queue_buffer() links a download at the end of a list and     *)
(* posts have_url; a worker waits for have_url, checks terminate, unlinks  *)
(* the first download without looking whether there is one, and fetches it. *)
(* sem_url_queue guards the list.  downloader_finalize() sets terminate,   *)
(* posts have_url once per worker and joins the workers.                   *)
(*                                                                         *)
(* The list is the program's: head, tail and a next pointer per download.  *)
(* What a worker receives is counted in chunks; what the bytes mean to a   *)
(* reader is the subject of the module Stream.                             *)
(***************************************************************************)
EXTENDS Integers, Sequences, FiniteSets

CONSTANTS
    Main,       \* the thread that calls exit()
    Others,     \* the other threads that queue downloads (the play thread)
    Workers,    \* the download threads that could be started
    Downloads,  \* bound: the downloads queued in a behaviour
    Lengths,    \* contents' lengths, in chunks
    NULL

Clients == {Main} \cup Others

ASSUME ThreadsAssumption ==
    /\ Main \notin Others /\ Workers \cap Clients = {}
    /\ IsFiniteSet(Workers) /\ Workers # {} /\ IsFiniteSet(Others)
ASSUME DataAssumption ==
    /\ NULL \notin Downloads \cup Clients \cup Workers /\ Lengths \subseteq Nat
    /\ IsFiniteSet(Downloads)

VARIABLES
    haveUrl,    \* value of have_url
    lock,       \* the thread that holds sem_url_queue, or NULL
    head, tail, \* the list
    next,       \* next[d]: d->next
    terminate,
    cpc,        \* where each client is
    wpc,        \* where each worker is
    new,        \* the download a client is queueing (new_dl)
    my,         \* the download a worker has (my)
    left,       \* chunks the worker has still to receive (remaining)
    used        \* downloads that have been created

list == <<head, tail, next>>
vars == <<haveUrl, lock, head, tail, next, terminate, cpc, wpc, new, my, left, used>>

Init ==
    /\ haveUrl = 0 /\ lock = NULL /\ terminate = FALSE
    /\ head = NULL /\ tail = NULL /\ next = [d \in Downloads |-> NULL]
    /\ cpc = [c \in Clients |-> "idle"] /\ new = [c \in Clients |-> NULL]
    /\ wpc = [w \in Workers |-> "loop"] /\ my = [w \in Workers |-> NULL]
    /\ left = [w \in Workers |-> 0]
    /\ used = {}

-----------------------------------------------------------------------------
(* downloader_queue_buffer and download_enqueue *)

ClientAt(c, from, to) ==
    cpc[c] = from /\ cpc' = [cpc EXCEPT ![c] = to]

\* Allocate the download; the threads other than Main are joined before terminate.
QueueBuffer(c) ==
    /\ ~terminate
    /\ \E d \in Downloads \ used :
        /\ new' = [new EXCEPT ![c] = d]
        /\ used' = used \cup {d}
    /\ ClientAt(c, "idle", "lock")
    /\ UNCHANGED <<haveUrl, lock, list, terminate, wpc, my, left>>

\* Mutated form: the list is changed without its semaphore.
EnqueueNoLock(c) ==
    /\ ClientAt(c, "lock", "link")
    /\ UNCHANGED <<haveUrl, lock, list, terminate, wpc, new, my, left, used>>

EnqueueLock(c) ==
    /\ lock = NULL
    /\ ClientAt(c, "lock", "link")
    /\ lock' = c
    /\ UNCHANGED <<haveUrl, list, terminate, wpc, new, my, left, used>>

\* if(tail) tail->next = dl; else head = dl;
EnqueueLink(c) ==
    /\ ClientAt(c, "link", "tail")
    /\ IF tail # NULL
       THEN next' = [next EXCEPT ![tail] = new[c]] /\ UNCHANGED head
       ELSE head' = new[c] /\ UNCHANGED next
    /\ UNCHANGED <<haveUrl, lock, tail, terminate, wpc, new, my, left, used>>

\* tail = dl; sem_post(&sem_url_queue)
EnqueueTail(c) ==
    /\ ClientAt(c, "tail", "post")
    /\ tail' = new[c] /\ lock' = NULL
    /\ UNCHANGED <<haveUrl, head, next, terminate, wpc, new, my, left, used>>

\* Mutated form: the post comes only with the first download of an empty list.
EnqueuePostFirst(c) ==
    /\ ClientAt(c, "post", "idle")
    /\ haveUrl' = IF head = new[c] THEN haveUrl + 1 ELSE haveUrl
    /\ new' = [new EXCEPT ![c] = NULL]
    /\ UNCHANGED <<lock, list, terminate, wpc, my, left, used>>

EnqueuePost(c) ==
    /\ ClientAt(c, "post", "idle")
    /\ haveUrl' = haveUrl + 1
    /\ new' = [new EXCEPT ![c] = NULL]
    /\ UNCHANGED <<lock, list, terminate, wpc, my, left, used>>

-----------------------------------------------------------------------------
(* _download_thread *)

WorkerAt(w, from, to) ==
    wpc[w] = from /\ wpc' = [wpc EXCEPT ![w] = to]

\* while(!terminate)
WorkerLoop(w) ==
    /\ WorkerAt(w, "loop", IF terminate THEN "exited" ELSE "wait")
    /\ UNCHANGED <<haveUrl, lock, list, terminate, cpc, new, my, left, used>>

\* Mutated form: the wait does not block.
WorkerWaitOpen(w) ==
    /\ WorkerAt(w, "wait", "check")
    /\ haveUrl' = haveUrl - 1
    /\ UNCHANGED <<lock, list, terminate, cpc, new, my, left, used>>

WorkerWait(w) ==
    /\ haveUrl > 0
    /\ WorkerAt(w, "wait", "check")
    /\ haveUrl' = haveUrl - 1
    /\ UNCHANGED <<lock, list, terminate, cpc, new, my, left, used>>

\* Mutated form: terminate is not looked at after the wait.
WorkerNoCheck(w) ==
    /\ WorkerAt(w, "check", "lock")
    /\ UNCHANGED <<haveUrl, lock, list, terminate, cpc, new, my, left, used>>

\* if(terminate) return NULL;
WorkerCheck(w) ==
    /\ WorkerAt(w, "check", IF terminate THEN "exited" ELSE "lock")
    /\ UNCHANGED <<haveUrl, lock, list, terminate, cpc, new, my, left, used>>

DequeueLock(w) ==
    /\ lock = NULL
    /\ WorkerAt(w, "lock", "head")
    /\ lock' = w
    /\ UNCHANGED <<haveUrl, list, terminate, cpc, new, my, left, used>>

\* dl = head; head = dl->next.  The program reads through a null pointer here if
\* the list is empty.
DequeueHead(w) ==
    /\ head # NULL
    /\ WorkerAt(w, "head", "tail")
    /\ my' = [my EXCEPT ![w] = head]
    /\ head' = next[head]
    /\ UNCHANGED <<haveUrl, lock, tail, next, terminate, cpc, new, left, used>>

\* Mutated form: tail keeps pointing at the download that was unlinked.
DequeueKeepTail(w) ==
    /\ WorkerAt(w, "tail", "connect")
    /\ lock' = NULL
    /\ UNCHANGED <<haveUrl, list, terminate, cpc, new, my, left, used>>

\* if(dl == tail) tail = NULL; sem_post(&sem_url_queue)
DequeueTail(w) ==
    /\ WorkerAt(w, "tail", "connect")
    /\ tail' = IF my[w] = tail THEN NULL ELSE tail
    /\ lock' = NULL
    /\ UNCHANGED <<haveUrl, head, next, terminate, cpc, new, my, left, used>>

\* The two requests are answered; the buffer has the content's length.
Connect(w) ==
    /\ WorkerAt(w, "connect", "ends")
    /\ \E n \in Lengths : left' = [left EXCEPT ![w] = n]
    /\ UNCHANGED <<haveUrl, lock, list, terminate, cpc, new, my, used>>

\* The content's last bytes arrive; this loop does not look at terminate.
RecvEnd(w) ==
    /\ WorkerAt(w, "ends", "fetch")
    /\ UNCHANGED <<haveUrl, lock, list, terminate, cpc, new, my, left, used>>

\* while(remaining && !terminate)
FetchLoop(w) ==
    /\ WorkerAt(w, "fetch", IF left[w] > 0 /\ ~terminate THEN "recv" ELSE "finish")
    /\ UNCHANGED <<haveUrl, lock, list, terminate, cpc, new, my, left, used>>

RecvChunk(w) ==
    /\ WorkerAt(w, "recv", "fetch")
    /\ left' = [left EXCEPT ![w] = @ - 1]
    /\ UNCHANGED <<haveUrl, lock, list, terminate, cpc, new, my, used>>

\* disconnect, clear FLAG_DOWNLOADING, free(my)
Finish(w) ==
    /\ WorkerAt(w, "finish", "loop")
    /\ my' = [my EXCEPT ![w] = NULL]
    /\ UNCHANGED <<haveUrl, lock, list, terminate, cpc, new, left, used>>

-----------------------------------------------------------------------------
(* downloader_finalize, run by exit() after the play thread has been joined *)

Finalize ==
    /\ \A c \in Others : cpc[c] = "idle"
    /\ ClientAt(Main, "idle", "post_exit")
    /\ terminate' = TRUE
    /\ UNCHANGED <<haveUrl, lock, list, wpc, new, my, left, used>>

\* Mutated form: one post for all the workers.
FinalizePostOnce ==
    /\ ClientAt(Main, "post_exit", "join")
    /\ haveUrl' = haveUrl + 1
    /\ UNCHANGED <<lock, list, terminate, wpc, new, my, left, used>>

\* One post per worker; the posts commute with everything the workers do.
FinalizePost ==
    /\ ClientAt(Main, "post_exit", "join")
    /\ haveUrl' = haveUrl + Cardinality(Workers)
    /\ UNCHANGED <<lock, list, terminate, wpc, new, my, left, used>>

FinalizeJoin ==
    /\ \A w \in Workers : wpc[w] = "exited"
    /\ ClientAt(Main, "join", "done")
    /\ UNCHANGED <<haveUrl, lock, list, terminate, wpc, new, my, left, used>>

-----------------------------------------------------------------------------
Enqueue(c) == EnqueueLock(c) \/ EnqueueLink(c) \/ EnqueueTail(c) \/ EnqueuePost(c)
Dequeue(w) == WorkerLoop(w) \/ WorkerWait(w) \/ WorkerCheck(w) \/ DequeueLock(w)
              \/ DequeueHead(w) \/ DequeueTail(w)
Fetch(w) == Connect(w) \/ RecvEnd(w) \/ FetchLoop(w) \/ RecvChunk(w) \/ Finish(w)

Next ==
    \/ \E c \in Clients : QueueBuffer(c) \/ Enqueue(c)
    \/ \E w \in Workers : Dequeue(w) \/ Fetch(w)
    \/ Finalize \/ FinalizePost \/ FinalizeJoin

Spec == Init /\ [][Next]_vars

\* Every thread that can run runs, the server answers and sends what it announced,
\* and sem_url_queue is held for a few instructions only, so that a thread that
\* waits for it gets it.
Fairness ==
    /\ \A c \in Clients : WF_vars(Enqueue(c)) /\ SF_vars(EnqueueLock(c))
    /\ \A w \in Workers : WF_vars(Dequeue(w)) /\ SF_vars(DequeueLock(w)) /\ WF_vars(Fetch(w))
    /\ WF_vars(FinalizePost) /\ WF_vars(FinalizeJoin)

FairSpec == Spec /\ Fairness

-----------------------------------------------------------------------------
TypeInvariant ==
    /\ haveUrl \in Nat /\ terminate \in BOOLEAN
    /\ lock \in Clients \cup Workers \cup {NULL}
    /\ head \in Downloads \cup {NULL} /\ tail \in Downloads \cup {NULL}
    /\ next \in [Downloads -> Downloads \cup {NULL}]
    /\ cpc \in [Clients -> {"idle", "lock", "link", "tail", "post",
                            "post_exit", "join", "done"}]
    /\ wpc \in [Workers -> {"loop", "wait", "check", "lock", "head", "tail", "connect",
                            "ends", "fetch", "recv", "finish", "exited"}]
    /\ new \in [Clients -> Downloads \cup {NULL}]
    /\ my \in [Workers -> Downloads \cup {NULL}]
    /\ left \in [Workers -> Nat]
    /\ used \subseteq Downloads

\* A worker that goes on to unlink a download finds one: the posts of have_url it and
\* the other workers have used up never exceed the downloads linked, and the posts of
\* downloader_finalize never let a worker through.
DequeueFindsDownload == \A w \in Workers : wpc[w] = "head" => head # NULL

\* The two ends and the pointers are a queue: what follows from head through next joins
\* at the end, leaves at the front, and is with one worker, who does it once; no download
\* drops out of the list, comes twice or overtakes another.
Asked == {new[c] : c \in {b \in Clients : cpc[b] \in {"lock", "link"}}}
Behind[n \in 0..Cardinality(Downloads)] ==
    IF n = 0 THEN head
    ELSE IF Behind[n - 1] = NULL THEN NULL ELSE next[Behind[n - 1]]
Linked == [n \in 1..Cardinality({k \in 0..Cardinality(Downloads) - 1 : Behind[k] # NULL}) |->
              Behind[n - 1]]
Done == {d \in used \ Asked : /\ \A n \in DOMAIN Linked : Linked[n] # d
                              /\ \A w \in Workers : my[w] # d}
AsQueue == INSTANCE DownloadQueue WITH Items <- Downloads, Servers <- Workers,
               Nothing <- NULL, asked <- Asked, waiting <- Linked, held <- my, served <- Done
ImplementsQueue == AsQueue!Spec

\* A queued download is given to a worker, unless the program is left first.
Queued(d) == \E n \in DOMAIN Linked : Linked[n] = d
EveryDownloadTaken == \A d \in Downloads : Queued(d) ~> (~Queued(d) \/ terminate)

\* downloader_finalize returns: every worker is woken, notices terminate and ends.
FinalizeReturns == terminate ~> cpc[Main] = "done"
=============================================================================
