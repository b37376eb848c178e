-------------------------- MODULE DownloaderProofs --------------------------
(***************************************************************************)
(* The download queue with any number of threads, workers and downloads:   *)
(* the list is changed by one thread at a time, head, next and tail stay   *)
(* one list, a worker that goes on to unlink a download finds one, and     *)
(* the whole implements the queue of DownloadQueue.                        *)
(***************************************************************************)
EXTENDS Downloader, FiniteSetTheorems, SequenceTheorems, WellFoundedInduction, TLAPS

\* The types, and that a worker waits for a chunk only if one is missing.
Types ==
    /\ TypeInvariant
    /\ \A w \in Workers : wpc[w] = "recv" => left[w] > 0

\* The types hold at the start, ...
LEMMA TypesFirst == Init => Types
<1> SUFFICES ASSUME Init PROVE Types
  OBVIOUS
<1>1. /\ haveUrl \in Nat /\ terminate \in BOOLEAN /\ lock \in Clients \cup Workers \cup {NULL}
      /\ head \in Downloads \cup {NULL} /\ tail \in Downloads \cup {NULL}
      /\ used \subseteq Downloads
  BY DEF Init
<1>2. next \in [Downloads -> Downloads \cup {NULL}]
  BY DEF Init
<1>3. /\ new \in [Clients -> Downloads \cup {NULL}]
      /\ cpc \in [Clients -> {"idle", "lock", "link", "tail", "post",
                              "post_exit", "join", "done"}]
  BY DEF Init
<1>4. /\ my \in [Workers -> Downloads \cup {NULL}]
      /\ wpc \in [Workers -> {"loop", "wait", "check", "lock", "head", "tail", "connect",
                              "ends", "fetch", "recv", "finish", "exited"}]
      /\ \A w \in Workers : wpc[w] = "recv" => left[w] > 0
  BY DEF Init
<1>5. left \in [Workers -> Nat]
  BY DEF Init
<1> QED
  BY <1>1, <1>2, <1>3, <1>4, <1>5 DEF Types, TypeInvariant

\* ... and every step keeps them.
LEMMA TypesKept == ASSUME Types, [Next]_vars PROVE Types'
<1> USE ThreadsAssumption, DataAssumption DEF Types, TypeInvariant, ClientAt, WorkerAt, list
<1>1. ASSUME NEW c \in Clients, QueueBuffer(c) PROVE Types'
  BY <1>1 DEF QueueBuffer
<1>2. ASSUME NEW c \in Clients, EnqueueLock(c) PROVE Types'
  BY <1>2 DEF EnqueueLock
<1>3. ASSUME NEW c \in Clients, EnqueueLink(c) PROVE Types'
  BY <1>3 DEF EnqueueLink
<1>4. ASSUME NEW c \in Clients, EnqueueTail(c) PROVE Types'
  BY <1>4 DEF EnqueueTail
<1>5. ASSUME NEW c \in Clients, EnqueuePost(c) PROVE Types'
  BY <1>5 DEF EnqueuePost
<1>6. ASSUME NEW w \in Workers, WorkerLoop(w) \/ WorkerCheck(w) PROVE Types'
  BY <1>6 DEF WorkerLoop, WorkerCheck
<1>7. ASSUME NEW w \in Workers, WorkerWait(w) PROVE Types'
  BY <1>7 DEF WorkerWait
<1>8. ASSUME NEW w \in Workers, DequeueLock(w) PROVE Types'
  BY <1>8 DEF DequeueLock
<1>9. ASSUME NEW w \in Workers, DequeueHead(w) PROVE Types'
  BY <1>9 DEF DequeueHead
<1>10. ASSUME NEW w \in Workers, DequeueTail(w) PROVE Types'
  BY <1>10 DEF DequeueTail
<1>11. ASSUME NEW w \in Workers, Connect(w) PROVE Types'
  BY <1>11 DEF Connect
<1>12. ASSUME NEW w \in Workers, RecvEnd(w) \/ Finish(w) PROVE Types'
  BY <1>12 DEF RecvEnd, Finish
<1>13. ASSUME NEW w \in Workers, FetchLoop(w) PROVE Types'
  BY <1>13 DEF FetchLoop
<1>14. ASSUME NEW w \in Workers, RecvChunk(w) PROVE Types'
  BY <1>14 DEF RecvChunk
<1>15. CASE Finalize
  BY <1>15 DEF Finalize, Clients
<1>16. CASE FinalizePost
  <2>1. Cardinality(Workers) \in Nat
    BY FS_CardinalityType
  <2> QED
    BY <1>16, <2>1 DEF FinalizePost, Clients
<1>17. CASE FinalizeJoin
  BY <1>17 DEF FinalizeJoin, Clients
<1>18. CASE UNCHANGED vars
  BY <1>18 DEF vars
<1> QED
  BY <1>1, <1>2, <1>3, <1>4, <1>5, <1>6, <1>7, <1>8, <1>9, <1>10, <1>11, <1>12, <1>13,
     <1>14, <1>15, <1>16, <1>17, <1>18 DEF Next, Enqueue, Dequeue, Fetch

\* Every variable of Downloader keeps to its type: have_url and the chunks a worker waits
\* for are never negative, head, tail and next name downloads.
THEOREM TypeCorrect == Spec => []TypeInvariant
<1>1. Types => TypeInvariant
  BY DEF Types
<1> QED
  BY <1>1, TypesFirst, TypesKept, PTL DEF Spec

-----------------------------------------------------------------------------
(* sem_url_queue *)

\* Who changes the list holds sem_url_queue.
Locked ==
    /\ \A c \in Clients : cpc[c] \in {"link", "tail"} => lock = c
    /\ \A w \in Workers : wpc[w] \in {"head", "tail"} => lock = w

\* Every step keeps it, as each changes of the list what its thread has the lock for.
LEMMA LockKept == ASSUME TypeInvariant, Locked, [Next]_vars PROVE Locked'
<1> USE ThreadsAssumption, DataAssumption DEF TypeInvariant, Locked, ClientAt, WorkerAt, list
<1>1. ASSUME NEW c \in Clients, QueueBuffer(c) \/ EnqueuePost(c) PROVE Locked'
  BY <1>1 DEF QueueBuffer, EnqueuePost
<1>2. ASSUME NEW c \in Clients, EnqueueLock(c) PROVE Locked'
  BY <1>2 DEF EnqueueLock
<1>3. ASSUME NEW c \in Clients, EnqueueLink(c) PROVE Locked'
  BY <1>3 DEF EnqueueLink
<1>4. ASSUME NEW c \in Clients, EnqueueTail(c) PROVE Locked'
  BY <1>4 DEF EnqueueTail
<1>5. ASSUME NEW w \in Workers, WorkerLoop(w) \/ WorkerWait(w) \/ WorkerCheck(w) PROVE Locked'
  BY <1>5 DEF WorkerLoop, WorkerWait, WorkerCheck
<1>6. ASSUME NEW w \in Workers, DequeueLock(w) PROVE Locked'
  BY <1>6 DEF DequeueLock
<1>7. ASSUME NEW w \in Workers, DequeueHead(w) PROVE Locked'
  BY <1>7 DEF DequeueHead
<1>8. ASSUME NEW w \in Workers, DequeueTail(w) PROVE Locked'
  BY <1>8 DEF DequeueTail
<1>9. ASSUME NEW w \in Workers, Fetch(w) PROVE Locked'
  BY <1>9 DEF Fetch, Connect, RecvEnd, FetchLoop, RecvChunk, Finish
<1>10. CASE Finalize \/ FinalizePost \/ FinalizeJoin
  BY <1>10 DEF Finalize, FinalizePost, FinalizeJoin, Clients
<1>11. CASE UNCHANGED vars
  BY <1>11 DEF vars
<1> QED
  BY <1>1, <1>2, <1>3, <1>4, <1>5, <1>6, <1>7, <1>8, <1>9, <1>10, <1>11
  DEF Next, Enqueue, Dequeue

-----------------------------------------------------------------------------
(* The list *)

\* The downloads that are linked, in order: q[1] is head, q[n] the last.
Chained(n, q) ==
    /\ head = IF n = 0 THEN NULL ELSE q[1]
    /\ \A i \in 1..n : next[q[i]] = IF i < n THEN q[i + 1] ELSE NULL
    /\ \A i, j \in 1..n : q[i] = q[j] => i = j

\* tail is the last one, except in the middle of a change.
TailIsLast(n, q) ==
    LET last(none) == IF n = 0 THEN none ELSE q[n] IN
    /\ \A c \in Clients : cpc[c] = "tail" => n > 0 /\ new[c] = q[n]
    /\ \A w \in Workers : wpc[w] = "tail" =>
          my[w] # NULL /\ (\A i \in 1..n : q[i] # my[w]) /\ tail = last(my[w])
    /\ (\A c \in Clients : cpc[c] # "tail") /\ (\A w \in Workers : wpc[w] # "tail")
         => tail = last(NULL)

\* A download not yet linked is not in the list and belongs to one client.
Fresh(n, q) ==
    /\ \A i \in 1..n : q[i] \in used
    /\ \A d \in Downloads \ used : next[d] = NULL
    /\ \A c \in Clients : cpc[c] \in {"lock", "link"} =>
          /\ new[c] \in used /\ next[new[c]] = NULL
          /\ \A i \in 1..n : q[i] # new[c]
          /\ \A b \in Clients \ {c} : cpc[b] \in {"lock", "link"} => new[b] # new[c]

IsList(n, q) == Chained(n, q) /\ TailIsLast(n, q) /\ Fresh(n, q)

\* Every linked download has one post of have_url that is to come, is there, or has let
\* a worker through; after terminate no further worker goes on to the list.
Checking == {w \in Workers : wpc[w] = "check"}
Taking == {w \in Workers : wpc[w] \in {"lock", "head"}}
Posting == {c \in Clients : cpc[c] \in {"tail", "post"}}
Counted(n) ==
    /\ ~terminate => haveUrl + Cardinality(Checking) + Cardinality(Taking)
                        + Cardinality(Posting) = n
    /\ Cardinality(Taking) <= n
    /\ terminate => \A c \in Clients : cpc[c] \in {"idle", "post_exit", "join", "done"}
    /\ \A c \in Clients : cpc[c] \in {"post_exit", "join", "done"} => terminate

Sound(n, q) == IsList(n, q) /\ Counted(n)
ListInv == \E n \in Nat : \E q \in [1..n -> Downloads] : Sound(n, q)

Inv == Types /\ Locked /\ ListInv

\* The counts are numbers.
LEMMA Counts ==
    /\ Cardinality(Checking) \in Nat /\ Cardinality(Taking) \in Nat
    /\ Cardinality(Posting) \in Nat
<1>1. IsFiniteSet(Clients)
  BY ThreadsAssumption, FS_AddElement DEF Clients
<1>2. IsFiniteSet(Checking) /\ IsFiniteSet(Taking) /\ IsFiniteSet(Posting)
  BY <1>1, ThreadsAssumption, FS_Subset DEF Checking, Taking, Posting
<1> QED
  BY <1>2, FS_CardinalityType

\* A worker that joins or leaves one of the sets, or a client, changes its size by one.
LEMMA CountChecking == ASSUME NEW w \in Workers PROVE
    /\ w \in Checking /\ Checking' = Checking \ {w}
         => Cardinality(Checking') = Cardinality(Checking) - 1
    /\ w \notin Checking /\ Checking' = Checking \cup {w}
         => Cardinality(Checking') = Cardinality(Checking) + 1
<1>1. IsFiniteSet(Checking)
  BY ThreadsAssumption, FS_Subset DEF Checking
<1> QED
  BY <1>1, FS_AddElement, FS_RemoveElement

\* A worker that begins or ends taking a download changes the number of those by one.
LEMMA CountTaking == ASSUME NEW w \in Workers PROVE
    /\ w \in Taking /\ Taking' = Taking \ {w}
         => Cardinality(Taking') = Cardinality(Taking) - 1
    /\ w \notin Taking /\ Taking' = Taking \cup {w}
         => Cardinality(Taking') = Cardinality(Taking) + 1
<1>1. IsFiniteSet(Taking)
  BY ThreadsAssumption, FS_Subset DEF Taking
<1> QED
  BY <1>1, FS_AddElement, FS_RemoveElement

\* Likewise a client that posts.
LEMMA CountPosting == ASSUME NEW c \in Clients PROVE
    /\ c \in Posting /\ Posting' = Posting \ {c}
         => Cardinality(Posting') = Cardinality(Posting) - 1
    /\ c \notin Posting /\ Posting' = Posting \cup {c}
         => Cardinality(Posting') = Cardinality(Posting) + 1
<1>1. IsFiniteSet(Posting)
  <2>1. IsFiniteSet(Clients)
    BY ThreadsAssumption, FS_AddElement DEF Clients
  <2> QED
    BY <2>1, FS_Subset DEF Posting
<1> QED
  BY <1>1, FS_AddElement, FS_RemoveElement

\* Steps of threads that do not change the list.
LEMMA ListUntouched ==
    ASSUME NEW n \in Nat, NEW q \in [1..n -> Downloads], IsList(n, q),
           UNCHANGED <<head, tail, next, used>>,
           \A c \in Clients : /\ cpc'[c] = "tail" <=> cpc[c] = "tail"
                              /\ cpc'[c] \in {"lock", "link"} <=> cpc[c] \in {"lock", "link"}
                              /\ cpc[c] \in {"lock", "link", "tail"} => new'[c] = new[c],
           \A w \in Workers : /\ wpc'[w] = "tail" <=> wpc[w] = "tail"
                              /\ wpc[w] = "tail" => my'[w] = my[w]
    PROVE  IsList(n, q)'
<1>1. Chained(n, q)'
  BY DEF IsList, Chained
<1>2. TailIsLast(n, q)'
  BY DEF IsList, TailIsLast
<1>3. Fresh(n, q)'
  BY DEF IsList, Fresh
<1> QED
  BY <1>1, <1>2, <1>3 DEF IsList

\* Steps the counts do not speak of.
LEMMA ElsewhereKept ==
    ASSUME NEW n \in Nat, NEW q \in [1..n -> Downloads], Sound(n, q),
           UNCHANGED <<head, tail, next, used, new, terminate, haveUrl, cpc>>,
           UNCHANGED <<Checking, Taking, Posting>>,
           \A w \in Workers : wpc'[w] = "tail" <=> wpc[w] = "tail",
           \A w \in Workers : wpc[w] = "tail" => my'[w] = my[w]
    PROVE  Sound(n, q)'
<1>1. IsList(n, q)'
  BY ListUntouched DEF Sound
<1>2. Counted(n)'
  BY DEF Sound, Counted
<1> QED
  BY <1>1, <1>2 DEF Sound

\* One lemma for each action that moves a download or one of the counts.
LEMMA ListKeptLock ==
    ASSUME NEW n \in Nat, NEW q \in [1..n -> Downloads], Types, Sound(n, q),
           NEW c \in Clients, EnqueueLock(c)
    PROVE  Sound(n, q)'
<1> USE DEF EnqueueLock, ClientAt, Types, TypeInvariant
<1>1. IsList(n, q)'
  BY ListUntouched DEF Sound, list
<1>2. Counted(n)'
  BY DEF Sound, Counted, Checking, Taking, Posting
<1> QED
  BY <1>1, <1>2 DEF Sound

\* downloader_queue_buffer: a new download does not touch the list.
LEMMA ListKeptQueueBuffer ==
    ASSUME NEW n \in Nat, NEW q \in [1..n -> Downloads], Types, Sound(n, q),
           NEW c \in Clients, QueueBuffer(c)
    PROVE  Sound(n, q)'
<1> USE DEF Types, TypeInvariant, Sound, IsList, QueueBuffer, ClientAt, list
<1>1. PICK d \in Downloads \ used :
        new' = [new EXCEPT ![c] = d] /\ used' = used \cup {d}
  OBVIOUS
<1>2. Chained(n, q)'
  BY DEF Chained
<1>3. TailIsLast(n, q)'
  BY <1>1 DEF TailIsLast
<1>4. Fresh(n, q)'
  BY <1>1 DEF Fresh
<1>5. Counted(n)'
  BY DEF Counted, Checking, Taking, Posting
<1> QED
  BY <1>2, <1>3, <1>4, <1>5

\* downloader_queue_buffer: the download is linked behind the last one.
LEMMA ListKeptLink ==
    ASSUME NEW n \in Nat, NEW q \in [1..n -> Downloads], Types, Locked, Sound(n, q),
           NEW c \in Clients, EnqueueLink(c)
    PROVE  \E x \in Downloads :
              x = new[c] /\ Sound(n + 1, [i \in 1..n + 1 |-> IF i = n + 1 THEN x ELSE q[i]])'
<1> USE DEF Types, TypeInvariant, Sound, IsList, EnqueueLink, ClientAt
<1>1. /\ \A b \in Clients : cpc[b] # "tail"
      /\ \A w \in Workers : wpc[w] # "tail"
      /\ tail = IF n = 0 THEN NULL ELSE q[n]
  BY ThreadsAssumption DEF Locked, TailIsLast
<1>2. PICK x \in used : x = new[c] /\ next[x] = NULL /\ \A i \in 1..n : q[i] # x
  BY DEF Fresh
<1> DEFINE m == n + 1
           p == [i \in 1..m |-> IF i = m THEN x ELSE q[i]]
<1>3. p \in [1..m -> Downloads] /\ m \in Nat
  BY <1>2
<1>4. Chained(m, p)'
  <2>1. CASE n = 0
    BY <2>1, <1>1, <1>2 DEF Chained
  <2>2. CASE n > 0
    <3>1. /\ tail = q[n] /\ tail # NULL /\ UNCHANGED head
          /\ next' = [next EXCEPT ![q[n]] = x]
      BY <2>2, <1>1, <1>2, DataAssumption
    <3>2. \A i \in 1..m : next'[p[i]] = IF i < m THEN p[i + 1] ELSE NULL
      BY <2>2, <3>1, <1>2 DEF Chained
    <3>3. \A i, j \in 1..m : p[i] = p[j] => i = j
      BY <1>2 DEF Chained
    <3>4. head' = p[1]
      BY <2>2, <3>1 DEF Chained
    <3>5. m # 0
      OBVIOUS
    <3> HIDE DEF m, p
    <3> QED
      BY <3>2, <3>3, <3>4, <3>5 DEF Chained
  <2> QED
    BY <2>1, <2>2
<1>5. TailIsLast(m, p)'
  BY <1>1, <1>2 DEF TailIsLast
<1>6. Fresh(m, p)'
  <2>1. \A d \in Downloads : d # tail => next'[d] = next[d]
    OBVIOUS
  <2>2. tail # NULL => tail \in used /\ \E i \in 1..n : tail = q[i]
    BY <1>1 DEF Fresh
  <2> QED
    BY <1>2, <2>1, <2>2, DataAssumption DEF Fresh
<1>7. Counted(m)'
  <2>1. ~terminate /\ UNCHANGED <<haveUrl, terminate, wpc>>
    BY DEF Counted
  <2>2. c \notin Posting /\ Posting' = Posting \cup {c}
    BY DEF Posting
  <2>3. UNCHANGED <<Checking, Taking>>
    BY DEF Checking, Taking
  <2>4. Cardinality(Posting') = Cardinality(Posting) + 1
    BY <2>2, CountPosting
  <2>5. \A b \in Clients : cpc'[b] \notin {"post_exit", "join", "done"}
    BY <2>1 DEF Counted
  <2>6. /\ Cardinality(Checking') = Cardinality(Checking)
        /\ Cardinality(Taking') = Cardinality(Taking)
    BY <2>3
  <2>7. /\ haveUrl + Cardinality(Checking) + Cardinality(Taking) + Cardinality(Posting) = n
        /\ Cardinality(Taking) <= n
    BY <2>1 DEF Counted
  <2>8. /\ haveUrl' + Cardinality(Checking') + Cardinality(Taking') + Cardinality(Posting') = m
        /\ Cardinality(Taking') <= m
    BY <2>1, <2>4, <2>6, <2>7, Counts
  <2> QED
    BY <2>1, <2>5, <2>8 DEF Counted
<1>8. Sound(m, p)'
  <2> HIDE DEF m, p
  <2> QED
    BY <1>4, <1>5, <1>6, <1>7
<1> HIDE DEF Sound
<1> QED
  BY <1>2, <1>8

\* downloader_queue_buffer: tail is moved to the download just linked.
LEMMA ListKeptTail ==
    ASSUME NEW n \in Nat, NEW q \in [1..n -> Downloads], Types, Locked, Sound(n, q),
           NEW c \in Clients, EnqueueTail(c)
    PROVE  Sound(n, q)'
<1> USE DEF EnqueueTail, ClientAt, Types, TypeInvariant
<1>1. Chained(n, q)'
  BY DEF Sound, IsList, Chained
<1>2. TailIsLast(n, q)'
  <2>1. /\ n > 0 /\ tail' = q[n]
        /\ \A w \in Workers : wpc[w] # "tail"
        /\ \A b \in Clients \ {c} : cpc[b] # "tail"
    BY ThreadsAssumption DEF Sound, IsList, TailIsLast, Locked
  <2> QED
    BY <2>1 DEF TailIsLast
<1>3. Fresh(n, q)'
  BY DEF Sound, IsList, Fresh
<1>4. Counted(n)'
  BY DEF Sound, Counted, Checking, Taking, Posting
<1> QED
  BY <1>1, <1>2, <1>3, <1>4 DEF Sound, IsList

\* downloader_queue_buffer: sem_post leaves the list alone.
LEMMA ListKeptPost ==
    ASSUME NEW n \in Nat, NEW q \in [1..n -> Downloads], Types, Sound(n, q),
           NEW c \in Clients, EnqueuePost(c)
    PROVE  Sound(n, q)'
<1> USE DEF EnqueuePost, ClientAt, Types, TypeInvariant
<1>1. IsList(n, q)'
  BY ListUntouched DEF Sound, list
<1>2. Counted(n)'
  <2>1. ~terminate /\ UNCHANGED terminate
    BY DEF Sound, Counted
  <2>2. c \in Posting /\ Posting' = Posting \ {c} /\ UNCHANGED <<Checking, Taking>>
    BY DEF Posting, Checking, Taking
  <2>3. /\ Cardinality(Posting') = Cardinality(Posting) - 1
        /\ Cardinality(Checking') = Cardinality(Checking)
        /\ Cardinality(Taking') = Cardinality(Taking)
    BY <2>2, CountPosting
  <2> QED
    BY <2>1, <2>3, Counts DEF Sound, Counted
<1> QED
  BY <1>1, <1>2 DEF Sound

\* thread_function: so does sem_wait, ...
LEMMA ListKeptWait ==
    ASSUME NEW n \in Nat, NEW q \in [1..n -> Downloads], Types, Sound(n, q),
           NEW w \in Workers, WorkerWait(w)
    PROVE  Sound(n, q)'
<1> USE DEF WorkerWait, WorkerAt, Types, TypeInvariant
<1>1. IsList(n, q)'
  BY ListUntouched DEF Sound, list
<1>2. Counted(n)'
  <2>1. w \notin Checking /\ Checking' = Checking \cup {w} /\ UNCHANGED <<Posting, Taking>>
    BY DEF Posting, Checking, Taking
  <2>2. /\ Cardinality(Checking') = Cardinality(Checking) + 1
        /\ Cardinality(Posting') = Cardinality(Posting)
        /\ Cardinality(Taking') = Cardinality(Taking)
    BY <2>1, CountChecking
  <2> QED
    BY <2>2, Counts DEF Sound, Counted
<1> QED
  BY <1>1, <1>2 DEF Sound

\* ... and so does the look at terminate.
LEMMA ListKeptCheck ==
    ASSUME NEW n \in Nat, NEW q \in [1..n -> Downloads], Types, Sound(n, q),
           NEW w \in Workers, WorkerCheck(w)
    PROVE  Sound(n, q)'
<1> USE DEF WorkerCheck, WorkerAt, Types, TypeInvariant
<1>1. IsList(n, q)'
  BY ListUntouched DEF Sound, list
<1>2. Counted(n)'
  <2>1. w \in Checking /\ Checking' = Checking \ {w} /\ UNCHANGED Posting
    BY DEF Posting, Checking
  <2>2. /\ Cardinality(Checking') = Cardinality(Checking) - 1
        /\ Cardinality(Posting') = Cardinality(Posting)
    BY <2>1, CountChecking
  <2>3. CASE terminate
    <3>1. UNCHANGED Taking
      BY <2>3 DEF Taking
    <3>2. UNCHANGED <<cpc, terminate>> /\ Cardinality(Taking') = Cardinality(Taking)
      BY <3>1
    <3>3. Counted(n)
      BY DEF Sound
    <3> HIDE DEF Types, TypeInvariant
    <3> QED
      BY <2>3, <3>2, <3>3 DEF Counted
  <2>4. CASE ~terminate
    <3>1. w \notin Taking /\ Taking' = Taking \cup {w}
      BY <2>4 DEF Taking
    <3>2. Cardinality(Taking') = Cardinality(Taking) + 1
      BY <3>1, CountTaking
    <3>3. UNCHANGED <<cpc, haveUrl, terminate>> /\ haveUrl \in Nat /\ Counted(n)
      BY DEF Sound
    <3>4. Cardinality(Checking') \in Nat
      <4>1. IsFiniteSet(Checking')
        BY ThreadsAssumption, FS_Subset DEF Checking
      <4> QED
        BY <4>1, FS_CardinalityType
    <3>5. ~terminate' /\ Cardinality(Taking') <= n
      <4> HIDE DEF Types, TypeInvariant, WorkerCheck, WorkerAt
      <4> QED
        BY <2>2, <2>4, <3>2, <3>3, <3>4, Counts DEF Counted
    <3>6. haveUrl' + Cardinality(Checking') + Cardinality(Taking') + Cardinality(Posting') = n
      <4> HIDE DEF Types, TypeInvariant, WorkerCheck, WorkerAt
      <4> QED
        BY <2>2, <2>4, <3>2, <3>3, <3>4, Counts DEF Counted
    <3> HIDE DEF Types, TypeInvariant, WorkerCheck, WorkerAt
    <3> QED
      BY <3>3, <3>5, <3>6 DEF Counted
  <2> QED
    BY <2>3, <2>4
<1> QED
  BY <1>1, <1>2 DEF Sound

\* thread_function: tail is cleared when the last download is taken.
LEMMA ListKeptUnlinkTail ==
    ASSUME NEW n \in Nat, NEW q \in [1..n -> Downloads], Types, Locked, Sound(n, q),
           NEW w \in Workers, DequeueTail(w)
    PROVE  Sound(n, q)'
<1> USE DEF DequeueTail, WorkerAt, Types, TypeInvariant
<1>1. Chained(n, q)'
  BY DEF Sound, IsList, Chained
<1>2. TailIsLast(n, q)'
  <2>1. /\ tail' = IF n = 0 THEN NULL ELSE q[n]
        /\ \A v \in Workers \ {w} : wpc[v] # "tail"
        /\ \A b \in Clients : cpc[b] # "tail"
    BY ThreadsAssumption DEF Sound, IsList, TailIsLast, Locked
  <2> QED
    BY <2>1 DEF TailIsLast
<1>3. Fresh(n, q)'
  BY DEF Sound, IsList, Fresh
<1>4. Counted(n)'
  BY DEF Sound, Counted, Checking, Taking, Posting
<1> QED
  BY <1>1, <1>2, <1>3, <1>4 DEF Sound, IsList

\* downloader_finalize leaves the list alone.
LEMMA ListKeptFinalize ==
    ASSUME NEW n \in Nat, NEW q \in [1..n -> Downloads], Types, Sound(n, q),
           Finalize \/ FinalizePost \/ FinalizeJoin
    PROVE  Sound(n, q)'
<1> USE DEF Finalize, FinalizePost, FinalizeJoin, ClientAt, Types, TypeInvariant, Clients
<1>1. IsList(n, q)'
  BY ListUntouched DEF Sound, list
<1>2. UNCHANGED <<Checking, Taking>>
  BY DEF Checking, Taking
<1>3. Counted(n)'
  BY <1>2 DEF Sound, Counted
<1> QED
  BY <1>1, <1>3 DEF Sound

\* thread_function: taking the head leaves the rest of the list in its order.
LEMMA ListKeptUnlink ==
    ASSUME NEW n \in Nat, NEW q \in [1..n -> Downloads], Types, Locked, Sound(n, q),
           NEW w \in Workers, DequeueHead(w)
    PROVE  Sound(n - 1, [i \in 1..n - 1 |-> q[i + 1]])'
<1> USE DEF Types, TypeInvariant, Sound, IsList, DequeueHead, WorkerAt
<1>1. /\ \A b \in Clients : cpc[b] # "tail"
      /\ \A v \in Workers : wpc[v] # "tail"
      /\ tail = IF n = 0 THEN NULL ELSE q[n]
  BY ThreadsAssumption DEF Locked, TailIsLast
<1>2. n > 0 /\ head = q[1]
  BY DEF Chained
<1> DEFINE m == n - 1
           p == [i \in 1..m |-> q[i + 1]]
<1>3. p \in [1..m -> Downloads] /\ m \in Nat
  BY <1>2
<1>4. Chained(m, p)'
  <2>1. head' = IF m = 0 THEN NULL ELSE p[1]
    <3>1. next[q[1]] = IF 1 < n THEN q[2] ELSE NULL
      <4>1. Chained(n, q) /\ 1 \in 1..n /\ 1 + 1 = 2
        BY <1>2
      <4> QED
        BY ONLY <4>1 DEF Chained
    <3>2. m = 0 \/ p[1] = q[2]
      BY <1>2
    <3> QED
      BY <1>2, <3>1, <3>2
  <2>2. \A i \in 1..m : next'[p[i]] = IF i < m THEN p[i + 1] ELSE NULL
    BY <1>2 DEF Chained
  <2>3. \A i, j \in 1..m : p[i] = p[j] => i = j
    BY <1>2 DEF Chained
  <2> HIDE DEF m, p
  <2> QED
    BY <2>1, <2>2, <2>3 DEF Chained
<1>5. TailIsLast(m, p)'
  <2>1. my'[w] = q[1] /\ q[1] \in Downloads
    BY <1>2
  <2>2. \A i \in 1..m : p[i] # q[1]
    <3>1. /\ Chained(n, q)
          /\ \A i \in 1..m : p[i] = q[i + 1] /\ i + 1 \in 1..n /\ i + 1 # 1 /\ 1 \in 1..n
      BY <1>2
    <3> QED
      BY ONLY <3>1 DEF Chained
  <2>3. tail' = IF m = 0 THEN q[1] ELSE p[m]
    BY <1>1, <1>2
  <2>4. /\ \A b \in Clients : cpc'[b] # "tail"
        /\ \A v \in Workers : wpc'[v] = "tail" <=> v = w
    BY <1>1
  <2> HIDE DEF m, p
  <2> QED
    BY <2>1, <2>2, <2>3, <2>4, DataAssumption DEF TailIsLast
<1>6. Fresh(m, p)'
  BY <1>2 DEF Fresh
<1>7. Counted(m)'
  <2>1. w \in Taking /\ Taking' = Taking \ {w} /\ UNCHANGED <<Checking, Posting>>
    BY DEF Taking, Checking, Posting
  <2>2. /\ Cardinality(Taking') = Cardinality(Taking) - 1
        /\ Cardinality(Checking') = Cardinality(Checking)
        /\ Cardinality(Posting') = Cardinality(Posting)
    BY <2>1, CountTaking
  <2>3. UNCHANGED <<cpc, haveUrl, terminate>> /\ haveUrl \in Nat /\ Counted(n)
    BY DEF list
  <2> HIDE DEF Types, TypeInvariant, Sound, IsList, DequeueHead, WorkerAt
  <2> QED
    BY <2>2, <2>3, Counts DEF Counted
<1> HIDE DEF m, p
<1>8. Sound(m, p)'
  BY <1>4, <1>5, <1>6, <1>7
<1> QED
  BY <1>8 DEF m, p

\* Each step keeps the list one that is linked from head to tail.
LEMMA ListKept == ASSUME Inv, [Next]_vars PROVE ListInv'
<1> USE DEF Inv
<1>0. PICK n \in Nat : \E q \in [1..n -> Downloads] : Sound(n, q)
  BY DEF ListInv
<1>1. PICK q \in [1..n -> Downloads] : Sound(n, q)
  BY <1>0
<1> SUFFICES ASSUME ~ListInv' PROVE Sound(n, q)'
  BY DEF ListInv
<1>2. ASSUME NEW c \in Clients, QueueBuffer(c) PROVE Sound(n, q)'
  BY <1>1, <1>2, ListKeptQueueBuffer
<1>3. ASSUME NEW c \in Clients, EnqueueLock(c) PROVE Sound(n, q)'
  BY <1>1, <1>3, ListKeptLock
<1>4. ASSUME NEW c \in Clients, EnqueueLink(c) PROVE FALSE
  <2>1. PICK x \in Downloads :
           Sound(n + 1, [i \in 1..n + 1 |-> IF i = n + 1 THEN x ELSE q[i]])'
    BY <1>1, <1>4, ListKeptLink
  <2>2. [i \in 1..n + 1 |-> IF i = n + 1 THEN x ELSE q[i]] \in [1..n + 1 -> Downloads]
    OBVIOUS
  <2> QED
    BY <2>1, <2>2 DEF ListInv
<1>5. ASSUME NEW c \in Clients, EnqueueTail(c) PROVE Sound(n, q)'
  BY <1>1, <1>5, ListKeptTail
<1>6. ASSUME NEW c \in Clients, EnqueuePost(c) PROVE Sound(n, q)'
  BY <1>1, <1>6, ListKeptPost
<1>7. ASSUME NEW w \in Workers, WorkerLoop(w) \/ DequeueLock(w) PROVE Sound(n, q)'
  <2>1. /\ UNCHANGED <<head, tail, next, used, new, terminate, haveUrl, cpc>>
        /\ UNCHANGED <<Checking, Taking, Posting>>
    BY <1>7 DEF WorkerLoop, DequeueLock, WorkerAt, list, Checking, Taking, Posting,
                Types, TypeInvariant
  <2>2. \A v \in Workers : /\ wpc'[v] = "tail" <=> wpc[v] = "tail"
                           /\ wpc[v] = "tail" => my'[v] = my[v]
    BY <1>7 DEF WorkerLoop, DequeueLock, WorkerAt, list, Types, TypeInvariant
  <2> QED
    BY <1>1, <2>1, <2>2, ElsewhereKept
<1>8. ASSUME NEW w \in Workers, WorkerWait(w) PROVE Sound(n, q)'
  BY <1>1, <1>8, ListKeptWait
<1>9. ASSUME NEW w \in Workers, WorkerCheck(w) PROVE Sound(n, q)'
  BY <1>1, <1>9, ListKeptCheck
<1>10. ASSUME NEW w \in Workers, DequeueHead(w) PROVE FALSE
  <2>1. Sound(n - 1, [i \in 1..n - 1 |-> q[i + 1]])'
    BY <1>1, <1>10, ListKeptUnlink
  <2>2. n # 0
    BY <1>1, <1>10 DEF Sound, IsList, Chained, DequeueHead
  <2>3. [i \in 1..n - 1 |-> q[i + 1]] \in [1..n - 1 -> Downloads] /\ n - 1 \in Nat
    BY <2>2
  <2> QED
    BY <2>1, <2>3 DEF ListInv
<1>11. ASSUME NEW w \in Workers, DequeueTail(w) PROVE Sound(n, q)'
  BY <1>1, <1>11, ListKeptUnlinkTail
<1>12. ASSUME NEW w \in Workers, Fetch(w) PROVE Sound(n, q)'
  <2>1. /\ UNCHANGED <<head, tail, next, used, new, terminate, haveUrl, cpc>>
        /\ UNCHANGED <<Checking, Taking, Posting>>
    BY <1>12 DEF Fetch, Connect, RecvEnd, FetchLoop, RecvChunk, Finish, WorkerAt, list,
                 Checking, Taking, Posting, Types, TypeInvariant
  <2>2. \A v \in Workers : /\ wpc'[v] = "tail" <=> wpc[v] = "tail"
                           /\ wpc[v] = "tail" => my'[v] = my[v]
    BY <1>12 DEF Fetch, Connect, RecvEnd, FetchLoop, RecvChunk, Finish, WorkerAt, list,
                 Types, TypeInvariant
  <2> QED
    BY <1>1, <2>1, <2>2, ElsewhereKept
<1>13. CASE Finalize \/ FinalizePost \/ FinalizeJoin
  BY <1>1, <1>13, ListKeptFinalize
<1>14. CASE UNCHANGED vars
  BY <1>1, <1>14, ElsewhereKept DEF vars, list, Checking, Taking, Posting
<1> QED
  BY <1>2, <1>3, <1>4, <1>5, <1>6, <1>7, <1>8, <1>9, <1>10, <1>11, <1>12, <1>13, <1>14
     DEF Next, Enqueue, Dequeue

\* The invariant holds at the start: the list is empty.
LEMMA InvFirst == Init => Inv
<1> SUFFICES ASSUME Init PROVE Inv
  OBVIOUS
<1>1. Types /\ Locked
  BY TypesFirst DEF Init, Locked
<1>2. PICK q \in [1..0 -> Downloads] : TRUE
  <2>1. [i \in 1..0 |-> NULL] \in [1..0 -> Downloads]
    OBVIOUS
  <2> QED
    BY <2>1
<1>3. Checking = {} /\ Taking = {} /\ Posting = {}
  BY DEF Init, Checking, Taking, Posting
<1>4. Sound(0, q)
  BY <1>3, FS_EmptySet DEF Init, Sound, IsList, Chained, TailIsLast, Fresh, Counted
<1> QED
  BY <1>1, <1>4 DEF Inv, ListInv

\* download_dequeue does not look whether there is a download; it need not, with any number
\* of workers, threads that queue and downloads, also while the program is being left.
THEOREM DequeueSafe == Spec => []DequeueFindsDownload
<1>1. Inv /\ [Next]_vars => Inv'
  BY TypesKept, LockKept, ListKept DEF Inv, Types
<1>2. Inv => DequeueFindsDownload
  <2> SUFFICES ASSUME Inv, NEW w \in Workers, wpc[w] = "head" PROVE head # NULL
    BY DEF DequeueFindsDownload
  <2>1. PICK n \in Nat : \E q \in [1..n -> Downloads] : Sound(n, q)
    BY DEF Inv, ListInv
  <2>2. Cardinality(Taking) # 0
    <3>1. w \in Taking /\ IsFiniteSet(Taking)
      BY ThreadsAssumption, FS_Subset DEF Taking
    <3> QED
      BY <3>1, FS_EmptySet
  <2>3. n > 0
    BY <2>1, <2>2, Counts DEF Sound, Counted
  <2> QED
    BY <2>1, <2>3, DataAssumption DEF Sound, IsList, Chained
<1> QED
  BY InvFirst, <1>1, <1>2, PTL DEF Spec

-----------------------------------------------------------------------------
(* The refinement of DownloadQueue *)

\* Every set of naturals has a least element: what induction on the places of a list is
\* reduced to below.
LEMMA LeastNatural ==
  ASSUME NEW T, T \subseteq Nat, T # {}
  PROVE  \E x \in T : \A y \in T : x <= y
<1> DEFINE R == OpToRel(<, Nat)
<1>1. IsWellFoundedOn(R, Nat)
  BY NatLessThanWellFounded
<1>2. \A x, y \in Nat : x < y => <<x, y>> \in R
  BY DEF OpToRel
<1> HIDE DEF R
<1>3. PICK x \in T : \A y \in T : ~ (<<y, x>> \in R)
  BY <1>1, WFMin
<1>4. ASSUME NEW y \in T PROVE x <= y
  <2>1. x \in Nat /\ y \in Nat
    OBVIOUS
  <2>2. ~ (y < x)
    BY <1>2, <1>3, <2>1, Zenon
  <2> QED
    BY <2>1, <2>2
<1> QED
  BY <1>3, <1>4

\* What is reached from h in 0, 1, 2 ... steps along the pointers nx, as Behind is from head
\* along next.
Reached(h, nx, N) ==
    CHOOSE f : f = [k \in 0..N |-> IF k = 0 THEN h
                                   ELSE IF f[k - 1] = NULL THEN NULL ELSE nx[f[k - 1]]]

\* From h the pointers lead through the n downloads of q.
Leads(h, nx, n, q) ==
    /\ h = IF n = 0 THEN NULL ELSE q[1]
    /\ \A i \in 1..n : nx[q[i]] = IF i < n THEN q[i + 1] ELSE NULL
Padded(n, q, N) == [k \in 0..N |-> IF k < n THEN q[k + 1] ELSE NULL]

\* Following the pointers of a list yields its downloads in order, and then NULL.
LEMMA ReachedIsChain ==
  ASSUME NEW N \in Nat, NEW n \in 0..N, NEW q \in [1..n -> Downloads], NEW h, NEW nx,
         Leads(h, nx, n, q)
  PROVE  Reached(h, nx, N) = Padded(n, q, N)
<1> DEFINE Step(f) == [k \in 0..N |-> IF k = 0 THEN h
                                     ELSE IF f[k - 1] = NULL THEN NULL ELSE nx[f[k - 1]]]
           chain == Padded(n, q, N)
<1> USE DEF Leads, Padded
<1>1. \A d \in Downloads : d # NULL
  BY DataAssumption
<1>2. chain = Step(chain)
  <2>1. ASSUME NEW k \in 0..N PROVE chain[k] = Step(chain)[k]
    <3>1. CASE k = 0
      BY <3>1
    <3>2. CASE k > 0 /\ k - 1 < n
      <4>1. chain[k - 1] = q[k] /\ k \in 1..n /\ q[k] # NULL
        BY <3>2, <1>1
      <4> QED
        BY <3>2, <4>1
    <3>3. CASE k > 0 /\ ~(k - 1 < n)
      BY <3>3
    <3> QED
      BY <3>1, <3>2, <3>3
  <2> HIDE DEF chain
  <2>2. chain = [k \in 0..N |-> chain[k]]
    BY DEF chain
  <2> QED
    BY <2>1, <2>2
<1> DEFINE B == Reached(h, nx, N)
<1>3. B = Step(B)
  <2> HIDE DEF chain
  <2> QED
    BY <1>2 DEF Reached
<1> HIDE DEF B
<1>4. \A k \in 0..N : B[k] = chain[k]
  <2> DEFINE Wrong == {k \in 0..N : B[k] # chain[k]}
  <2>1. ASSUME Wrong # {} PROVE FALSE
    <3>1. PICK k \in Wrong : \A j \in Wrong : k <= j
      <4> Wrong \subseteq Nat
        OBVIOUS
      <4> HIDE DEF Wrong
      <4> QED
        BY <2>1, LeastNatural
    <3>2. CASE k = 0
      BY <1>3, <3>1, <3>2
    <3>3. CASE k > 0
      <4>1. k - 1 \in 0..N /\ k - 1 \notin Wrong
        BY <3>1, <3>3
      <4>2. B[k - 1] = chain[k - 1]
        BY <4>1
      <4>3. /\ B[k] = IF B[k - 1] = NULL THEN NULL ELSE nx[B[k - 1]]
            /\ chain[k] = IF chain[k - 1] = NULL THEN NULL ELSE nx[chain[k - 1]]
        <5>1. k \in 0..N /\ k # 0
          BY <3>1, <3>3
        <5> HIDE DEF chain, Wrong
        <5> QED
          BY <1>2, <1>3, <5>1
      <4> HIDE DEF chain
      <4> QED
        BY <3>1, <4>2, <4>3
    <3> QED
      BY <3>1, <3>2, <3>3
  <2> QED
    BY <2>1
<1>5. B = [k \in 0..N |-> B[k]]
  <2> HIDE DEF chain
  <2> QED
    BY <1>3
<1> QED
  BY <1>4, <1>5 DEF B

\* Listed is to Reached what Linked is to Behind: the places that are reached, up to NULL.
Listed(h, nx) ==
    LET reached == Reached(h, nx, Cardinality(Downloads))
    IN  [n \in 1..Cardinality({k \in 0..Cardinality(Downloads) - 1 : reached[k] # NULL}) |->
            reached[n - 1]]

\* A list without repetition is as long as what is read from it: it has no more downloads
\* than there are.
LEMMA ListedIsChain ==
  ASSUME NEW n \in Nat, NEW q \in [1..n -> Downloads], NEW h, NEW nx, Leads(h, nx, n, q),
         \A i, j \in 1..n : q[i] = q[j] => i = j
  PROVE  Listed(h, nx) = q
<1> DEFINE N == Cardinality(Downloads)
           B == Reached(h, nx, N)
           found == {k \in 0..N - 1 : B[k] # NULL}
<1>1. IsFiniteSet(Downloads) /\ N \in Nat /\ \A d \in Downloads : d # NULL
  BY DataAssumption, FS_CardinalityType
<1>2. n <= N
  <2>1. Cardinality(1..n) = n /\ IsFiniteSet(1..n)
    BY FS_Interval
  <2> HIDE DEF N
  <2>2. ASSUME N < n PROVE FALSE
    <3>1. Cardinality(Downloads) < Cardinality(1..n)
      BY <2>1, <2>2 DEF N
    <3>2. \E i, j \in 1..n : i # j /\ q[i] = q[j]
      BY <1>1, <2>1, <3>1, FS_PigeonHole
    <3> QED
      BY <3>2
  <2> QED
    BY <1>1, <2>2
<1>3. B = [k \in 0..N |-> IF k < n THEN q[k + 1] ELSE NULL]
  <2>1. N \in Nat /\ n \in 0..N
    BY <1>1, <1>2
  <2> HIDE DEF N
  <2>2. B = Padded(n, q, N)
    BY <2>1, ReachedIsChain
  <2> QED
    BY <2>2 DEF Padded
<1> HIDE DEF N, B
<1>4. found = 0..n - 1
  <2>1. ASSUME NEW k \in 0..n - 1 PROVE k \in found
    <3>1. k \in 0..N /\ k \in 0..N - 1 /\ k < n /\ k + 1 \in 1..n
      BY <1>1, <1>2
    <3>2. B[k] = q[k + 1] /\ q[k + 1] \in Downloads
      BY <1>3, <3>1
    <3> QED
      BY <1>1, <3>1, <3>2
  <2>2. ASSUME NEW k \in found PROVE k \in 0..n - 1
    <3>1. k \in 0..N /\ B[k] # NULL
      BY <1>1
    <3>2. k < n
      BY <1>3, <3>1
    <3> QED
      BY <3>1, <3>2
  <2> QED
    BY <2>1, <2>2
<1>5. Cardinality(found) = n
  <2>1. 0 \in Int /\ n - 1 \in Int
    OBVIOUS
  <2>2. Cardinality(0..n - 1) = IF 0 > n - 1 THEN 0 ELSE n - 1 - 0 + 1
    BY <2>1, FS_Interval
  <2>3. Cardinality(0..n - 1) = n
    BY <2>2
  <2> HIDE DEF found
  <2> QED
    BY <1>4, <2>3
<1>6. \A i \in 1..n : B[i - 1] = q[i]
  <2> TAKE i \in 1..n
  <2>1. i - 1 \in 0..N /\ i - 1 < n /\ (i - 1) + 1 = i
    BY <1>1, <1>2
  <2> QED
    BY <1>3, <2>1
<1>7. Listed(h, nx) = [i \in 1..Cardinality(found) |-> B[i - 1]]
  BY DEF Listed, B, N
<1> HIDE DEF found
<1> QED
  BY <1>5, <1>6, <1>7

\* So Linked is the list of the invariant, before and after a step.
LEMMA LinkedIsChain ==
  ASSUME NEW n \in Nat, NEW q \in [1..n -> Downloads]
  PROVE  (Chained(n, q) => Linked = q) /\ (Chained(n, q)' => Linked' = q)
<1>1. Linked = Listed(head, next)
  BY DEF Linked, Behind, Listed, Reached
<1>2. Linked' = Listed(head', next')
  BY DEF Linked, Behind, Listed, Reached
<1>3. /\ Chained(n, q) => Leads(head, next, n, q) /\ \A i, j \in 1..n : q[i] = q[j] => i = j
      /\ Chained(n, q)' => Leads(head', next', n, q) /\ \A i, j \in 1..n : q[i] = q[j] => i = j
  BY DEF Chained, Leads
<1>4. /\ Chained(n, q) => Listed(head, next) = q
      /\ Chained(n, q)' => Listed(head', next') = q
  BY <1>3, ListedIsChain
<1> QED
  BY <1>1, <1>2, <1>4

\* A download has one place: it is being queued, linked, with one worker, or done.
Holding == {"tail", "connect", "ends", "fetch", "recv", "finish"}
OnePlace ==
    \A w \in Workers :
        /\ my[w] # NULL <=> wpc[w] \in Holding
        /\ my[w] # NULL =>
              /\ my[w] \in used \ Asked
              /\ \A v \in Workers \ {w} : my[v] # my[w]
              /\ \A i \in DOMAIN Linked : Linked[i] # my[w]

\* Most steps move no download: to the queue's user they are stutters.
LEMMA NothingMoves ==
  ASSUME OnePlace, UNCHANGED <<Asked, Linked, my, used>>,
         \A w \in Workers : wpc'[w] \in Holding <=> wpc[w] \in Holding
  PROVE  OnePlace' /\ UNCHANGED AsQueue!vars
<1>1. OnePlace'
  BY DEF OnePlace
<1>2. Done' = Done
  BY DEF Done
<1> QED
  BY <1>1, <1>2 DEF AsQueue!vars

\* What a list with one more at its end, or one less at its front, is as a sequence.
Longer(n, q, x) == [i \in 1..n + 1 |-> IF i = n + 1 THEN x ELSE q[i]]
Shorter(n, q) == [i \in 1..n - 1 |-> q[i + 1]]

\* A longer and a shorter list as sequences.
LEMMA SequenceOfList ==
  ASSUME NEW n \in Nat, NEW q \in [1..n -> Downloads]
  PROVE  /\ \A x \in Downloads : /\ Longer(n, q, x) \in [1..n + 1 -> Downloads]
                                 /\ Longer(n, q, x) = Append(q, x)
         /\ n # 0 => /\ Shorter(n, q) \in [1..n - 1 -> Downloads] /\ Shorter(n, q) = Tail(q)
                     /\ q[1] = Head(q) /\ q # << >>
<1>1. q \in Seq(Downloads)
  BY SeqDef
<1>2. Len(q) = n /\ DOMAIN q = 1..n
  BY <1>1, LenProperties
<1>3. ASSUME NEW x \in Downloads
      PROVE  /\ Longer(n, q, x) \in [1..n + 1 -> Downloads] /\ Longer(n, q, x) = Append(q, x)
  <2>1. Longer(n, q, x) \in [1..n + 1 -> Downloads]
    BY DEF Longer
  <2>2. Append(q, x) \in [1..n + 1 -> Downloads]
    <3>1. Append(q, x) \in Seq(Downloads)
      BY <1>1, AppendProperties
    <3>2. Len(Append(q, x)) = n + 1
      BY <1>1, <1>2, AppendProperties
    <3> QED
      BY <3>1, <3>2, LenProperties
  <2>3. \A i \in 1..n + 1 : Append(q, x)[i] = Longer(n, q, x)[i]
    BY <1>1, <1>2, AppendProperties DEF Longer
  <2> QED
    BY <2>1, <2>2, <2>3
<1>4. ASSUME n # 0
      PROVE  /\ Shorter(n, q) \in [1..n - 1 -> Downloads] /\ Shorter(n, q) = Tail(q)
             /\ q[1] = Head(q) /\ q # << >>
  <2>1. q # << >> /\ q[1] = Head(q)
    BY <1>1, <1>2, <1>4
  <2>2. Shorter(n, q) \in [1..n - 1 -> Downloads]
    BY <1>4 DEF Shorter
  <2>3. Tail(q) \in [1..n - 1 -> Downloads]
    BY <1>1, <1>2, <2>1, HeadTailProperties, LenProperties
  <2>4. \A i \in 1..n - 1 : Tail(q)[i] = Shorter(n, q)[i]
    BY <1>1, <1>2, <2>1, HeadTailProperties DEF Shorter
  <2> QED
    BY <2>1, <2>2, <2>3, <2>4
<1> QED
  BY <1>3, <1>4

\* The list is read off head and next only.
LEMMA LinkedStays == ASSUME UNCHANGED <<head, next>> PROVE Linked' = Linked
  BY DEF Linked, Behind

\* Which downloads are on their way into the list, before and after a step.
LEMMA InAsked == \A d :
    /\ d \in Asked <=> \E b \in Clients : cpc[b] \in {"lock", "link"} /\ d = new[b]
    /\ d \in Asked' <=> \E b \in Clients : cpc'[b] \in {"lock", "link"} /\ d = new'[b]
  BY DEF Asked

\* downloader_queue_buffer: a new download is asked for.
LEMMA QueueBufferAsks ==
  ASSUME Inv, OnePlace, NEW c \in Clients, QueueBuffer(c)
  PROVE  OnePlace' /\ \E d \in Downloads : AsQueue!Ask(d)
<1> USE DEF Inv, Types, TypeInvariant
<1>1. PICK d \in Downloads \ used : new' = [new EXCEPT ![c] = d] /\ used' = used \cup {d}
  BY DEF QueueBuffer
<1>2. UNCHANGED <<head, next, my, wpc>> /\ ClientAt(c, "idle", "lock")
  BY DEF QueueBuffer, list
<1>3. UNCHANGED Linked
  BY <1>2, LinkedStays
<1>4. PICK n \in Nat : \E q \in [1..n -> Downloads] : Sound(n, q)
  BY DEF ListInv
<1>5. PICK q \in [1..n -> Downloads] : Sound(n, q)
  BY <1>4
<1>6. Linked = q /\ \A i \in 1..n : q[i] \in used
  BY <1>5, LinkedIsChain DEF Sound, IsList, Fresh
<1>7. Asked' = Asked \cup {d} /\ Asked \subseteq used
  <2>1. Asked \subseteq used
    BY <1>5 DEF Sound, IsList, Fresh, Asked
  <2>2. /\ cpc[c] = "idle" /\ cpc'[c] = "lock" /\ new'[c] = d
        /\ \A b \in Clients \ {c} : cpc'[b] = cpc[b] /\ new'[b] = new[b]
    BY <1>1, <1>2 DEF ClientAt
  <2>3. \A x : x \in Asked' <=> x \in Asked \/ x = d
    <3> HIDE DEF Inv, Types, TypeInvariant
    <3> QED
      BY <2>2, InAsked
  <2> QED
    BY <2>1, <2>3
<1>8. OnePlace'
  BY <1>1, <1>2, <1>3, <1>7 DEF OnePlace
<1>9. d # NULL /\ \A w \in Workers : my[w] # d
  BY DataAssumption DEF OnePlace
<1>10. Done' = Done
  BY <1>1, <1>2, <1>3, <1>7, <1>9 DEF Done
<1>11. ~AsQueue!Known(d)
  BY <1>6, <1>7, <1>9 DEF AsQueue!Known, Done
<1> QED
  BY <1>2, <1>3, <1>7, <1>8, <1>10, <1>11 DEF AsQueue!Ask

\* download_enqueue's link: it joins the end of the queue.
LEMMA LinkJoins ==
  ASSUME Inv, OnePlace, NEW c \in Clients, EnqueueLink(c)
  PROVE  OnePlace' /\ \E d \in Downloads : AsQueue!Join(d)
<1>0. TypeInvariant /\ Types /\ Locked
  BY DEF Inv, Types
<1>1. PICK n \in Nat : \E q \in [1..n -> Downloads] : Sound(n, q)
  BY DEF Inv, ListInv
<1>2. PICK q \in [1..n -> Downloads] : Sound(n, q)
  BY <1>1
<1>3. PICK x \in Downloads : x = new[c] /\ Sound(n + 1, Longer(n, q, x))'
  BY <1>0, <1>2, ListKeptLink DEF Longer
<1>4. PICK p \in [1..n + 1 -> Downloads] : p = Longer(n, q, x) /\ p = Append(q, x)
  <2>1. /\ Longer(n, q, x) \in [1..n + 1 -> Downloads] /\ Longer(n, q, x) = Append(q, x)
    BY SequenceOfList
  <2> QED
    BY <2>1
<1>5. Linked = q /\ Linked' = p
  <2>1. Chained(n, q) /\ Chained(n + 1, p)' /\ n + 1 \in Nat
    BY <1>2, <1>3, <1>4 DEF Sound, IsList
  <2> QED
    BY <2>1, LinkedIsChain
<1>6. Linked' = Append(Linked, x)
  BY <1>4, <1>5
<1>7. UNCHANGED <<my, wpc, used, new>> /\ ClientAt(c, "link", "tail")
  BY DEF EnqueueLink
<1>8. x \in Asked /\ Asked' = Asked \ {x} /\ x \in used
  <2>1. /\ cpc[c] = "link" /\ cpc'[c] = "tail"
        /\ \A b \in Clients \ {c} : cpc'[b] = cpc[b]
    BY <1>0, <1>7 DEF ClientAt, TypeInvariant
  <2>2. /\ \A b \in Clients \ {c} : cpc[b] \in {"lock", "link"} => new[b] # x
        /\ x \in used
    <3>1. Fresh(n, q) /\ cpc[c] = "link"
      BY <1>2, <2>1 DEF Sound, IsList
    <3> QED
      BY ONLY <1>3, <3>1, c \in Clients DEF Fresh
  <2>3. \A y : y \in Asked' <=> y \in Asked /\ y # x
    BY <1>3, <1>7, <2>1, <2>2, InAsked
  <2>4. x \in Asked
    BY <1>3, <2>1, InAsked
  <2> QED
    BY <2>2, <2>3, <2>4
<1>9. \A w \in Workers : my[w] # x
  BY <1>8, DataAssumption DEF OnePlace
<1>10. /\ \A i \in DOMAIN Linked' :
             Linked'[i] = x \/ \E j \in DOMAIN Linked : Linked[j] = Linked'[i]
       /\ \A j \in DOMAIN Linked : \E i \in DOMAIN Linked' : Linked'[i] = Linked[j]
       /\ \E i \in DOMAIN Linked' : Linked'[i] = x
  <2>1. /\ DOMAIN Linked = 1..n /\ DOMAIN Linked' = 1..n + 1 /\ Linked'[n + 1] = x
        /\ \A i \in 1..n : Linked'[i] = Linked[i]
    BY <1>4, <1>5 DEF Longer
  <2>2. /\ \A i \in 1..n + 1 : i = n + 1 \/ i \in 1..n
        /\ n + 1 \in 1..n + 1 /\ 1..n \subseteq 1..n + 1
    OBVIOUS
  <2> QED
    BY <2>1, <2>2
<1>11. OnePlace'
  BY <1>7, <1>8, <1>9, <1>10 DEF OnePlace
<1>12. Done' = Done
  BY <1>7, <1>8, <1>9, <1>10 DEF Done
<1> QED
  BY <1>6, <1>7, <1>8, <1>11, <1>12 DEF AsQueue!Join

\* download_dequeue's unlink: the front of the queue goes to the worker.
LEMMA UnlinkTakes ==
  ASSUME Inv, OnePlace, NEW w \in Workers, DequeueHead(w)
  PROVE  OnePlace' /\ AsQueue!Take(w)
<1>0. TypeInvariant /\ Types /\ Locked
  BY DEF Inv, Types
<1>1. PICK n \in Nat : \E q \in [1..n -> Downloads] : Sound(n, q)
  BY DEF Inv, ListInv
<1>2. PICK q \in [1..n -> Downloads] : Sound(n, q)
  BY <1>1
<1>3. n # 0 /\ head = q[1] /\ 1 \in 1..n
  BY <1>2 DEF Sound, IsList, Chained, DequeueHead
<1>4. PICK p \in [1..n - 1 -> Downloads] :
         p = Shorter(n, q) /\ p = Tail(q) /\ q[1] = Head(q) /\ q # << >>
  BY <1>3, SequenceOfList
<1>5. Sound(n - 1, p)'
  BY <1>0, <1>2, <1>4, ListKeptUnlink DEF Shorter
<1>6. Linked = q /\ Linked' = p
  <2> n - 1 \in Nat
    BY <1>3
  <2> QED
    BY <1>2, <1>5, LinkedIsChain DEF Sound, IsList
<1>7. Linked' = Tail(Linked) /\ head = Head(Linked) /\ Linked # << >>
  BY <1>3, <1>4, <1>6
<1>8. /\ UNCHANGED <<used, new, cpc>> /\ WorkerAt(w, "head", "tail")
      /\ my' = [my EXCEPT ![w] = head]
  BY DEF DequeueHead
<1>9. UNCHANGED Asked
  BY <1>8 DEF Asked
<1>10. /\ my[w] = NULL
       /\ \A v \in Workers : /\ v # w => my'[v] = my[v] /\ wpc'[v] = wpc[v]
                             /\ v = w => my'[v] = head /\ wpc'[v] = "tail"
  BY <1>0, <1>8 DEF WorkerAt, OnePlace, Holding, TypeInvariant
<1>11. /\ head \in used \ Asked /\ head # NULL
       /\ \A v \in Workers : my[v] # head
  <2>1. head \in used /\ head # NULL
    BY <1>2, <1>3, DataAssumption DEF Sound, IsList, Fresh
  <2>2. head \notin Asked
    BY <1>2, <1>3 DEF Sound, IsList, Fresh, Asked
  <2>3. ASSUME NEW v \in Workers, my[v] = head PROVE FALSE
    <3>1. my[v] # NULL /\ 1 \in DOMAIN Linked /\ Linked[1] = my[v]
      BY <1>3, <1>6, <2>1, <2>3
    <3> QED
      BY <3>1 DEF OnePlace
  <2> QED
    BY <2>1, <2>2, <2>3
<1>12. /\ \A i \in DOMAIN Linked' : /\ Linked'[i] # head
                                    /\ \E j \in DOMAIN Linked : Linked[j] = Linked'[i]
       /\ \A j \in DOMAIN Linked :
             Linked[j] = head \/ \E i \in DOMAIN Linked' : Linked'[i] = Linked[j]
       /\ \E j \in DOMAIN Linked : Linked[j] = head
  <2>1. \A i, j \in 1..n : q[i] = q[j] => i = j
    BY <1>2 DEF Sound, IsList, Chained
  <2>2. /\ DOMAIN Linked = 1..n /\ DOMAIN Linked' = 1..n - 1
        /\ \A i \in 1..n - 1 : Linked'[i] = q[i + 1] /\ i + 1 \in 1..n /\ i + 1 # 1
    BY <1>3, <1>4, <1>6 DEF Shorter
  <2>3. \A j \in 1..n : j = 1 \/ (j - 1 \in 1..n - 1 /\ (j - 1) + 1 = j)
    BY <1>3
  <2>4. ASSUME NEW i \in DOMAIN Linked'
        PROVE  Linked'[i] # head /\ \E j \in DOMAIN Linked : Linked[j] = Linked'[i]
    <3>1. i + 1 \in 1..n /\ i + 1 # 1 /\ 1 \in 1..n /\ Linked'[i] = q[i + 1]
      BY <1>3, <2>2
    <3> QED
      BY <1>3, <1>6, <2>1, <2>2, <3>1
  <2>5. ASSUME NEW j \in DOMAIN Linked, Linked[j] # head
        PROVE  \E i \in DOMAIN Linked' : Linked'[i] = Linked[j]
    <3>1. j - 1 \in 1..n - 1 /\ (j - 1) + 1 = j
      BY <1>6, <1>3, <2>2, <2>3, <2>5
    <3> QED
      BY <1>6, <2>2, <3>1
  <2>6. \E j \in DOMAIN Linked : Linked[j] = head
    BY <1>3, <1>6, <2>2
  <2> QED
    BY <2>4, <2>5, <2>6
<1>13. OnePlace'
  BY <1>8, <1>9, <1>10, <1>11, <1>12 DEF OnePlace, Holding
<1>14. Done' = Done
  <2>1. ASSUME NEW d \in Done' PROVE d \in Done
    <3>1. /\ d \in used \ Asked /\ d # head
          /\ \A i \in DOMAIN Linked' : Linked'[i] # d
          /\ \A v \in Workers \ {w} : my[v] # d
      BY <1>8, <1>9, <1>10, <2>1 DEF Done
    <3>2. my[w] # d
      BY <1>0, <1>10, <3>1, DataAssumption DEF TypeInvariant
    <3> QED
      BY <1>12, <3>1, <3>2 DEF Done
  <2>2. ASSUME NEW d \in Done PROVE d \in Done'
    BY <1>8, <1>9, <1>10, <1>12, <2>2 DEF Done
  <2> QED
    BY <2>1, <2>2
<1> QED
  BY <1>7, <1>8, <1>9, <1>10, <1>13, <1>14 DEF AsQueue!Take

\* A worker that has finished gives its download up, once.
LEMMA FinishServes ==
  ASSUME Inv, OnePlace, NEW w \in Workers, Finish(w)
  PROVE  OnePlace' /\ AsQueue!Serve(w)
<1> USE DEF Inv, Types, TypeInvariant
<1>1. /\ UNCHANGED <<used, new, cpc, head, next>> /\ WorkerAt(w, "finish", "loop")
      /\ my' = [my EXCEPT ![w] = NULL]
  BY DEF Finish, list
<1>2. UNCHANGED <<Asked, Linked>>
  BY <1>1, LinkedStays DEF Asked
<1>3. /\ my[w] # NULL
      /\ \A v \in Workers : /\ v # w => my'[v] = my[v] /\ wpc'[v] = wpc[v]
                            /\ v = w => my'[v] = NULL /\ wpc'[v] = "loop"
  BY <1>1 DEF WorkerAt, OnePlace, Holding
<1>4. OnePlace'
  BY <1>1, <1>2, <1>3 DEF OnePlace, Holding
<1>5. /\ my[w] \in used \ Asked /\ \A v \in Workers \ {w} : my[v] # my[w]
      /\ \A i \in DOMAIN Linked : Linked[i] # my[w]
  BY <1>3 DEF OnePlace
<1>6. NULL \notin used
  BY DataAssumption
<1>7. Done' = Done \cup {my[w]}
  <2>1. my[w] \in Done'
    BY <1>1, <1>2, <1>3, <1>5 DEF Done
  <2>2. Done \subseteq Done'
    BY <1>1, <1>2, <1>3, <1>6 DEF Done
  <2>3. Done' \subseteq Done \cup {my[w]}
    BY <1>1, <1>2, <1>3 DEF Done
  <2> QED
    BY <2>1, <2>2, <2>3
<1> QED
  BY <1>1, <1>2, <1>3, <1>4, <1>7 DEF AsQueue!Serve

\* Every step is one of the queue's, or a stutter.
LEMMA QueueStep ==
  ASSUME Inv, OnePlace, [Next]_vars
  PROVE  OnePlace' /\ [AsQueue!Next]_AsQueue!vars
<1> USE DEF Inv, Types, TypeInvariant, Holding
<1>1. ASSUME NEW c \in Clients, QueueBuffer(c)
      PROVE  OnePlace' /\ [AsQueue!Next]_AsQueue!vars
  BY <1>1, QueueBufferAsks DEF AsQueue!Next
<1>2. ASSUME NEW c \in Clients, EnqueueLink(c)
      PROVE  OnePlace' /\ [AsQueue!Next]_AsQueue!vars
  BY <1>2, LinkJoins DEF AsQueue!Next
<1>3. ASSUME NEW w \in Workers, DequeueHead(w)
      PROVE  OnePlace' /\ [AsQueue!Next]_AsQueue!vars
  BY <1>3, UnlinkTakes DEF AsQueue!Next
<1>4. ASSUME NEW w \in Workers, Finish(w)
      PROVE  OnePlace' /\ [AsQueue!Next]_AsQueue!vars
  BY <1>4, FinishServes DEF AsQueue!Next
<1>5. ASSUME NEW c \in Clients, EnqueueLock(c) \/ EnqueueTail(c) \/ EnqueuePost(c)
      PROVE  OnePlace' /\ UNCHANGED AsQueue!vars
  <2>1. UNCHANGED <<head, next, my, used, wpc>>
    BY <1>5 DEF EnqueueLock, EnqueueTail, EnqueuePost, list
  <2>2. UNCHANGED Asked
    BY <1>5 DEF EnqueueLock, EnqueueTail, EnqueuePost, ClientAt, Asked
  <2> QED
    BY <2>1, <2>2, LinkedStays, NothingMoves
<1>6. ASSUME NEW w \in Workers,
             \/ WorkerLoop(w) \/ WorkerWait(w) \/ WorkerCheck(w) \/ DequeueLock(w)
             \/ DequeueTail(w) \/ Connect(w) \/ RecvEnd(w) \/ FetchLoop(w) \/ RecvChunk(w)
      PROVE  OnePlace' /\ UNCHANGED AsQueue!vars
  <2>1. UNCHANGED <<head, next, my, used, cpc, new>>
    BY <1>6 DEF WorkerLoop, WorkerWait, WorkerCheck, DequeueLock, DequeueTail, Connect,
                RecvEnd, FetchLoop, RecvChunk, list
  <2>2. \A v \in Workers : wpc'[v] \in Holding <=> wpc[v] \in Holding
    BY <1>6 DEF WorkerLoop, WorkerWait, WorkerCheck, DequeueLock, DequeueTail, Connect,
                RecvEnd, FetchLoop, RecvChunk, WorkerAt
  <2>3. UNCHANGED Asked
    BY <2>1 DEF Asked
  <2> QED
    BY <2>1, <2>2, <2>3, LinkedStays, NothingMoves
<1>7. CASE Finalize \/ FinalizePost \/ FinalizeJoin
  <2>1. UNCHANGED <<head, next, my, used, wpc, new>>
    BY <1>7 DEF Finalize, FinalizePost, FinalizeJoin, list
  <2>2. UNCHANGED Asked
    BY <1>7 DEF Finalize, FinalizePost, FinalizeJoin, ClientAt, Asked, Clients
  <2>3. OnePlace' /\ UNCHANGED AsQueue!vars
    BY <2>1, <2>2, LinkedStays, NothingMoves
  <2> QED
    BY <2>3
<1>8. CASE UNCHANGED vars
  <2>1. OnePlace' /\ UNCHANGED AsQueue!vars
    BY <1>8, LinkedStays, NothingMoves DEF vars, list, Asked
  <2> QED
    BY <2>1
<1> QED
  BY <1>1, <1>2, <1>3, <1>4, <1>5, <1>6, <1>7, <1>8 DEF Next, Enqueue, Dequeue, Fetch

\* downloader.c keeps the promise of a queue to its callers: whatever the semaphores and the
\* halves of a change of the list let happen in between, a download joins the end, leaves
\* at the front, is with one worker and is done once; for any number of clients, workers
\* and downloads.
THEOREM QueueImplemented == Spec => ImplementsQueue
<1>1. Inv /\ [Next]_vars => Inv'
  BY TypesKept, LockKept, ListKept DEF Inv, Types
<1>2. Init => OnePlace /\ AsQueue!Init
  <2> SUFFICES ASSUME Init PROVE OnePlace /\ AsQueue!Init
    OBVIOUS
  <2>1. Asked = {} /\ my = [w \in Workers |-> NULL]
    BY DEF Init, Asked
  <2>2. PICK q \in [1..0 -> Downloads] : TRUE
    <3>1. [i \in 1..0 |-> NULL] \in [1..0 -> Downloads]
      OBVIOUS
    <3> QED
      BY <3>1
  <2>3. Chained(0, q)
    BY DEF Init, Chained
  <2>4. Linked = q
    BY <2>3, LinkedIsChain
  <2>5. Linked = << >>
    BY <2>4
  <2>6. Done = {}
    BY DEF Init, Done
  <2> QED
    BY <2>1, <2>5, <2>6 DEF OnePlace, Holding, AsQueue!Init, Init
<1>3. Inv /\ OnePlace /\ [Next]_vars => OnePlace' /\ [AsQueue!Next]_AsQueue!vars
  BY QueueStep
<1> QED
  BY InvFirst, <1>1, <1>2, <1>3, PTL DEF Spec, ImplementsQueue, AsQueue!Spec
=============================================================================
