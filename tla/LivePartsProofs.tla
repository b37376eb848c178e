-------------------------- MODULE LivePartsProofs ---------------------------
(***************************************************************************)
(* What the parts of LiveParts keep true, on instances of any size.  A     *)
(* behaviour of Spec is one of one part, whose steps are those of its      *)
(* module: the invariant of a part is proved for these steps alone, that   *)
(* of Selection and TrackCache in modules of their own, since two parts    *)
(* are instances of each.                                                  *)
(***************************************************************************)
EXTENDS LiveParts, TLAPS

\* A step of the module whose part is explored, or one that leaves its variables alone.
OfItsPart ==
    /\ part' = part
    /\ part = "selection" => [S!Next]_(S!vars)
    /\ part = "lists" => [E!Next]_(E!vars)
    /\ part = "log" => [L!Next]_(L!vars)
    /\ part = "cache" => [T!Next]_(T!vars)
    /\ part = "othercache" => [F!Next]_(F!vars)
    /\ part = "http" => [H!Next]_(H!vars)
    /\ part = "connection" => [C!Next]_(C!vars)

\* Every step is of its part.
LEMMA StepsOfParts == [Next]_vars => OfItsPart
<1> SUFFICES ASSUME [Next]_vars PROVE OfItsPart
  OBVIOUS
<1>1. CASE Next
  <2> USE DEF Step
  <2>1. CASE Step("selection", S!Next, After6)
    BY <2>1 DEF OfItsPart
  <2>2. CASE Step("lists", E!Next, After6)
    BY <2>2 DEF OfItsPart
  <2>3. CASE Step("log", L!Next, After9)
    BY <2>3 DEF OfItsPart
  <2>4. CASE Step("cache", T!Next, After11)
    BY <2>4 DEF OfItsPart
  <2>5. CASE Step("othercache", F!Next, After11)
    BY <2>5 DEF OfItsPart
  <2>6. CASE Step("http", H!Next, After13)
    BY <2>6 DEF OfItsPart
  <2>7. CASE Step("connection", C!Next, s15)
    BY <2>7 DEF OfItsPart
  <2> QED
    BY <1>1, <2>1, <2>2, <2>3, <2>4, <2>5, <2>6, <2>7 DEF Next
<1>2. CASE UNCHANGED vars
  <2>1. UNCHANGED <<part, s1, s2, s3, s4, s5, s6, s7, s8, s9, s10, s11, s12, s13, s14, s15>>
    BY <1>2 DEF vars, After6, After9, After11, After13
  <2> QED
    BY <2>1 DEF OfItsPart, S!vars, E!vars, L!vars, T!vars, T!saving, T!disk, F!vars, F!saving,
       F!disk, H!vars, H!conn, H!body, C!vars, C!network, C!trust, C!reading
<1> QED
  BY <1>1, <1>2

-----------------------------------------------------------------------------
(* Log.  The variables of its part: s1 is pc, s2 handler, s3 blocked, s4     *)
(* cut, s5 log_sem, s6 log, s7 misused, s8 lines, s9 signals.                *)

LogInv == L!TypeInvariant /\ L!UndisturbedToken /\ L!ClosedLast

\* log.c: at first nobody writes, and log_sem is free.
LEMMA LogFirst == L!Init => LogInv
<1> SUFFICES ASSUME L!Init PROVE LogInv
  OBVIOUS
<1>1. 0 \in 0..MaxLines /\ 0 \in 0..MaxSignals
  BY LivePartsAssumption DEF L!ThreadsAssumption
<1> QED
  BY <1>1 DEF L!Init, LogInv, L!TypeInvariant, L!UndisturbedToken, L!Token, L!OneWriter,
     L!ClosedLast

\* log.c: every variable keeps to its type; no post of log_sem and no wait is one too many.
LEMMA LogTypes == L!TypeInvariant /\ [L!Next]_(L!vars) => L!TypeInvariant'
<1> SUFFICES ASSUME L!TypeInvariant, [L!Next]_(L!vars) PROVE L!TypeInvariant'
  OBVIOUS
<1>0. Main \in Threads /\ MaxSignals \in Nat /\ MaxLines \in Nat
  BY LivePartsAssumption DEF L!ThreadsAssumption
<1> USE <1>0 DEF L!TypeInvariant, L!Misuse
<1>1. CASE L!Close
  BY <1>1 DEF L!Close
<1>2. ASSUME NEW t \in Threads, L!Call(t) PROVE L!TypeInvariant'
  BY <1>2 DEF L!Call
<1>3. ASSUME NEW t \in Threads, L!Enter(t) PROVE L!TypeInvariant'
  BY <1>3 DEF L!Enter
<1>4. ASSUME NEW t \in Threads, L!Leave(t) PROVE L!TypeInvariant'
  BY <1>4 DEF L!Leave
<1>5. ASSUME NEW t \in Threads, L!HandlerEnter(t) PROVE L!TypeInvariant'
  BY <1>5 DEF L!HandlerEnter
<1>6. ASSUME NEW t \in Threads, L!HandlerLeave(t) PROVE L!TypeInvariant'
  BY <1>6 DEF L!HandlerLeave
<1>7. ASSUME NEW t \in Threads, L!Signal(t) PROVE L!TypeInvariant'
  BY <1>7 DEF L!Signal
<1>8. ASSUME NEW t \in Threads, L!End(t) PROVE L!TypeInvariant'
  BY <1>8 DEF L!End
<1>9. CASE UNCHANGED L!vars
  BY <1>9 DEF L!vars
<1> QED
  BY <1>1, <1>2, <1>3, <1>4, <1>5, <1>6, <1>7, <1>8, <1>9 DEF L!Next, L!Steps

\* log.c: a step that cuts no wait short leaves one thread at a time between sem_wait and
\* sem_post, its handler included.
LEMMA TokenKept ==
  L!TypeInvariant /\ L!UndisturbedToken /\ [L!Next]_(L!vars) => L!UndisturbedToken'
<1> SUFFICES ASSUME L!TypeInvariant, L!UndisturbedToken, [L!Next]_(L!vars), ~s4'
             PROVE  L!Token'
  BY DEF L!UndisturbedToken
<1> USE DEF L!TypeInvariant, L!UndisturbedToken, L!Token, L!OneWriter
<1>1. CASE L!Close
  BY <1>1 DEF L!Close
<1>2. ASSUME NEW t \in Threads, L!Call(t) PROVE L!Token'
  BY <1>2 DEF L!Call
<1>3. ASSUME NEW t \in Threads, L!Enter(t) PROVE L!Token'
  BY <1>3 DEF L!Enter
<1>4. ASSUME NEW t \in Threads, L!Leave(t) PROVE L!Token'
  BY <1>4 DEF L!Leave
<1>5. ASSUME NEW t \in Threads, L!HandlerEnter(t) PROVE L!Token'
  BY <1>5 DEF L!HandlerEnter
<1>6. ASSUME NEW t \in Threads, L!HandlerLeave(t) PROVE L!Token'
  <2>1. ~s4 /\ ~s3[t] /\ UNCHANGED s1
    BY <1>6 DEF L!HandlerLeave
  <2> QED
    BY <1>6, <2>1 DEF L!HandlerLeave
<1>7. ASSUME NEW t \in Threads, L!Signal(t) PROVE L!Token'
  BY <1>7 DEF L!Signal
<1>8. ASSUME NEW t \in Threads, L!End(t) PROVE L!Token'
  BY <1>8 DEF L!End
<1>9. CASE UNCHANGED L!vars
  BY <1>9 DEF L!vars
<1> QED
  BY <1>1, <1>2, <1>3, <1>4, <1>5, <1>6, <1>7, <1>8, <1>9 DEF L!Next, L!Steps

\* log.c, main.c: all other threads are joined before log_close, so none of them is in __log,
\* or calls it, afterwards, whatever signals come.
LEMMA ClosedLastKept == L!TypeInvariant /\ L!ClosedLast /\ [L!Next]_(L!vars) => L!ClosedLast'
<1> SUFFICES ASSUME L!TypeInvariant, L!ClosedLast, [L!Next]_(L!vars) PROVE L!ClosedLast'
  OBVIOUS
<1> USE DEF L!TypeInvariant, L!ClosedLast, L!Misuse
<1>1. CASE L!Close
  BY <1>1 DEF L!Close
<1>2. ASSUME NEW t \in Threads, L!Call(t) PROVE L!ClosedLast'
  BY <1>2 DEF L!Call
<1>3. ASSUME NEW t \in Threads, L!Enter(t) PROVE L!ClosedLast'
  BY <1>3 DEF L!Enter
<1>4. ASSUME NEW t \in Threads, L!Leave(t) PROVE L!ClosedLast'
  BY <1>4 DEF L!Leave
<1>5. ASSUME NEW t \in Threads, L!HandlerEnter(t) PROVE L!ClosedLast'
  BY <1>5 DEF L!HandlerEnter
<1>6. ASSUME NEW t \in Threads, L!HandlerLeave(t) PROVE L!ClosedLast'
  BY <1>6 DEF L!HandlerLeave
<1>7. ASSUME NEW t \in Threads, L!Signal(t) PROVE L!ClosedLast'
  BY <1>7 DEF L!Signal
<1>8. ASSUME NEW t \in Threads, L!End(t) PROVE L!ClosedLast'
  BY <1>8 DEF L!End
<1>9. CASE UNCHANGED L!vars
  BY <1>9 DEF L!vars
<1> QED
  BY <1>1, <1>2, <1>3, <1>4, <1>5, <1>6, <1>7, <1>8, <1>9 DEF L!Next, L!Steps

\* log.c: the parts of a line stay together unless a signal has cut a wait short, and nobody
\* logs after log_close, for any number of threads, lines and signals (LogKept).
THEOREM LogIsKept == Spec => []LogKept
<1> DEFINE I == part = "log" => LogInv
<1>1. Init => I
  BY LogFirst DEF Init
<1>2. I /\ [Next]_vars => I'
  BY StepsOfParts, LogTypes, TokenKept, ClosedLastKept DEF OfItsPart, LogInv
<1>3. I => LogKept
  BY DEF LogInv, LogKept, L!UndisturbedToken, L!Token, L!UndisturbedWriter, L!ClosedLast,
     L!NoLogAfterClose
<1> QED
  BY <1>1, <1>2, <1>3, PTL DEF Spec

-----------------------------------------------------------------------------
(* Http.  The variables of its part: s1 is pc, s2 fault, s3 caller, s4 open, *)
(* s5 used, s6 held, s7 nwc, s8 chain, s9 resp, s10 size, s11 read, s12      *)
(* lost, s13 pages.                                                          *)

\* The answers a server can give.
Statuses == {"ok", "redirect", "other"}

\* http.c: whatever a step does, the buffer holds no more than the header and what the server
\* announced, with room for a 0 behind that.
LEMMA FitsKept == H!Fits /\ [H!Next]_(H!vars) => H!Fits'
<1> SUFFICES ASSUME H!Fits, [H!Next]_(H!vars) PROVE H!Fits'
  OBVIOUS
<1>0. BufferSize \in Nat /\ Headers \subseteq Nat /\ Contents \subseteq Nat
  BY LivePartsAssumption DEF H!SizesAssumption
<1> USE <1>0 DEF H!Fits, H!Null, H!Undefined, H!Finish, H!conn, H!body
<1>1. CASE H!Connect \/ H!SendToFreed
  BY <1>1 DEF H!Connect, H!Connected, H!Unconnected, H!SendToFreed
<1>2. CASE \/ H!HeaderLost \/ H!Redirect \/ H!RedirectUnparsable \/ H!RedirectUnreachable
           \/ H!NextPage \/ H!EndEntries \/ H!EndSubscriptions \/ H!Worker
  <2>1. s1' \notin {"body", "complete"} /\ s9' \in {s9, H!Null} /\ s11' = s11 /\ s10' = s10
    <3>1. CASE H!HeaderLost \/ H!RedirectUnparsable
      BY <3>1 DEF H!HeaderLost, H!RedirectUnparsable, H!ReturnNull
    <3>2. CASE H!Redirect \/ H!RedirectUnreachable
      BY <3>2 DEF H!Redirect, H!RedirectUnreachable
    <3>3. CASE H!NextPage
      BY <3>3 DEF H!NextPage
    <3>4. CASE H!EndEntries \/ H!EndSubscriptions \/ H!Worker
      BY <3>4 DEF H!EndEntries, H!EndSubscriptions, H!Worker, H!Disconnect
    <3> QED
      BY <1>2, <3>1, <3>2, <3>3, <3>4
  <2> QED
    BY <2>1
<1>3. ASSUME NEW s \in Statuses, NEW h \in Headers, NEW n \in Contents, H!Answer(s, h, n)
      PROVE  H!Fits'
  BY <1>3 DEF H!Answer, H!Returned
<1>4. CASE H!StartBody
  BY <1>4 DEF H!StartBody, H!Grow
<1>5. ASSUME NEW n \in 1..BufferSize, H!Receive(n) PROVE H!Fits'
  BY <1>5 DEF H!Receive
<1>6. CASE H!ReceiveFromFreed \/ H!ReceiveNothing \/ H!Lose \/ H!EndBody
  BY <1>6 DEF H!ReceiveFromFreed, H!ReceiveNothing, H!Lose, H!EndBody, H!vars
<1>7. CASE UNCHANGED H!vars
  BY <1>7 DEF H!vars
<1> QED
  BY <1>1, <1>2, <1>3, <1>4, <1>5, <1>6, <1>7 DEF H!Next, H!HeaderStep, H!BodyStep, Statuses

\* http.c: a redirect closes the connection it came by and opens the next one; the connections
\* of the redirects before are closed already.
LEMMA RedirectKeeps ==
  ASSUME H!Numbered, H!ClosesWhatItLeaves, H!Counted, H!Redirect
  PROVE  (H!Numbered /\ H!ClosesWhatItLeaves /\ H!Counted)'
<1> USE DEF H!Numbered, H!ClosesWhatItLeaves
<1>1. /\ s5' = s5 + 1 /\ s7' = s5 + 1 /\ s6' = s6 /\ s1 = "request" /\ s1' = s1 /\ s7 \in s4
      /\ s4' = (s4 \ {s7}) \cup {s5 + 1} /\ s8' = Append(s8, s5 + 1) /\ Len(s8) < MaxRedirects
  BY DEF H!Redirect, H!Send
<1>2. s8 \in Seq(1..s5 + 1) /\ s8' \in Seq(1..s5 + 1) /\ s8' # <<>>
      /\ Len(s8') = Len(s8) + 1 /\ Len(s8) \in Nat
  BY <1>1
<1>3. {s8'[i] : i \in DOMAIN s8'} = {s8[i] : i \in DOMAIN s8} \cup {s5 + 1}
  <2>1. DOMAIN s8 = 1..Len(s8) /\ DOMAIN s8' = 1..Len(s8) + 1 /\ Len(s8) \in Nat
    BY <1>1, <1>2
  <2>2. (\A i \in 1..Len(s8) : s8'[i] = s8[i]) /\ s8'[Len(s8) + 1] = s5 + 1
    BY <1>1, <1>2
  <2> QED
    BY <2>1, <2>2
<1>4. (s4 \ {s7}) \cap ({s6} \cup {s8[i] : i \in DOMAIN s8}) = {}
  BY <1>1
<1>5. H!ClosesWhatItLeaves'
  BY <1>1, <1>3, <1>4
<1>6. s5 \in Nat /\ s6 \in 0..s5 /\ s4 \subseteq 1..s5
  OBVIOUS
<1>7. H!Numbered'
  <2>1. s5' \in Nat /\ s6' \in 0..s5' /\ \A c \in s4' : c \in 1..s5'
    BY <1>1, <1>6
  <2> QED
    BY <1>1, <1>2, <2>1
<1>8. H!Counted'
  <2>1. s5 = 1 + Len(s8) /\ MaxRedirects \in Nat
    BY <1>1, LivePartsAssumption DEF H!Counted, H!SizesAssumption
  <2>2. s6 \notin s4'
    <3>1. CASE s8 = <<>>
      BY <1>1, <1>6, <3>1
    <3>2. CASE s8 # <<>>
      BY <1>1, <1>2, <1>4, <1>6, <3>2
    <3> QED
      BY <3>1, <3>2
  <2> QED
    BY <1>1, <1>2, <2>1, <2>2 DEF H!Counted
<1> QED
  BY <1>5, <1>7, <1>8

\* http.c: no other step opens a connection, but the caller's own at the start.
LEMMA ConnectionsKept ==
  ASSUME H!Numbered, H!ClosesWhatItLeaves, H!Counted, [H!Next]_(H!vars)
  PROVE  (H!Numbered /\ H!ClosesWhatItLeaves /\ H!Counted)'
<1> DEFINE I == H!Numbered /\ H!ClosesWhatItLeaves /\ H!Counted
<1>0. MaxRedirects \in Nat
  BY LivePartsAssumption DEF H!SizesAssumption
<1> USE <1>0 DEF H!Numbered, H!ClosesWhatItLeaves, H!Counted, H!Undefined, H!Finish, H!conn, H!body
<1>1. CASE H!Connect
  <2>1. s8 = <<>> /\ s8' = <<>> /\ s5 = 0 /\ Len(s8) = 0 /\ s6 \in 0..s5 /\ s4 \subseteq 1..s5
    BY <1>1 DEF H!Connect
  <2>2. CASE H!Connected
    BY <2>1, <2>2 DEF H!Connected
  <2>3. CASE H!Unconnected
    <3>1. s1' # "idle" /\ s1' # "request" /\ UNCHANGED <<s4, s5, s6, s7>>
      BY <2>3 DEF H!Unconnected
    <3> QED
      BY <2>1, <3>1
  <2> QED
    BY <1>1, <2>2, <2>3 DEF H!Connect
<1>2. CASE H!Redirect
  BY <1>2, RedirectKeeps
<1>3. CASE H!NextPage
  <2>1. /\ s1' = "request" /\ s7' = s6 /\ s8' = <<>> /\ UNCHANGED <<s4, s5, s6>>
        /\ Len(s8') = 0 /\ s8' \in Seq(1..s5)
    BY <1>3 DEF H!NextPage
  <2> QED
    BY <2>1
<1>4. ASSUME s1' \notin {"idle", "request"}, UNCHANGED <<s5, s6, s8>>, s4' \subseteq s4 PROVE I'
  BY <1>4
<1>5. CASE \/ H!SendToFreed \/ H!HeaderLost \/ H!RedirectUnparsable \/ H!RedirectUnreachable
           \/ H!StartBody \/ H!ReceiveFromFreed \/ H!Lose \/ H!EndBody
  <2>1. s1' \notin {"idle", "request"} /\ UNCHANGED <<s5, s6, s8>> /\ s4' \subseteq s4
    BY <1>5 DEF H!SendToFreed, H!HeaderLost, H!RedirectUnparsable, H!RedirectUnreachable,
       H!ReturnNull, H!StartBody, H!ReceiveFromFreed, H!Lose, H!EndBody
  <2> QED
    BY <2>1, <1>4
<1>6. ASSUME NEW s \in Statuses, NEW h \in Headers, NEW n \in Contents, H!Answer(s, h, n)
      PROVE  I'
  BY <1>4, <1>6 DEF H!Answer
<1>7. ASSUME NEW n \in 1..BufferSize, H!Receive(n) PROVE I'
  BY <1>4, <1>7 DEF H!Receive
<1>8. CASE H!EndEntries \/ H!EndSubscriptions \/ H!Worker
  <2>1. s1' \notin {"idle", "request"} /\ UNCHANGED <<s5, s6, s8>> /\ s4' \subseteq s4
    BY <1>8 DEF H!EndEntries, H!EndSubscriptions, H!Worker, H!Disconnect
  <2> QED
    BY <2>1, <1>4
<1>9. CASE H!ReceiveNothing \/ UNCHANGED H!vars
  BY <1>9 DEF H!vars, H!ReceiveNothing
<1> QED
  BY <1>1, <1>2, <1>3, <1>5, <1>6, <1>7, <1>8, <1>9 DEF H!Next, H!HeaderStep, H!BodyStep, Statuses

\* What is left of the types.
HttpTypes ==
    /\ s1 \in {"idle", "request", "returned", "body", "complete", "done", "undefined"}
    /\ s3 \in Callers /\ s7 \in 0..s5 /\ s9.nwc \in 0..s5 /\ s12 \in BOOLEAN
    /\ s13 \in 0..MaxPages

\* http.c, soundcloud.c: every connection in use is one that was opened, and no more pages are
\* fetched than there are.
LEMMA HttpTypesKept == ASSUME HttpTypes, H!Numbered, [H!Next]_(H!vars) PROVE HttpTypes'
<1>0. MaxPages \in Nat /\ MaxPages > 0 /\ s5 \in Nat /\ s6 \in 0..s5
  BY LivePartsAssumption DEF H!SizesAssumption, H!Numbered
<1> USE <1>0 DEF HttpTypes, H!Null, H!Undefined, H!Finish, H!conn, H!body
<1>any. ASSUME s1' \in {"request", "returned", "body", "complete", "done", "undefined"},
             UNCHANGED <<s3, s5, s7, s12, s13>>, s9' \in {s9, H!Null}
      PROVE  HttpTypes'
  <2>1. H!Null.nwc = 0
    OBVIOUS
  <2> HIDE DEF H!Null
  <2> QED
    BY <1>any, <2>1
<1>1. CASE H!Connect
  BY <1>1 DEF H!Connect, H!Connected, H!Unconnected
<1>2. CASE H!SendToFreed \/ H!HeaderLost \/ H!RedirectUnparsable \/ H!RedirectUnreachable
  <2>1. /\ s1' \in {"returned", "undefined"} /\ UNCHANGED <<s3, s5, s7, s12, s13>>
        /\ s9' \in {s9, H!Null}
    BY <1>2 DEF H!SendToFreed, H!HeaderLost, H!RedirectUnparsable, H!RedirectUnreachable,
       H!ReturnNull
  <2> QED
    BY <2>1, <1>any
<1>3. CASE H!Redirect
  BY <1>3 DEF H!Redirect
<1>4. ASSUME NEW s \in Statuses, NEW h \in Headers, NEW n \in Contents, H!Answer(s, h, n)
      PROVE  HttpTypes'
  <2>1. s8 # <<>> => s8[1] \in 1..s5
    BY DEF H!Numbered
  <2>2. s9'.nwc = IF s8 = <<>> THEN 0 ELSE s8[1]
    BY <1>4 DEF H!Answer, H!Returned
  <2> QED
    BY <1>4, <2>1, <2>2 DEF H!Answer
<1>5. CASE H!StartBody \/ H!ReceiveFromFreed \/ H!EndBody
  BY <1>5 DEF H!StartBody, H!ReceiveFromFreed, H!EndBody
<1>6. ASSUME NEW n \in 1..BufferSize, H!Receive(n) PROVE HttpTypes'
  BY <1>6 DEF H!Receive
<1>7. CASE H!Lose
  BY <1>7 DEF H!Lose
<1>8. CASE H!NextPage
  BY <1>8 DEF H!NextPage
<1>9. CASE H!EndEntries \/ H!EndSubscriptions \/ H!Worker
  <2>1. /\ s1' \in {"done", "undefined"} /\ UNCHANGED <<s3, s5, s7, s12, s13>>
        /\ s9' \in {s9, H!Null}
    BY <1>9 DEF H!EndEntries, H!EndSubscriptions, H!Worker, H!Disconnect
  <2> QED
    BY <2>1, <1>any
<1>10. CASE H!ReceiveNothing \/ UNCHANGED H!vars
  BY <1>10 DEF H!vars, H!ReceiveNothing
<1> QED
  BY <1>1, <1>2, <1>3, <1>4, <1>5, <1>6, <1>7, <1>8, <1>9, <1>10
  DEF H!Next, H!HeaderStep, H!BodyStep, Statuses

HttpInv == HttpTypes /\ H!Fits /\ H!Numbered /\ H!ClosesWhatItLeaves /\ H!Counted

\* http.c: before the request there is no connection, and nothing in the buffer.
LEMMA HttpFirst == H!Init => HttpInv
<1> SUFFICES ASSUME H!Init PROVE HttpInv
  OBVIOUS
<1>1. MaxPages \in Nat /\ MaxRedirects \in Nat
  BY LivePartsAssumption DEF H!SizesAssumption
<1>2. s9.nwc = 0 /\ s9.header = 0 /\ s9.length = 0 /\ s12 \in BOOLEAN
  BY DEF H!Init, H!Null
<1>3. HttpTypes
  BY <1>1, <1>2 DEF H!Init, HttpTypes
<1>4. H!Fits
  BY <1>2 DEF H!Init, H!Fits
<1>5. H!Numbered /\ H!ClosesWhatItLeaves /\ H!Counted
  BY <1>1 DEF H!Init, H!Numbered, H!ClosesWhatItLeaves, H!Counted
<1> QED
  BY <1>3, <1>4, <1>5 DEF HttpInv

\* http.c, soundcloud.c: each step keeps the invariant, ...
LEMMA HttpKept == HttpInv /\ [H!Next]_(H!vars) => HttpInv'
  BY HttpTypesKept, FitsKept, ConnectionsKept DEF HttpInv

\* ... from which the types follow.
LEMMA HttpTyped == HttpInv => H!TypeInvariant
  BY DEF HttpInv, HttpTypes, H!Fits, H!Numbered, H!Counted, H!TypeInvariant

\* http.c: a request that has been redirected, however often, has closed the connections it
\* came by, and header, body and the 0 behind them fit into the buffer, whatever their lengths
\* (RequestKept).
THEOREM RequestsAreKept == Spec => []RequestKept
<1> DEFINE I == part = "http" => HttpInv
<1>1. Init => I
  BY HttpFirst DEF Init
<1>2. I /\ [Next]_vars => I'
  BY StepsOfParts, HttpKept DEF OfItsPart
<1>3. I => RequestKept
  BY DEF HttpInv, H!Fits, RequestKept, H!BodyFits
<1> QED
  BY <1>1, <1>2, <1>3, PTL DEF Spec

-----------------------------------------------------------------------------
(* Connection.  The variables of its part: s1 is pc, s2 kind, s3 block, s4   *)
(* sock, s5 dropped, s6 addrs, s7 cert, s8 file, s9 known, s10 cut, s11 got, *)
(* s12 avail, s13 answer, s14 runs.                                          *)

\* The types, one variable after the other.
ConnTypes ==
    /\ s1 \in {"idle", "resolve", "try", "init", "connect", "handshake", "compare", "truncate",
               "write", "open", "recv", "byte", "ended", "failing"}
    /\ s2 \in {"plain", "tls"} /\ s3 \in BOOLEAN /\ s4 \in BOOLEAN /\ s10 \in BOOLEAN
    /\ s5 \subseteq {"block", "socket"} /\ s6 \in 0..MaxAddr
    /\ s7 \in Certs \cup {NoCert} /\ s8 \in Certs \cup {NoCert} /\ s9 \in Certs \cup {NoCert}
    /\ s11 \in 0..Wanted /\ s12 \in 0..MaxRecord /\ s13 \in {"none", "byte", "-1"}

ConnInv == ConnTypes /\ C!DropsAtEnd /\ C!LosesOnlyKnown /\ C!UndisturbedTrust

\* network/: at first there is no connection, and no certificate is remembered.
LEMMA ConnFirst == C!Init => ConnInv
<1> SUFFICES ASSUME C!Init PROVE ConnInv
  OBVIOUS
<1>1. MaxAddr \in Nat /\ Wanted \in Nat /\ MaxRecord \in Nat
  BY LivePartsAssumption DEF C!SizesAssumption
<1>2. ConnTypes
  <2>1. 0 \in 0..MaxAddr /\ 0 \in 0..Wanted /\ 0 \in 0..MaxRecord
    BY <1>1
  <2>2. s3 \in BOOLEAN /\ s4 \in BOOLEAN /\ s10 \in BOOLEAN
    BY DEF C!Init
  <2> QED
    BY <2>1, <2>2 DEF C!Init, ConnTypes
<1>3. C!DropsAtEnd /\ C!LosesOnlyKnown /\ C!UndisturbedTrust
  BY DEF C!Init, C!DropsAtEnd, C!LosesOnlyKnown, C!UndisturbedTrust, C!FileIsKnown
<1> QED
  BY <1>2, <1>3 DEF ConnInv

\* network/: every variable keeps to its type; a recv hands out no more than was asked for.
LEMMA ConnTypesKept == ConnTypes /\ [C!Next]_(C!vars) => ConnTypes'
<1> SUFFICES ASSUME ConnTypes, [C!Next]_(C!vars) PROVE ConnTypes'
  OBVIOUS
<1>0. MaxAddr \in Nat /\ Wanted \in Nat /\ MaxRecord \in Nat
  BY LivePartsAssumption DEF C!SizesAssumption
<1> USE <1>0 DEF ConnTypes, C!network, C!trust, C!reading
<1>1. ASSUME NEW k \in {"plain", "tls"}, C!Begin(k) PROVE ConnTypes'
  BY <1>1 DEF C!Begin
<1>2. CASE C!Plain
  <2>1. CASE C!ResolveFails \/ C!NoAddressLeft
    BY <2>1 DEF C!ResolveFails, C!NoAddressLeft, C!ReturnNull
  <2>2. CASE C!Resolve
    BY <2>2 DEF C!Resolve
  <2>3. CASE C!TryFails
    BY <2>3 DEF C!TryFails
  <2>4. CASE C!TryConnects
    BY <2>4 DEF C!TryConnects
  <2> QED
    BY <1>2, <2>1, <2>2, <2>3, <2>4 DEF C!Plain
<1>3. CASE C!Tls
  <2>1. CASE C!TlsFails \/ C!HandshakeFails \/ C!Mismatch
    BY <2>1 DEF C!TlsFails, C!HandshakeFails, C!Mismatch, C!ReturnNull
  <2>2. CASE C!TlsInit \/ C!TlsConnect \/ C!Compare \/ C!Truncate \/ C!WriteCert
    BY <2>2 DEF C!TlsInit, C!TlsConnect, C!Compare, C!Truncate, C!WriteCert
  <2>3. ASSUME NEW c \in Certs, C!Handshake(c) PROVE ConnTypes'
    BY <2>3 DEF C!Handshake
  <2> QED
    BY <1>3, <2>1, <2>2, <2>3 DEF C!Tls
<1>4. CASE C!Recv
  <2>1. ASSUME NEW n \in 1..MaxRecord, C!Take(n)
        PROVE  s11' \in 0..Wanted /\ s12' \in 0..MaxRecord /\ s1' \in {"open", "recv"}
    BY <2>1 DEF C!Take, C!Min2
  <2>2. CASE C!RecvRecord \/ C!RecvRest
    <3>1. \E n \in 1..MaxRecord : C!Take(n)
      BY <2>2 DEF C!RecvRecord, C!RecvRest
    <3>2. UNCHANGED <<s2, s3, s4, s5, s6, s7, s8, s9, s10, s13>>
      BY <2>2 DEF C!RecvRecord, C!RecvRest
    <3> QED
      BY <2>1, <3>1, <3>2
  <2>3. CASE C!RecvFull \/ C!RecvEnd \/ C!RecvPlain
    BY <2>3 DEF C!RecvFull, C!RecvEnd, C!RecvPlain
  <2> QED
    BY <1>4, <2>2, <2>3 DEF C!Recv
<1>5. CASE C!RecvByte
  <2>1. ASSUME NEW b \in {"0xFF", "other"}, C!Byte(b) PROVE ConnTypes'
    BY <2>1 DEF C!Byte
  <2>2. CASE C!ByteEnd \/ C!ByteError \/ C!ByteErrorAgain
    BY <2>2 DEF C!ByteEnd, C!ByteError, C!ByteErrorAgain, C!vars
  <2> QED
    BY <1>5, <2>1, <2>2 DEF C!RecvByte
<1>6. CASE C!BeginRecv \/ C!BeginByte
  <2>1. CASE C!BeginRecv
    BY <2>1 DEF C!BeginRecv
  <2>2. CASE C!BeginByte
    BY <2>2 DEF C!BeginByte
  <2> QED
    BY <1>6, <2>1, <2>2
<1>7. CASE C!Disconnect \/ C!EndedDisconnect
  BY <1>7 DEF C!Disconnect, C!EndedDisconnect
<1>8. CASE C!Crash
  BY <1>8 DEF C!Crash
<1>9. CASE UNCHANGED C!vars
  BY <1>9 DEF C!vars
<1> QED
  BY <1>1, <1>2, <1>3, <1>4, <1>5, <1>6, <1>7, <1>8, <1>9 DEF C!Next

\* network/: only a name that cannot be resolved and a mismatch of certificates lose anything.
LEMMA DropsKept ==
  ASSUME C!DropsAtEnd, C!LosesOnlyKnown, [C!Next]_(C!vars)
  PROVE  (C!DropsAtEnd /\ C!LosesOnlyKnown)'
<1> USE DEF C!DropsAtEnd, C!LosesOnlyKnown, C!network, C!trust, C!reading
<1>1. ASSUME NEW k \in {"plain", "tls"}, C!Begin(k) PROVE (C!DropsAtEnd /\ C!LosesOnlyKnown)'
  BY <1>1 DEF C!Begin
<1>2. CASE C!Plain
  <2>1. CASE C!ResolveFails \/ C!NoAddressLeft
    BY <2>1 DEF C!ResolveFails, C!NoAddressLeft, C!ReturnNull
  <2>2. CASE C!Resolve \/ C!TryFails \/ C!TryConnects
    BY <2>2 DEF C!Resolve, C!TryFails, C!TryConnects
  <2> QED
    BY <1>2, <2>1, <2>2 DEF C!Plain
<1>3. CASE C!Tls
  <2>1. CASE C!TlsFails \/ C!HandshakeFails
    BY <2>1 DEF C!TlsFails, C!HandshakeFails, C!ReturnNull
  <2>2. CASE C!Mismatch
    BY <2>2 DEF C!Mismatch, C!ReturnNull
  <2>3. CASE C!TlsInit \/ C!TlsConnect \/ C!Compare \/ C!Truncate \/ C!WriteCert
    BY <2>3 DEF C!TlsInit, C!TlsConnect, C!Compare, C!Truncate, C!WriteCert
  <2>4. ASSUME NEW c \in Certs, C!Handshake(c) PROVE (C!DropsAtEnd /\ C!LosesOnlyKnown)'
    BY <2>4 DEF C!Handshake
  <2> QED
    BY <1>3, <2>1, <2>2, <2>3, <2>4 DEF C!Tls
<1>4. CASE C!Recv
  BY <1>4 DEF C!Recv, C!RecvRecord, C!RecvRest, C!RecvFull, C!RecvEnd, C!RecvPlain, C!Take
<1>5. CASE C!RecvByte
  BY <1>5 DEF C!RecvByte, C!Byte, C!ByteEnd, C!ByteError, C!ByteErrorAgain, C!vars
<1>6. CASE C!BeginRecv \/ C!BeginByte \/ C!Disconnect \/ C!EndedDisconnect \/ UNCHANGED C!vars
  BY <1>6 DEF C!BeginRecv, C!BeginByte, C!Disconnect, C!EndedDisconnect, C!vars
<1>7. CASE C!Crash
  BY <1>7 DEF C!Crash
<1> QED
  BY <1>1, <1>2, <1>3, <1>4, <1>5, <1>6, <1>7 DEF C!Next

\* network/tls.c: a certificate other than the first gets past no comparison, so the file is
\* written with that one only; a crash between fopen and fclose is recorded in cut.
LEMMA TrustKept ==
  ASSUME C!DropsAtEnd, C!UndisturbedTrust, [C!Next]_(C!vars), ~s10' PROVE C!FileIsKnown'
<1> USE DEF C!DropsAtEnd, C!UndisturbedTrust, C!FileIsKnown, C!network, C!trust, C!reading
<1>1. ASSUME NEW k \in {"plain", "tls"}, C!Begin(k) PROVE C!FileIsKnown'
  BY <1>1 DEF C!Begin
<1>2. CASE C!Plain
  BY <1>2 DEF C!Plain, C!ResolveFails, C!NoAddressLeft, C!ReturnNull, C!Resolve, C!TryFails,
     C!TryConnects
<1>3. CASE C!Tls
  <2>1. CASE C!TlsFails \/ C!HandshakeFails \/ C!Mismatch
    BY <2>1 DEF C!TlsFails, C!HandshakeFails, C!Mismatch, C!ReturnNull
  <2>2. CASE C!TlsInit \/ C!TlsConnect
    BY <2>2 DEF C!TlsInit, C!TlsConnect
  <2>3. CASE C!Compare
    BY <2>3 DEF C!Compare
  <2>4. CASE C!Truncate
    BY <2>4 DEF C!Truncate
  <2>5. CASE C!WriteCert
    BY <2>5 DEF C!WriteCert
  <2>6. ASSUME NEW c \in Certs, C!Handshake(c) PROVE C!FileIsKnown'
    BY <2>6 DEF C!Handshake
  <2> QED
    BY <1>3, <2>1, <2>2, <2>3, <2>4, <2>5, <2>6 DEF C!Tls
<1>4. CASE C!Recv
  BY <1>4 DEF C!Recv, C!RecvRecord, C!RecvRest, C!RecvFull, C!RecvEnd, C!RecvPlain, C!Take
<1>5. CASE C!RecvByte
  BY <1>5 DEF C!RecvByte, C!Byte, C!ByteEnd, C!ByteError, C!ByteErrorAgain, C!vars
<1>6. CASE C!BeginRecv \/ C!BeginByte \/ C!Disconnect \/ C!EndedDisconnect \/ UNCHANGED C!vars
  BY <1>6 DEF C!BeginRecv, C!BeginByte, C!Disconnect, C!EndedDisconnect, C!vars
<1>7. CASE C!Crash
  <2>1. ~s10 /\ s1 # "write"
    <3>1. s10' = (s10 \/ s1 = "write")
      BY <1>7 DEF C!Crash
    <3> QED
      BY <3>1
  <2> QED
    BY <1>7, <2>1 DEF C!Crash
<1> QED
  BY <1>1, <1>2, <1>3, <1>4, <1>5, <1>6, <1>7 DEF C!Next

\* network/: each step keeps the invariant, ...
LEMMA ConnKept == ConnInv /\ [C!Next]_(C!vars) => ConnInv'
<1>1. ASSUME ConnInv, [C!Next]_(C!vars), ~s10' PROVE C!FileIsKnown'
  BY <1>1, TrustKept DEF ConnInv
<1> QED
  BY <1>1, ConnTypesKept, DropsKept DEF ConnInv, C!UndisturbedTrust

\* ... from which the types follow.
LEMMA ConnTyped == ConnInv => C!TypeInvariant
  BY DEF ConnInv, ConnTypes, C!TypeInvariant

\* network/: over any number of connections, restarts and crashes, a failed connection leaves
\* nothing behind but for the two known paths, and all encrypted connections of a server have
\* the certificate of the first (ConnectionKept).
THEOREM ConnectionsAreKept == Spec => []ConnectionKept
<1> DEFINE I == part = "connection" => ConnInv
<1>1. Init => I
  BY ConnFirst DEF Init
<1>2. I /\ [Next]_vars => I'
  BY StepsOfParts, ConnKept DEF OfItsPart
<1>3. I => ConnectionKept
  BY DEF ConnInv, ConnectionKept, C!UndisturbedTrust, C!FileIsKnown, C!KeepsFirstCertificate
<1> QED
  BY <1>1, <1>2, <1>3, PTL DEF Spec

-----------------------------------------------------------------------------
(* TrackCache and its lemmas, for a cache in the directory the program runs  *)
(* in, and for one elsewhere.                                                *)

TP == INSTANCE TrackCacheProofs WITH SameDir <- TRUE,
        pc <- s1, written <- s2, tries <- s3, claimed <- s4, folder <- s5, made <- s6, file <- s7,
        mapped <- s8, flag <- s9, crashes <- s10, disturbed <- s11
FP == INSTANCE TrackCacheProofs WITH SameDir <- FALSE,
        pc <- s1, written <- s2, tries <- s3, claimed <- s4, folder <- s5, made <- s6, file <- s7,
        mapped <- s8, flag <- s9, crashes <- s10, disturbed <- s11

\* What TP is about is what T is: the definitions are the same.
LEMMA CacheSame ==
  /\ TP!SizeAssumption
  /\ T!Init => TP!Init
  /\ [T!Next]_(T!vars) => [TP!Next]_(TP!vars)
  /\ TP!TypeInvariant => T!TypeInvariant
  /\ TP!CacheIsWhole => T!CacheIsWhole
<1>1. TP!SizeAssumption
  BY LivePartsAssumption DEF T!SizeAssumption, TP!SizeAssumption
<1>2. T!Init => TP!Init
  BY DEF T!Init, TP!Init, T!Quiet, TP!Quiet, T!None, TP!None
<1>3. T!Next => TP!Next
  BY DEF T!Next, T!PlayCached, T!Stop, T!Restart, T!PlayDownload, T!Finish, T!SaveStep, T!Open,
     T!OpenNoFolder, T!OpenFails, T!Mkdir, T!Write, T!Close, T!CloseFull, T!None, T!Quiet,
     T!Goto, T!Disturb, T!Saving, T!saving, T!disk, TP!Next, TP!PlayCached, TP!Stop,
     TP!Restart, TP!PlayDownload, TP!Finish, TP!SaveStep, TP!Open, TP!OpenNoFolder,
     TP!OpenFails, TP!Mkdir, TP!Write, TP!Close, TP!CloseFull, TP!None, TP!Quiet, TP!Goto,
     TP!Disturb, TP!Saving, TP!saving, TP!disk
<1>4. UNCHANGED T!vars => UNCHANGED TP!vars
  BY DEF T!vars, T!saving, T!disk, TP!vars, TP!saving, TP!disk
<1>5. TP!TypeInvariant => T!TypeInvariant
  BY DEF T!TypeInvariant, TP!TypeInvariant, T!None, TP!None
<1>6. TP!CacheIsWhole => T!CacheIsWhole
  BY DEF T!CacheIsWhole, TP!CacheIsWhole, T!None, TP!None, T!Saving, TP!Saving
<1> QED
  BY <1>1, <1>2, <1>3, <1>4, <1>5, <1>6

\* What FP is about is what F is: the definitions are the same.
LEMMA OtherCacheSame ==
  /\ FP!SizeAssumption
  /\ F!Init => FP!Init
  /\ [F!Next]_(F!vars) => [FP!Next]_(FP!vars)
  /\ FP!TypeInvariant => F!TypeInvariant
  /\ FP!CacheIsWhole => F!CacheIsWhole
<1>1. FP!SizeAssumption
  BY LivePartsAssumption DEF F!SizeAssumption, FP!SizeAssumption
<1>2. F!Init => FP!Init
  BY DEF F!Init, FP!Init, F!Quiet, FP!Quiet, F!None, FP!None
<1>3. F!Next => FP!Next
  BY DEF F!Next, F!PlayCached, F!Stop, F!Restart, F!PlayDownload, F!Finish, F!SaveStep, F!Open,
     F!OpenNoFolder, F!OpenFails, F!Mkdir, F!Write, F!Close, F!CloseFull, F!None, F!Quiet,
     F!Goto, F!Disturb, F!Saving, F!saving, F!disk, FP!Next, FP!PlayCached, FP!Stop,
     FP!Restart, FP!PlayDownload, FP!Finish, FP!SaveStep, FP!Open, FP!OpenNoFolder,
     FP!OpenFails, FP!Mkdir, FP!Write, FP!Close, FP!CloseFull, FP!None, FP!Quiet, FP!Goto,
     FP!Disturb, FP!Saving, FP!saving, FP!disk
<1>4. UNCHANGED F!vars => UNCHANGED FP!vars
  BY DEF F!vars, F!saving, F!disk, FP!vars, FP!saving, FP!disk
<1>5. FP!TypeInvariant => F!TypeInvariant
  BY DEF F!TypeInvariant, FP!TypeInvariant, F!None, FP!None
<1>6. FP!CacheIsWhole => F!CacheIsWhole
  BY DEF F!CacheIsWhole, FP!CacheIsWhole, F!None, FP!None, F!Saving, FP!Saving
<1> QED
  BY <1>1, <1>2, <1>3, <1>4, <1>5, <1>6

CacheInv == (part = "cache" => TP!Inv) /\ (part = "othercache" => FP!Inv)

\* cache.c, sound.c, main.c: both caches start and go on as TrackCacheProofs says.
LEMMA CacheKept == (Init => CacheInv) /\ (CacheInv /\ [Next]_vars => CacheInv')
<1>1. Init => CacheInv
  BY TP!First, FP!First, CacheSame, OtherCacheSame DEF Init, CacheInv
<1>2. CacheInv /\ [Next]_vars => CacheInv'
  BY StepsOfParts, TP!Kept, FP!Kept, CacheSame, OtherCacheSame DEF OfItsPart, CacheInv
<1> QED
  BY <1>1, <1>2

\* cache.c, sound.c: undisturbed, a mapped file is the whole track and stays it, and a track
\* is marked as cached only if all of it is on the disk, wherever the cache is and however
\* many downloads, pieces and restarts there are (CacheIsWhole).
THEOREM CachedTrackIsWhole == Spec => []CacheIsWhole
<1>1. CacheInv => CacheIsWhole
  BY TP!Whole, FP!Whole, CacheSame, OtherCacheSame DEF CacheInv, CacheIsWhole
<1> QED
  BY <1>1, CacheKept, PTL DEF Spec

-----------------------------------------------------------------------------
(* Selection and its lemmas, for two sizes of lists. *)

SP == INSTANCE SelectionProofs WITH Steps <- Moves,
        lists <- s1, current <- s2, playing <- s3, lines <- s4, pc <- s5, victim <- s6
EP == INSTANCE SelectionProofs WITH MaxLists <- FewLists, Streams <- FewStreams,
        Bookmarks <- FewBookmarks, Users <- FewUsers, MaxTracks <- FewTracks,
        Heights <- FewHeights, Steps <- FewMoves, Places <- FewPlaces, W <- FewW,
        lists <- s1, current <- s2, playing <- s3, lines <- s4, pc <- s5, victim <- s6

\* What SP is about is what S is: the definitions are the same.
LEMMA SelectionSame ==
  /\ SP!SizesAssumption
  /\ S!Init => SP!Init
  /\ [S!Next]_(S!vars) => [SP!Next]_(SP!vars)
  /\ SP!TypeInvariant => S!TypeInvariant
  /\ SP!EmptyNotShown => S!EmptyNotShown
  /\ SP!StraysByGoto => S!StraysByGoto
  /\ SP!EndsWithSelection => S!EndsWithSelection
<1>1. SP!SizesAssumption
  BY LivePartsAssumption DEF S!SizesAssumption, SP!SizesAssumption, S!Lengths, SP!Lengths
<1>2. S!Init => SP!Init
  BY DEF S!Init, SP!Init, S!Fresh, SP!Fresh, S!NoTrack, SP!NoTrack
<1>3. S!Next => SP!Next
  BY DEF S!Next, S!Command, S!SwitchToList, S!Add, S!GotoPlaying, S!GotoEnd, S!Del, S!Play,
     S!Stop, S!GotoBy, S!GotoAt, S!Search, S!AddList, S!Delete, S!Show, S!Focus,
     S!ScrollUp, S!ScrollDown, S!NextTrack, S!Resize, S!NoTrack, S!Fresh, S!Shown, S!Sel,
     S!Last, S!Select, S!AddDelta, S!Goto, S!Visible, S!Half, S!FocusDone, S!MoveTo,
     S!FocusAt, SP!Next, SP!Command, SP!SwitchToList, SP!Add, SP!GotoPlaying, SP!GotoEnd,
     SP!Del, SP!Play, SP!Stop, SP!GotoBy, SP!GotoAt, SP!Search, SP!AddList, SP!Delete,
     SP!Show, SP!Focus, SP!ScrollUp, SP!ScrollDown, SP!NextTrack, SP!Resize, SP!NoTrack,
     SP!Fresh, SP!Shown, SP!Sel, SP!Last, SP!Select, SP!AddDelta, SP!Goto, SP!Visible,
     SP!Half, SP!FocusDone, SP!MoveTo, SP!FocusAt
<1>4. UNCHANGED S!vars => UNCHANGED SP!vars
  BY DEF S!vars, SP!vars
<1>5. SP!TypeInvariant => S!TypeInvariant
  BY DEF S!TypeInvariant, SP!TypeInvariant, S!NoTrack, SP!NoTrack
<1>6. SP!EmptyNotShown => S!EmptyNotShown
  BY DEF S!EmptyNotShown, SP!EmptyNotShown, S!Shown, SP!Shown
<1>7. SP!StraysByGoto => S!StraysByGoto
  BY DEF S!StraysByGoto, S!AllListed, S!Shown, S!Sel, S!GotoPlaying, S!GotoAt, S!Goto,
     S!Select, SP!StraysByGoto, SP!AllListed, SP!Shown, SP!Sel, SP!GotoPlaying, SP!GotoAt,
     SP!Goto, SP!Select
<1>8. SP!EndsWithSelection => S!EndsWithSelection
  BY DEF S!EndsWithSelection, S!Showing, S!Sel, S!Shown, S!Visible, SP!EndsWithSelection,
     SP!Showing, SP!Sel, SP!Shown, SP!Visible
<1> QED
  BY <1>1, <1>2, <1>3, <1>4, <1>5, <1>6, <1>7, <1>8

\* What EP is about is what E is: the definitions are the same.
LEMMA ListsSame ==
  /\ EP!SizesAssumption
  /\ E!Init => EP!Init
  /\ [E!Next]_(E!vars) => [EP!Next]_(EP!vars)
  /\ EP!TypeInvariant => E!TypeInvariant
  /\ EP!EmptyNotShown => E!EmptyNotShown
  /\ EP!StraysByGoto => E!StraysByGoto
  /\ EP!EndsWithSelection => E!EndsWithSelection
<1>1. EP!SizesAssumption
  BY LivePartsAssumption DEF E!SizesAssumption, EP!SizesAssumption, E!Lengths, EP!Lengths
<1>2. E!Init => EP!Init
  BY DEF E!Init, EP!Init, E!Fresh, EP!Fresh, E!NoTrack, EP!NoTrack
<1>3. E!Next => EP!Next
  BY DEF E!Next, E!Command, E!SwitchToList, E!Add, E!GotoPlaying, E!GotoEnd, E!Del, E!Play,
     E!Stop, E!GotoBy, E!GotoAt, E!Search, E!AddList, E!Delete, E!Show, E!Focus,
     E!ScrollUp, E!ScrollDown, E!NextTrack, E!Resize, E!NoTrack, E!Fresh, E!Shown, E!Sel,
     E!Last, E!Select, E!AddDelta, E!Goto, E!Visible, E!Half, E!FocusDone, E!MoveTo,
     E!FocusAt, EP!Next, EP!Command, EP!SwitchToList, EP!Add, EP!GotoPlaying, EP!GotoEnd,
     EP!Del, EP!Play, EP!Stop, EP!GotoBy, EP!GotoAt, EP!Search, EP!AddList, EP!Delete,
     EP!Show, EP!Focus, EP!ScrollUp, EP!ScrollDown, EP!NextTrack, EP!Resize, EP!NoTrack,
     EP!Fresh, EP!Shown, EP!Sel, EP!Last, EP!Select, EP!AddDelta, EP!Goto, EP!Visible,
     EP!Half, EP!FocusDone, EP!MoveTo, EP!FocusAt
<1>4. UNCHANGED E!vars => UNCHANGED EP!vars
  BY DEF E!vars, EP!vars
<1>5. EP!TypeInvariant => E!TypeInvariant
  BY DEF E!TypeInvariant, EP!TypeInvariant, E!NoTrack, EP!NoTrack
<1>6. EP!EmptyNotShown => E!EmptyNotShown
  BY DEF E!EmptyNotShown, EP!EmptyNotShown, E!Shown, EP!Shown
<1>7. EP!StraysByGoto => E!StraysByGoto
  BY DEF E!StraysByGoto, E!AllListed, E!Shown, E!Sel, E!GotoPlaying, E!GotoAt, E!Goto,
     E!Select, EP!StraysByGoto, EP!AllListed, EP!Shown, EP!Sel, EP!GotoPlaying, EP!GotoAt,
     EP!Goto, EP!Select
<1>8. EP!EndsWithSelection => E!EndsWithSelection
  BY DEF E!EndsWithSelection, E!Showing, E!Sel, E!Shown, E!Visible, EP!EndsWithSelection,
     EP!Showing, EP!Sel, EP!Shown, EP!Visible
<1> QED
  BY <1>1, <1>2, <1>3, <1>4, <1>5, <1>6, <1>7, <1>8

SelectionInv == (part = "selection" => SP!Inv) /\ (part = "lists" => EP!Inv)

\* state.c, commands/playlist.c, tui.c: both parts start and go on as SelectionProofs says.
LEMMA SelectionInvKept == (Init => SelectionInv) /\ (SelectionInv /\ [Next]_vars => SelectionInv')
<1>1. Init => SelectionInv
  BY SP!First, EP!First, SelectionSame, ListsSame DEF Init, SelectionInv
<1>2. SelectionInv /\ [Next]_vars => SelectionInv'
  BY StepsOfParts, SP!Kept, EP!Kept, SelectionSame, ListsSame DEF OfItsPart, SelectionInv
<1> QED
  BY <1>1, <1>2

\* commands/playlist.c, state.c, tui.c: the selection of every list stays in the list unless
\* a goto to a number, or to a track that is no longer there, is run; the Stream is the only
\* list shown without a track; and tui_track_focus ends with the selected track on the screen.
\* This for any lists, tracks, goto arguments and terminals of at least eight lines
\* (SelectionKept).
THEOREM SelectionIsKept == Spec => SelectionKept
<1> DEFINE Kept ==
      /\ part = "selection" => S!StraysByGoto /\ S!EndsWithSelection /\ S!EmptyNotShown'
      /\ part = "lists" => E!StraysByGoto /\ E!EndsWithSelection /\ E!EmptyNotShown'
<1>1. SelectionInv /\ [Next]_vars => Kept
  <2> SUFFICES ASSUME SelectionInv, [Next]_vars PROVE Kept
    OBVIOUS
  <2>1. CASE part = "selection"
    <3>1. SP!Inv /\ [SP!Next]_(SP!vars)
      BY <2>1, StepsOfParts, SelectionSame DEF OfItsPart, SelectionInv
    <3>2. SP!StraysByGoto /\ SP!EndsWithSelection /\ SP!Inv'
      BY <3>1, SelectionSame, SP!Strays, SP!Ends, SP!Kept
    <3>3. S!EmptyNotShown'
      BY <3>2 DEF SP!Inv, SP!EmptyNotShown, SP!Shown, S!EmptyNotShown, S!Shown
    <3> QED
      BY <2>1, <3>2, <3>3, SelectionSame
  <2>2. CASE part = "lists"
    <3>1. EP!Inv /\ [EP!Next]_(EP!vars)
      BY <2>2, StepsOfParts, ListsSame DEF OfItsPart, SelectionInv
    <3>2. EP!StraysByGoto /\ EP!EndsWithSelection /\ EP!Inv'
      BY <3>1, ListsSame, EP!Strays, EP!Ends, EP!Kept
    <3>3. E!EmptyNotShown'
      BY <3>2 DEF EP!Inv, EP!EmptyNotShown, EP!Shown, E!EmptyNotShown, E!Shown
    <3> QED
      BY <2>2, <3>2, <3>3, ListsSame
  <2> QED
    BY <2>1, <2>2
<1> QED
  BY <1>1, SelectionInvKept, PTL DEF Spec, SelectionKept

-----------------------------------------------------------------------------

\* log.c, cache.c, http.c, network/, state.c: every variable of every part keeps to its type,
\* whatever the sizes: no index leaves a size_t, no counter its bound (TypeInvariant).
THEOREM TypesAreKept == Spec => []TypeInvariant
<1> DEFINE I == /\ SelectionInv /\ CacheInv
                /\ part = "log" => LogInv
                /\ part = "http" => HttpInv
                /\ part = "connection" => ConnInv
<1>1. Init => I
  BY SelectionInvKept, CacheKept, LogFirst, HttpFirst, ConnFirst DEF Init
<1>2. I /\ [Next]_vars => I'
  BY StepsOfParts, SelectionInvKept, CacheKept, LogTypes, TokenKept, ClosedLastKept, HttpKept,
     ConnKept
  DEF OfItsPart, LogInv
<1>3. I => TypeInvariant
  BY SP!Typed, EP!Typed, SelectionSame, ListsSame, TP!Typed, FP!Typed, CacheSame,
     OtherCacheSame, HttpTyped, ConnTyped
  DEF SelectionInv, CacheInv, LogInv, TypeInvariant
<1> QED
  BY <1>1, <1>2, <1>3, PTL DEF Spec
=============================================================================
