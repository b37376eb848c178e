----------------------------- MODULE LiveParts ------------------------------
(***************************************************************************)
(* The parts of the program that have to come to an end by themselves, one *)
(* at a time: `part', which never changes, says which.  They share no      *)
(* state, so their state graphs are explored side by side instead of as a  *)
(* product.  Each is an instance of its module on the first of the         *)
(* variables s1 ... s15, in the order of its VARIABLES; the rest is "off". *)
(***************************************************************************)
EXTENDS Integers, Sequences, TLC

CONSTANTS
    MaxLists, Streams, Bookmarks, Users,            \* Selection
    MaxTracks, Heights, Moves, Places, W,
    FewLists, FewStreams, FewBookmarks, FewUsers,   \* Selection again, with few tracks in
    FewTracks, FewHeights, FewMoves, FewPlaces, FewW, \* several lists
    Threads, Main, MaxSignals, MaxLines,            \* Log: all of Threads are joined
    Savers, Size, Full, MaxCrashes,                 \* TrackCache
    MaxRedirects, BufferSize, Headers, Contents,    \* Http
    MaxPages, Callers,
    Certs, NoCert, MaxAddr, Wanted, MaxRecord, MaxRuns \* Connection

VARIABLES part, s1, s2, s3, s4, s5, s6, s7, s8, s9, s10, s11, s12, s13, s14, s15

After13 == <<s14, s15>>
After11 == <<s12, s13, After13>>
After9 == <<s10, s11, After11>>
After6 == <<s7, s8, s9, After9>>
vars == <<part, s1, s2, s3, s4, s5, s6, After6>>

Off13 == s14 = "off" /\ s15 = "off"
Off11 == s12 = "off" /\ s13 = "off" /\ Off13
Off9 == s10 = "off" /\ s11 = "off" /\ Off11
Off6 == s7 = "off" /\ s8 = "off" /\ s9 = "off" /\ Off9

-----------------------------------------------------------------------------
(* The parts *)

S == INSTANCE Selection WITH Steps <- Moves,
        lists <- s1, current <- s2, playing <- s3, lines <- s4, pc <- s5, victim <- s6
E == INSTANCE Selection WITH MaxLists <- FewLists, Streams <- FewStreams,
        Bookmarks <- FewBookmarks, Users <- FewUsers, MaxTracks <- FewTracks,
        Heights <- FewHeights, Steps <- FewMoves, Places <- FewPlaces, W <- FewW,
        lists <- s1, current <- s2, playing <- s3, lines <- s4, pc <- s5, victim <- s6
L == INSTANCE Log WITH Joined <- Threads \ {Main},
        pc <- s1, handler <- s2, blocked <- s3, cut <- s4, log_sem <- s5, log <- s6, misused <- s7,
        lines <- s8, signals <- s9
\* The folder of the cache is the one the program runs in, or another.
T == INSTANCE TrackCache WITH SameDir <- TRUE,
        pc <- s1, written <- s2, tries <- s3, claimed <- s4, folder <- s5, made <- s6, file <- s7,
        mapped <- s8, flag <- s9, crashes <- s10, disturbed <- s11
F == INSTANCE TrackCache WITH SameDir <- FALSE,
        pc <- s1, written <- s2, tries <- s3, claimed <- s4, folder <- s5, made <- s6, file <- s7,
        mapped <- s8, flag <- s9, crashes <- s10, disturbed <- s11
H == INSTANCE Http WITH Lengths <- Contents,
        pc <- s1, fault <- s2, caller <- s3, open <- s4, used <- s5, held <- s6, nwc <- s7,
        chain <- s8, resp <- s9, size <- s10, read <- s11, lost <- s12, pages <- s13
C == INSTANCE Connection WITH
        pc <- s1, kind <- s2, block <- s3, sock <- s4, dropped <- s5, addrs <- s6, cert <- s7,
        file <- s8, known <- s9, cut <- s10, got <- s11, avail <- s12, answer <- s13, runs <- s14

ASSUME LivePartsAssumption ==
    /\ S!SizesAssumption /\ E!SizesAssumption /\ L!ThreadsAssumption
    /\ T!SizeAssumption /\ F!SizeAssumption /\ H!SizesAssumption /\ C!SizesAssumption

Init ==
    \/ part = "selection" /\ S!Init /\ Off6
    \/ part = "lists" /\ E!Init /\ Off6
    \/ part = "log" /\ L!Init /\ Off9
    \/ part = "cache" /\ T!Init /\ Off11
    \/ part = "othercache" /\ F!Init /\ Off11
    \/ part = "http" /\ H!Init /\ Off13
    \/ part = "connection" /\ C!Init /\ s15 = "off"

\* A step of part p, the variables after its own being left as they are.
Step(p, action, after) == part = p /\ action /\ UNCHANGED <<part, after>>

Next ==
    \/ Step("selection", S!Next, After6)
    \/ Step("lists", E!Next, After6)
    \/ Step("log", L!Next, After9)
    \/ Step("cache", T!Next, After11)
    \/ Step("othercache", F!Next, After11)
    \/ Step("http", H!Next, After13)
    \/ Step("connection", C!Next, s15)

\* Each part has the fairness of its own specification.
Fairness ==
    /\ WF_vars(Step("selection", S!Show, After6)) /\ WF_vars(Step("selection", S!Delete, After6))
    /\ WF_vars(Step("lists", E!Show, After6)) /\ WF_vars(Step("lists", E!Delete, After6))
    /\ \A t \in Threads : WF_vars(Step("log", L!Steps(t), After9))
    /\ \A d \in Savers :
        /\ WF_vars(Step("cache", T!SaveStep(d), After11))
        /\ WF_vars(Step("othercache", F!SaveStep(d), After11))
    /\ WF_vars(Step("http", H!BodyStep, After13))
    /\ WF_vars(Step("connection", C!Recv, s15)) /\ WF_vars(Step("connection", C!RecvByte, s15))

Spec == Init /\ [][Next]_vars /\ Fairness

-----------------------------------------------------------------------------
(* Properties: those of the parts, each while its part is explored *)

\* Every variable of every part keeps to its type.
TypeInvariant ==
    /\ part = "selection" => S!TypeInvariant
    /\ part = "lists" => E!TypeInvariant
    /\ part = "log" => L!TypeInvariant
    /\ part = "cache" => T!TypeInvariant
    /\ part = "othercache" => F!TypeInvariant
    /\ part = "http" => H!TypeInvariant
    /\ part = "connection" => C!TypeInvariant

\* log.c: one thread writes at a time, its signal handler included, unless a wait for
\* log_sem was cut short; nobody is in __log, or calls it, after the log has been closed.
LogKept == part = "log" => L!UndisturbedWriter /\ L!NoLogAfterClose

\* cache.c: undisturbed, what is played from the cache is the whole track.
CacheIsWhole == (part = "cache" => T!CacheIsWhole) /\ (part = "othercache" => F!CacheIsWhole)

\* http.c: a request has closed every connection it was redirected from, and its buffer has
\* room for the body and the 0 behind it.
RequestKept == part = "http" => H!ClosesWhatItLeaves /\ H!BodyFits

\* network/: a failed connection leaves nothing behind, but for two known paths, and a
\* server keeps the certificate it had at first, over restarts and crashes.
ConnectionKept == part = "connection" => C!LosesOnlyKnown /\ C!KeepsFirstCertificate

\* state.c, commands/playlist.c, tui.c: the selection leaves a list only by a goto to a
\* number, an empty list is not shown, and tui_track_focus ends with the selected track on
\* the screen.
SelectionKept ==
    [][/\ part = "selection" => S!StraysByGoto /\ S!EndsWithSelection /\ S!EmptyNotShown'
       /\ part = "lists" => E!StraysByGoto /\ E!EndsWithSelection /\ E!EmptyNotShown']_vars

\* Everything that has to end does: scrolling to a track that is listed; a call of __log,
\* unless SIGINT's handler waits for what its own thread holds; cache_track_save, with or
\* without a folder; receiving a body, unless the server is lost; one receive of a
\* connection.
PartsEnd ==
    /\ (part = "selection" /\ S!ShowsListed) ~> (part = "selection" /\ ~S!Showing)
    /\ (part = "lists" /\ E!ShowsListed) ~> (part = "lists" /\ ~E!Showing)
    /\ \A t \in Threads :
        (part = "log" /\ L!Waits(t)) ~> (part = "log" /\ L!ReturnedOrStuck(t))
    /\ \A d \in Savers :
        /\ (part = "cache" /\ T!Opens(d)) ~> (part = "cache" /\ T!Saved(d))
        /\ (part = "othercache" /\ F!Opens(d)) ~> (part = "othercache" /\ F!Saved(d))
    /\ (part = "http" /\ H!Receiving) ~> (part = "http" /\ (~H!Receiving \/ s12))
    /\ (part = "connection" /\ C!Receiving) ~> (part = "connection" /\ ~C!Receiving)
=============================================================================
