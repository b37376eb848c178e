-------------------------- MODULE TrackCacheProofs --------------------------
(***************************************************************************)
(* What is played from the cache is the whole track, for any number of     *)
(* downloads, pieces and restarts, as long as nothing happens in the       *)
(* middle of a save; cache_track_save calls itself once at the most.  The  *)
(* lemmas are about single steps: LivePartsProofs uses them for a cache in *)
(* the directory the program runs in, and for one elsewhere.               *)
(***************************************************************************)
EXTENDS TrackCache, TLAPS

\* The types without the number of calls of fopen, which needs an argument of its own.
Types ==
    /\ pc \in [Savers -> {"none", "recv", "open", "mkdir", "write"}]
    /\ written \in [Savers -> 0..Size] /\ claimed \in [Savers -> BOOLEAN]
    /\ folder \in BOOLEAN /\ made \in BOOLEAN /\ file \in {None} \cup 0..Size
    /\ mapped \in {None} \cup 1..Size /\ flag \in BOOLEAN /\ disturbed \in BOOLEAN
    /\ crashes \in 0..MaxCrashes

\* fopen is called a second time only after the folder has been made, and then no more.
TwoTries ==
    /\ tries \in [Savers -> 0..2]
    /\ \A s \in Savers :
        /\ pc[s] = "open" => tries[s] = 0 \/ (tries[s] = 1 /\ made)
        /\ pc[s] = "mkdir" => tries[s] = 1 \/ (tries[s] = 2 /\ made)

\* While nothing has disturbed a save there is one at most; it begins without a file, and the
\* file grows with what it writes; between saves there is no file, or all of it.
OneSave ==
    /\ \A s, t \in Savers : pc[s] # "none" /\ pc[t] # "none" => s = t
    /\ \A s \in Savers : pc[s] \in {"recv", "open", "mkdir"} => file = None
    /\ \A s \in Savers : pc[s] \in {"open", "mkdir"} => written[s] = 0
    /\ \A s \in Savers : pc[s] = "write" => file = written[s]
    /\ (\A s \in Savers : pc[s] = "none") => file \in {None, Size}
    /\ mapped # None => mapped = Size /\ file = Size
    /\ flag => file = Size

Inv == Types /\ TwoTries /\ (~disturbed => OneSave)

\* cache.c, main.c: at the start nothing is saved, and no file is marked.
LEMMA First == ASSUME SizeAssumption, Init PROVE Inv
<1>1. 0 \in 0..Size /\ 0 \in 0..MaxCrashes
  BY DEF SizeAssumption
<1>2. made \in BOOLEAN
  BY DEF Init, SizeAssumption
<1>3. /\ pc = Quiet /\ written = [s \in Savers |-> 0] /\ tries = [s \in Savers |-> 0]
      /\ claimed = [s \in Savers |-> FALSE] /\ file = None /\ mapped = None
      /\ folder \in BOOLEAN /\ flag = FALSE /\ crashes = 0 /\ disturbed = FALSE
  BY DEF Init
<1>4. Types
  BY <1>1, <1>2, <1>3 DEF Types, Quiet
<1>5. TwoTries /\ OneSave
  BY <1>3 DEF TwoTries, OneSave, Quiet, None
<1> QED
  BY <1>4, <1>5 DEF Inv

\* sound.c, cache.c, main.c: each step keeps the types.
LEMMA TypesKept == ASSUME SizeAssumption, Types, [Next]_vars PROVE Types'
<1> USE DEF Types, Goto, Disturb, Saving, Quiet, None, SizeAssumption, saving, disk
<1>1. CASE PlayCached
  BY <1>1 DEF PlayCached
<1>2. CASE Stop
  BY <1>2 DEF Stop
<1>3. CASE Restart
  BY <1>3 DEF Restart
<1>4. ASSUME NEW s \in Savers, PlayDownload(s) PROVE Types'
  BY <1>4 DEF PlayDownload
<1>5. ASSUME NEW s \in Savers, Finish(s) PROVE Types'
  BY <1>5 DEF Finish
<1>6. ASSUME NEW s \in Savers, Open(s) \/ OpenNoFolder(s) \/ OpenFails(s) PROVE Types'
  BY <1>6 DEF Open, OpenNoFolder, OpenFails
<1>7. ASSUME NEW s \in Savers, Mkdir(s) PROVE Types'
  BY <1>7 DEF Mkdir
<1>8. ASSUME NEW s \in Savers, Write(s) PROVE Types'
  BY <1>8 DEF Write
<1>9. ASSUME NEW s \in Savers, Close(s) \/ CloseFull(s) PROVE Types'
  BY <1>9 DEF Close, CloseFull
<1>10. CASE UNCHANGED vars
  BY <1>10 DEF vars
<1> QED
  BY <1>1, <1>2, <1>3, <1>4, <1>5, <1>6, <1>7, <1>8, <1>9, <1>10 DEF Next, SaveStep

\* cache_track_save: it calls itself only where mkdir has made the folder just now, which
\* happens once.
LEMMA TriesKept == ASSUME Types, TwoTries, [Next]_vars PROVE TwoTries'
<1> USE DEF Types, TwoTries, Goto
<1>1. CASE PlayCached \/ Stop \/ UNCHANGED vars
  BY <1>1 DEF PlayCached, Stop, vars, saving, disk
<1>2. CASE Restart
  BY <1>2 DEF Restart, Quiet, disk
<1>3. ASSUME NEW s \in Savers, PlayDownload(s) \/ Finish(s) PROVE TwoTries'
  <2>1. made' = made /\ (tries' = tries \/ tries' = [tries EXCEPT ![s] = 0])
    BY <1>3 DEF PlayDownload, Finish, disk
  <2>2. pc' = [pc EXCEPT ![s] = "recv"] \/ (pc' = [pc EXCEPT ![s] = "open"] /\ tries'[s] = 0)
    BY <1>3 DEF PlayDownload, Finish
  <2> QED
    BY <2>1, <2>2
<1>4. ASSUME NEW s \in Savers, Open(s) \/ OpenNoFolder(s) \/ OpenFails(s) PROVE TwoTries'
  <2>1. /\ pc[s] = "open" /\ tries' = [tries EXCEPT ![s] = @ + 1] /\ made' = made
        /\ \E to \in {"write", "mkdir", "none"} : pc' = [pc EXCEPT ![s] = to]
    BY <1>4 DEF Open, OpenNoFolder, OpenFails, disk
  <2>2. tries[s] + 1 \in 1..2
    BY <2>1
  <2> QED
    BY <2>1, <2>2
<1>5. ASSUME NEW s \in Savers, Mkdir(s) PROVE TwoTries'
  BY <1>5 DEF Mkdir
<1>6. ASSUME NEW s \in Savers, Write(s) \/ Close(s) \/ CloseFull(s) PROVE TwoTries'
  BY <1>6 DEF Write, Close, CloseFull, disk
<1> QED
  BY <1>1, <1>2, <1>3, <1>4, <1>5, <1>6 DEF Next, SaveStep

\* cache.c, sound.c: a step that does not disturb a save leaves one save at the most, with a
\* file as long as what it has written.
LEMMA OneSaveKept ==
  ASSUME SizeAssumption, Types, OneSave, [Next]_vars, ~disturbed' PROVE OneSave'
<1>0. SizeAssumption
  OBVIOUS
<1> USE <1>0 DEF Types, OneSave, Goto, Disturb, Saving, Quiet, None, SizeAssumption, saving, disk
<1>1. CASE PlayCached
  BY <1>1 DEF PlayCached
<1>2. CASE Stop
  BY <1>2 DEF Stop
<1>3. CASE Restart
  BY <1>3 DEF Restart
<1>4. ASSUME NEW s \in Savers, PlayDownload(s) PROVE OneSave'
  <2>1. ~disturbed /\ \A t \in Savers : pc[t] = "none"
    <3>1. disturbed' = (disturbed \/ \E t \in Savers : pc[t] # "none")
      BY <1>4, Zenon DEF PlayDownload
    <3> QED
      BY <3>1
  <2>2. file = None /\ ~flag
    BY <1>4, <2>1 DEF PlayDownload
  <2>3. pc' = [pc EXCEPT ![s] = "recv"] /\ mapped' = None /\ UNCHANGED <<written, file, flag>>
    BY <1>4 DEF PlayDownload
  <2> QED
    BY <2>1, <2>2, <2>3
<1>5. ASSUME NEW s \in Savers, Finish(s) PROVE OneSave'
  BY <1>5 DEF Finish
<1>6. ASSUME NEW s \in Savers, Open(s) PROVE OneSave'
  BY <1>6 DEF Open
<1>7. ASSUME NEW s \in Savers, OpenNoFolder(s) \/ OpenFails(s) PROVE OneSave'
  BY <1>7 DEF OpenNoFolder, OpenFails
<1>8. ASSUME NEW s \in Savers, Mkdir(s) PROVE OneSave'
  BY <1>8 DEF Mkdir
<1>9. ASSUME NEW s \in Savers, Write(s) PROVE OneSave'
  BY <1>9 DEF Write
<1>10. ASSUME NEW s \in Savers, Close(s) \/ CloseFull(s) PROVE OneSave'
  BY <1>10 DEF Close, CloseFull
<1>11. CASE UNCHANGED vars
  BY <1>11 DEF vars
<1> QED
  BY <1>1, <1>2, <1>3, <1>4, <1>5, <1>6, <1>7, <1>8, <1>9, <1>10, <1>11 DEF Next, SaveStep

\* cache.c: what has been disturbed once stays so.
LEMMA Kept == ASSUME SizeAssumption, Inv, [Next]_vars PROVE Inv'
<1>1. disturbed => disturbed'
  BY DEF Next, SaveStep, PlayCached, PlayDownload, Stop, Finish, Open, OpenNoFolder, OpenFails,
         Mkdir, Write, Close, CloseFull, Restart, Disturb, vars
<1> QED
  BY <1>1, TypesKept, TriesKept, OneSaveKept DEF Inv

\* TypeInvariant and CacheIsWhole follow from the invariant.
LEMMA Typed == ASSUME Inv PROVE TypeInvariant
  BY DEF Inv, Types, TwoTries, TypeInvariant

LEMMA Whole == ASSUME Inv PROVE CacheIsWhole
  BY DEF Inv, OneSave, CacheIsWhole
=============================================================================
