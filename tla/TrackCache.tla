----------------------------- MODULE TrackCache -----------------------------
(***************************************************************************)
(* The cached copy of one track (cache.c): the download workers save it    *)
(* when they have all of it (io_callback of sound.c), the main thread maps *)
(* it to play it (sound_play; file_read_contents of helper.c), the start   *)
(* of the program marks it as cached (main.c).  The file is written in     *)
(* place.  The program may die at any step.                                *)
(***************************************************************************)
EXTENDS Integers, FiniteSets

CONSTANTS
    Savers,    \* downloads of the track
    Size,      \* pieces its content is written in
    SameDir,   \* whether cache_path is the directory the program runs in
    Full,      \* whether the disk may be full, or a file not be opened
    MaxCrashes \* bound: crashes

SizeAssumption ==
    Size \in Nat \ {0} /\ SameDir \in BOOLEAN /\ Full \in BOOLEAN /\ MaxCrashes \in Nat

None == -1

VARIABLES
    pc,        \* of a download: "none", "recv", then the steps of cache_track_save
    written,   \* pieces it has written
    tries,     \* its calls of fopen
    claimed,   \* whether it was told that the track is saved
    folder,    \* cache_path/streams exists
    made,      \* mkdir has created a folder `streams'
    file,      \* pieces in the file, or None
    mapped,    \* size of the mapping that is played, or None
    flag,      \* FLAG_CACHED
    crashes,
    disturbed  \* the disk was full, or something happened in the middle of a save

saving == <<pc, written, tries, claimed>>
disk == <<folder, made, file>>
vars == <<saving, disk, mapped, flag, crashes, disturbed>>

Quiet == [s \in Savers |-> "none"]
Init ==
    /\ pc = Quiet /\ written = [s \in Savers |-> 0] /\ tries = [s \in Savers |-> 0]
    /\ claimed = [s \in Savers |-> FALSE]
    /\ folder \in BOOLEAN /\ made = (SameDir /\ folder) /\ file = None
    /\ mapped = None /\ flag = FALSE /\ crashes = 0 /\ disturbed = FALSE

Saving == \E s \in Savers : pc[s] \in {"open", "mkdir", "write"}
Goto(s, to) == pc' = [pc EXCEPT ![s] = to]
Disturb(really) == disturbed' = (disturbed \/ really)

-----------------------------------------------------------------------------
(* sound_play: the cached file is used if it can be mapped *)

\* An empty file cannot be mapped: mmap refuses a length of 0.
PlayCached ==
    /\ file > 0 /\ mapped' = file /\ Disturb(Saving)
    /\ UNCHANGED <<saving, disk, flag, crashes>>

PlayDownload(s) ==
    /\ file <= 0 /\ pc[s] = "none" /\ Goto(s, "recv") /\ mapped' = None
    /\ Disturb(\E t \in Savers : pc[t] # "none")
    /\ UNCHANGED <<written, tries, claimed, disk, flag, crashes>>

Stop ==
    /\ mapped # None /\ mapped' = None
    /\ UNCHANGED <<saving, disk, flag, crashes, disturbed>>

\* All bytes have come: io_callback.
Finish(s) ==
    /\ pc[s] = "recv" /\ Goto(s, "open") /\ written' = [written EXCEPT ![s] = 0]
    /\ tries' = [tries EXCEPT ![s] = 0] /\ claimed' = [claimed EXCEPT ![s] = FALSE]
    /\ UNCHANGED <<disk, mapped, flag, crashes, disturbed>>

-----------------------------------------------------------------------------
(* cache_track_save *)

Open(s) ==
    /\ pc[s] = "open" /\ folder /\ Goto(s, "write") /\ file' = 0
    /\ tries' = [tries EXCEPT ![s] = @ + 1]
    /\ UNCHANGED <<written, claimed, folder, made, mapped, flag, crashes, disturbed>>

\* ENOENT
OpenNoFolder(s) ==
    /\ pc[s] = "open" /\ ~folder /\ Goto(s, "mkdir") /\ tries' = [tries EXCEPT ![s] = @ + 1]
    /\ UNCHANGED <<written, claimed, disk, mapped, flag, crashes, disturbed>>

OpenFails(s) ==
    /\ pc[s] = "open" /\ Full /\ Goto(s, "none") /\ tries' = [tries EXCEPT ![s] = @ + 1]
    /\ Disturb(TRUE) /\ UNCHANGED <<written, claimed, disk, mapped, flag, crashes>>

\* Mutated form: the save is tried again whether or not the folder was created.
MkdirAlways(s) ==
    /\ pc[s] = "mkdir" /\ tries[s] < 3 /\ Goto(s, "open")
    /\ made' = TRUE /\ folder' = SameDir
    /\ UNCHANGED <<written, tries, claimed, file, mapped, flag, crashes, disturbed>>
\* The folder is created in the directory the program runs in; if it is new, the save is
\* tried again.
Mkdir(s) ==
    /\ pc[s] = "mkdir" /\ Goto(s, IF made THEN "none" ELSE "open")
    /\ made' = TRUE /\ folder' = (folder \/ SameDir)
    /\ UNCHANGED <<written, tries, claimed, file, mapped, flag, crashes, disturbed>>

\* Mutated form: one piece more.
WriteBeyond(s) ==
    /\ pc[s] = "write" /\ written[s] <= Size /\ written' = [written EXCEPT ![s] = @ + 1]
    /\ file' = IF file > written[s] THEN file ELSE written[s] + 1
    /\ UNCHANGED <<pc, tries, claimed, folder, made, mapped, flag, crashes, disturbed>>
Write(s) ==
    /\ pc[s] = "write" /\ written[s] < Size /\ written' = [written EXCEPT ![s] = @ + 1]
    /\ file' = IF file > written[s] THEN file ELSE written[s] + 1
    /\ UNCHANGED <<pc, tries, claimed, folder, made, mapped, flag, crashes, disturbed>>

\* Mutated form: the track is marked before all of it is written.
CloseEarly(s) ==
    /\ pc[s] = "write" /\ Goto(s, "none") /\ claimed' = [claimed EXCEPT ![s] = TRUE]
    /\ flag' = TRUE
    /\ UNCHANGED <<written, tries, disk, mapped, crashes, disturbed>>
\* fclose, the answer `true', and FLAG_CACHED.
Close(s) ==
    /\ pc[s] = "write" /\ written[s] = Size
    /\ Goto(s, "none") /\ claimed' = [claimed EXCEPT ![s] = TRUE] /\ flag' = TRUE
    /\ UNCHANGED <<written, tries, disk, mapped, crashes, disturbed>>

\* fwrite or fclose fail: nobody looks.
CloseFull(s) ==
    /\ pc[s] = "write" /\ Full /\ written[s] < Size
    /\ Goto(s, "none") /\ claimed' = [claimed EXCEPT ![s] = TRUE] /\ flag' = TRUE
    /\ Disturb(TRUE) /\ UNCHANGED <<written, tries, disk, mapped, crashes>>

-----------------------------------------------------------------------------

\* The program ends and starts again; a file that exists is marked as cached.
Restart ==
    /\ crashes < MaxCrashes /\ crashes' = crashes + 1 /\ pc' = Quiet /\ mapped' = None
    /\ claimed' = [s \in Savers |-> FALSE] /\ flag' = (file # None)
    /\ Disturb(Saving) /\ UNCHANGED <<written, tries, disk>>

SaveStep(s) ==
    Open(s) \/ OpenNoFolder(s) \/ OpenFails(s) \/ Mkdir(s) \/ Write(s) \/ Close(s) \/ CloseFull(s)
Next ==
    \/ PlayCached \/ Stop \/ Restart
    \/ \E s \in Savers : PlayDownload(s) \/ Finish(s) \/ SaveStep(s)

\* A worker that is in cache_track_save goes on.
Spec == Init /\ [][Next]_vars /\ \A s \in Savers : WF_vars(SaveStep(s))

-----------------------------------------------------------------------------
(* Properties *)

TypeInvariant ==
    /\ pc \in [Savers -> {"none", "recv", "open", "mkdir", "write"}]
    /\ written \in [Savers -> 0..Size] /\ tries \in [Savers -> 0..2] /\ claimed \in [Savers -> BOOLEAN]
    /\ folder \in BOOLEAN /\ made \in BOOLEAN /\ file \in {None} \cup 0..Size
    /\ mapped \in {None} \cup 1..Size /\ flag \in BOOLEAN /\ crashes \in 0..MaxCrashes
    /\ disturbed \in BOOLEAN

\* Undisturbed, what is played from the cache is the whole track, and stays it; a track is
\* marked as cached only if all of it is on the disk.
CacheIsWhole ==
    ~disturbed => /\ mapped # None => mapped = Size /\ file = Size
                  /\ flag /\ ~Saving => file = Size

\* A worker comes out of cache_track_save, whatever folders there are: it calls itself once.
Opens(s) == pc[s] = "open"
Saved(s) == pc[s] \in {"none", "recv"}
SaveReturns == \A s \in Savers : Opens(s) ~> Saved(s)

\* cache.h: what is got is `a buffer containing the track, or NULL if the track is not
\* within the cache'.
PlaysWholeTrack == mapped # None => mapped = Size
\* cache.h: cache_track_exists is `true if track is cached'; at the start it sets the flag.
FlaggedIsWhole == flag /\ ~Saving => file = Size
\* The first again, for as long as it is played.
MappingStays == mapped # None => file >= mapped
\* cache.h: `true if saving to cache was successfull'.
SavedIsWhole == \A s \in Savers : claimed[s] /\ pc[s] = "none" => file = Size
\* Comment in cache_track_save: create the folder if it does not exist, and retry.
RetryFindsFolder == \A s \in Savers : pc[s] = "open" /\ tries[s] > 0 => folder
=============================================================================
