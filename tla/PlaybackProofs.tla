--------------------------- MODULE PlaybackProofs ---------------------------
(***************************************************************************)
(* Proofs about module Playback, for every length of the list, every set   *)
(* of repeat modes and every bound: that the variables keep their types,   *)
(* that no state is freed while the downloader has it, and, as long as no  *)
(* command meets the end of a track, that the play thread only reads       *)
(* states that are there and that FLAG_PLAYING marks the current track.    *)
(*                                                                         *)
(* The argument for the last two is the hand-shake of the two semaphores:  *)
(* at every moment either the main thread or the play thread has the state *)
(* to itself, or the main thread only waits for the play thread's answer.  *)
(***************************************************************************)
EXTENDS Playback, FiniteSetTheorems, TLAPS

mpc == pc["main"]
ppc == pc["play"]

-----------------------------------------------------------------------------
(* Where the threads are, and what they hold there *)

MainPoints == {"idle", "play", "stop", "halt", "wake", "await", "free", "forget", "unstop",
               "stopped", "resume", "get", "go", "exit", "join", "left"}
PlayPoints == {"wait", "check", "loop", "decode", "time", "time_set", "ended", "advance",
               "seek", "unseek", "close", "again", "exited", "play", "stop", "halt", "free",
               "forget", "unstop", "resume", "get", "go"}

\* In sound_stop; the main thread is in "wake" and "await" as well.
Stopping == {"stop", "halt", "free", "forget", "unstop"}

Flags == {"PLAYING", "PAUSED", "DOWNLOADING"}

Points ==
    /\ mpc \in MainPoints
    /\ ppc \in PlayPoints
    /\ mpc \in {"play", "resume", "get", "stopped", "wake", "await"} \cup Stopping
         => arg["main"] \in Tracks
    /\ ppc \in {"play", "resume", "get"} \cup Stopping => arg["play"] \in Tracks \cup {Count}
    /\ \A x \in Threads : arg[x] = Count => playing = Count
    /\ ppc \in {"time", "time_set"} => handle # NULL
    /\ ppc \in Stopping => nested["play"]
    /\ mpc \in {"idle", "exit", "stopped", "join", "left"} => ~nested["main"]

\* A state the sound code, the decoder or the downloader has is one that was created.
InUse ==
    /\ \A d \in States : phase[d] = "none" <=> trackOf[d] = NoTrack
    /\ state # NULL => trackOf[state] # NoTrack
    /\ handle # NULL => trackOf[handle] # NoTrack
    /\ \A d \in freed : trackOf[d] # NoTrack

\* Every state that was created, and every one a thread is about to create, is counted
\* in plays, so that the numbers of the states do not run out.
MainPending ==
    \/ mpc \in {"play", "resume", "get"}
    \/ nested["main"] /\ mpc \in Stopping \cup {"wake", "await"}
PlayPending == ppc \in {"ended", "advance", "play", "resume", "get"} \cup Stopping
One(b) == IF b THEN 1 ELSE 0
Used == {d \in States : trackOf[d] # NoTrack}
Budget == Cardinality(Used) + One(MainPending) + One(PlayPending) <= plays

Typing == TypeInvariant /\ Points /\ InUse /\ Budget

\* The states are finitely many.
LEMMA CountOfUsed ==
  ASSUME TypeInvariant
  PROVE  IsFiniteSet(Used) /\ Cardinality(Used) \in Nat
<1>1. IsFiniteSet(States)
  BY FS_Interval, BoundsAssumption DEF States
<1>. QED
  BY <1>1, FS_Subset, FS_CardinalityType DEF Used

\* A thread that is about to create a state finds a number for it.
LEMMA NewStateExists ==
  ASSUME Typing, MainPending \/ PlayPending
  PROVE  NewState \in States /\ trackOf[NewState] = NoTrack
<1>1. Cardinality(Used) < MaxPlays
  <2>1. /\ One(MainPending) + One(PlayPending) >= 1
        /\ One(MainPending) \in Nat /\ One(PlayPending) \in Nat
    BY DEF One
  <2>2. plays <= MaxPlays /\ plays \in Nat
    BY BoundsAssumption DEF Typing, TypeInvariant
  <2>. QED
    BY <2>1, <2>2, CountOfUsed, BoundsAssumption DEF Typing, Budget
<1>2. \E d \in States : trackOf[d] = NoTrack
  <2> SUFFICES ASSUME Used = States PROVE FALSE
    BY DEF Used
  <2>1. Cardinality(States) = MaxPlays
    BY FS_Interval, BoundsAssumption DEF States
  <2>. QED
    BY <1>1, <2>1, BoundsAssumption
<1>. QED
  BY <1>2 DEF NewState

\* The track a thread is about to play is one of the list.
LEMMA ArgInTracks ==
  ASSUME Points, ~Undefined, NEW x \in Threads, pc[x] \in {"resume", "get"}
  PROVE  arg[x] \in Tracks
  BY DEF Points, Undefined, Threads, mpc, ppc

\* What the callback at the end of a track reads.
LEMMA AdvanceReads ==
  ASSUME TypeInvariant, Points, ~Undefined, ppc = "advance"
  PROVE  arg["play"] \in Tracks
  BY CountAssumption DEF TypeInvariant, Points, Undefined, Threads, Tracks, NoTrack, ppc

\* The track that follows one of the list, or the one behind the last.
LEMMA FollowingType ==
  ASSUME NEW t \in Tracks
  PROVE  /\ Following(t) \in Tracks \cup {Count}
         /\ Following(t) \in Tracks <=> Following(t) # Count
  BY CountAssumption DEF Following, Tracks

\* Each thread keeps to its own points, and has there what it needs.
LEMMA PointsKept ==
  ASSUME TypeInvariant, Points, Next
  PROVE  Points'
<1>. USE DEF TypeInvariant, Points, mpc, ppc, MainPoints, PlayPoints, Stopping, Undefined,
            Threads, At, locals, sound, player, tracks, downloads, program, history
<1>1. ASSUME NEW x \in Threads, StopTest(x) PROVE Points'
  BY <1>1 DEF StopTest, StopReturn
<1>2. ASSUME NEW x \in Threads, StopHalt(x) PROVE Points'
  BY <1>2 DEF StopHalt
<1>3. ASSUME NEW x \in Threads, StopWake(x) PROVE Points'
  BY <1>3 DEF StopWake
<1>4. ASSUME NEW x \in Threads, StopAwait(x) PROVE Points'
  BY <1>4 DEF StopAwait
<1>5. ASSUME NEW x \in Threads, StopFree(x) PROVE Points'
  BY <1>5 DEF StopFree
<1>6. ASSUME NEW x \in Threads, StopForget(x) PROVE Points'
  BY <1>6 DEF StopForget
<1>7. ASSUME NEW x \in Threads, StopUnstop(x) PROVE Points'
  BY <1>7 DEF StopUnstop, StopReturn
<1>8. ASSUME NEW x \in Threads, PlayTest(x) PROVE Points'
  BY <1>8 DEF PlayTest
<1>9. ASSUME NEW x \in Threads, PlayResume(x) PROVE Points'
  BY <1>9 DEF PlayResume
<1>10. ASSUME NEW x \in Threads, PlayGet(x) PROVE Points'
  BY <1>10 DEF PlayGet
<1>11. ASSUME NEW x \in Threads, PlayGo(x) PROVE Points'
  BY <1>11, CountAssumption DEF PlayGo, Leave, NoTrack
<1>12. ASSUME CmdStopped PROVE Points'
  BY <1>12 DEF CmdStopped, Leave
<1>13. ASSUME Finalize PROVE Points'
  BY <1>13 DEF Finalize
<1>14. ASSUME FinalizeJoin PROVE Points'
  BY <1>14 DEF FinalizeJoin
<1>15. ASSUME Interrupt PROVE Points'
  BY <1>15 DEF Interrupt
<1>16. ASSUME CmdPlay PROVE Points'
  BY <1>16 DEF CmdPlay
<1>17. ASSUME CmdStop PROVE Points'
  BY <1>17 DEF CmdStop
<1>18. ASSUME CmdSeek PROVE Points'
  BY <1>18 DEF CmdSeek
<1>19. ASSUME CmdRepeat PROVE Points'
  BY <1>19 DEF CmdRepeat
<1>20. ASSUME CmdExit PROVE Points'
  BY <1>20 DEF CmdExit
<1>21. ASSUME PlayerWait PROVE Points'
  BY <1>21 DEF PlayerWait
<1>22. ASSUME PlayerOpen PROVE Points'
  BY <1>22 DEF PlayerOpen
<1>23. ASSUME PlayerLoop PROVE Points'
  BY <1>23 DEF PlayerLoop
<1>24. ASSUME Decode PROVE Points'
  BY <1>24 DEF Decode
<1>25. ASSUME DecodeEnd PROVE Points'
  BY <1>25 DEF DecodeEnd
<1>26. ASSUME TimeRead PROVE Points'
  BY <1>26 DEF TimeRead
<1>27. ASSUME TimeSet PROVE Points'
  BY <1>27, CountAssumption DEF TimeSet, Leave, NoTrack
<1>28. ASSUME AdvanceEnd PROVE Points'
  BY <1>28, CountAssumption DEF AdvanceEnd, Leave, NoTrack
<1>29. ASSUME AdvanceNext PROVE Points'
  BY <1>29, AdvanceReads, FollowingType DEF AdvanceNext, Following, Tracks, NoTrack
<1>30. ASSUME PlayerSeek PROVE Points'
  BY <1>30 DEF PlayerSeek
<1>31. ASSUME PlayerUnseek PROVE Points'
  BY <1>31 DEF PlayerUnseek
<1>32. ASSUME PlayerClose PROVE Points'
  BY <1>32 DEF PlayerClose
<1>33. ASSUME PlayerAgain PROVE Points'
  BY <1>33 DEF PlayerAgain
<1>34. ASSUME NEW d \in States, WorkerTake(d) PROVE Points'
  BY <1>34 DEF WorkerTake, WorkerAt
<1>35. ASSUME NEW d \in States, WorkerComplete(d) PROVE Points'
  BY <1>35 DEF WorkerComplete, WorkerAt
<1>36. ASSUME NEW d \in States, WorkerUnmark(d) PROVE Points'
  BY <1>36 DEF WorkerUnmark, WorkerAt
<1>. QED
  BY <1>1, <1>2, <1>3, <1>4, <1>5, <1>6, <1>7, <1>8, <1>9, <1>10, <1>11, <1>12, <1>13,
     <1>14, <1>15, <1>16, <1>17, <1>18, <1>19, <1>20, <1>21, <1>22, <1>23, <1>24, <1>25,
     <1>26, <1>27, <1>28, <1>29, <1>30, <1>31, <1>32, <1>33, <1>34, <1>35, <1>36
  DEF Next, Main, Player, Sound, Worker

\* TypeInvariant without the points the threads are at.
DataTypes ==
    /\ arg \in [Threads -> Tracks \cup {NoTrack, Count}]
    /\ nested \in [Threads -> BOOLEAN] /\ reset \in BOOLEAN
    /\ state \in States \cup {NULL} /\ stopped \in BOOLEAN /\ terminate \in BOOLEAN
    /\ semPlay \in Nat /\ semStopped \in Nat
    /\ seekTo \in Tracks \cup {NoTrack, ByUser}
    /\ handle \in States \cup {NULL} /\ done \in BOOLEAN
    /\ playing \in Tracks \cup {NoTrack, Count} /\ repeat \in Repeats
    /\ position \in [Tracks -> Tracks \cup {NoTrack}]
    /\ flags \in [Tracks -> SUBSET {"PLAYING", "PAUSED", "DOWNLOADING"}]
    /\ trackOf \in [States -> Tracks \cup {NoTrack}]
    /\ phase \in [States -> {"none", "cached", "queued", "running", "closing", "finished"}]
    /\ freed \subseteq States /\ cached \subseteq Tracks
    /\ destroyed \in BOOLEAN /\ plays \in 0..MaxPlays /\ sigints \in 0..MaxSigints
    /\ overlap \in BOOLEAN

\* One step keeps the types: a thread that creates a state has a number for it.
LEMMA DataKept ==
  ASSUME Typing, Next
  PROVE  DataTypes'
<1>1. DataTypes
  BY DEF Typing, TypeInvariant, DataTypes
<1>. USE DEF DataTypes, locals, sound, player, tracks, downloads, program, history
<1>2. ASSUME NEW x \in Threads, StopTest(x) PROVE DataTypes'
  BY <1>1, <1>2 DEF StopTest
<1>3. ASSUME NEW x \in Threads, StopHalt(x) PROVE DataTypes'
  BY <1>1, <1>3 DEF StopHalt
<1>4. ASSUME NEW x \in Threads, StopWake(x) PROVE DataTypes'
  BY <1>1, <1>4 DEF StopWake
<1>5. ASSUME NEW x \in Threads, StopAwait(x) PROVE DataTypes'
  BY <1>1, <1>5 DEF StopAwait
<1>6. ASSUME NEW x \in Threads, StopFree(x) PROVE DataTypes'
  BY <1>1, <1>6 DEF At, StopFree, Undefined
<1>7. ASSUME NEW x \in Threads, StopForget(x) PROVE DataTypes'
  BY <1>1, <1>7 DEF StopForget
<1>8. ASSUME NEW x \in Threads, StopUnstop(x) PROVE DataTypes'
  <2>1. /\ stopped' \in BOOLEAN /\ UNCHANGED <<state, semPlay, semStopped, seekTo>>
        /\ UNCHANGED <<locals, player, tracks, downloads, program, history>>
    BY <1>8 DEF StopUnstop
  <2>. QED
    BY <1>1, <2>1
<1>9. ASSUME NEW x \in Threads, PlayTest(x) PROVE DataTypes'
  BY <1>1, <1>9 DEF PlayTest
<1>10. ASSUME NEW x \in Threads, PlayResume(x) PROVE DataTypes'
  <2>1. arg[x] \in Tracks
    BY <1>1, <1>10, ArgInTracks DEF At, PlayResume, Typing
  <2>. QED
    BY <1>1, <1>10, <2>1 DEF PlayResume
<1>11. ASSUME NEW x \in Threads, PlayGet(x) PROVE DataTypes'
  <2>1. arg[x] \in Tracks
    BY <1>1, <1>11, ArgInTracks DEF At, PlayGet, Typing
  <2>2. NewState \in States
    <3>1. MainPending \/ PlayPending
      BY <1>1, <1>11 DEF At, PlayGet, MainPending, PlayPending, mpc, ppc, Threads
    <3>. QED
      BY <3>1, NewStateExists DEF Typing
  <2>3. flags' \in [Tracks -> SUBSET {"PLAYING", "PAUSED", "DOWNLOADING"}]
    BY <1>1, <1>11, <2>1 DEF PlayGet
  <2>4. trackOf' \in [States -> Tracks \cup {NoTrack}]
    BY <1>1, <1>11, <2>1 DEF PlayGet
  <2>5. phase' \in [States -> {"none", "cached", "queued", "running", "closing", "finished"}]
    BY <1>1, <1>11 DEF PlayGet
  <2>. QED
    BY <1>1, <1>11, <2>2, <2>3, <2>4, <2>5 DEF PlayGet
<1>12. ASSUME NEW x \in Threads, PlayGo(x) PROVE DataTypes'
  BY <1>1, <1>12 DEF PlayGo, Leave, NoTrack
<1>13. ASSUME CmdStopped PROVE DataTypes'
  <2>1. position' \in [Tracks -> Tracks \cup {NoTrack}]
    BY <1>1, <1>13 DEF CmdStopped
  <2>2. flags' \in [Tracks -> SUBSET {"PLAYING", "PAUSED", "DOWNLOADING"}]
    BY <1>1, <1>13 DEF CmdStopped, StopFlags
  <2>. QED
    BY <1>1, <1>13, <2>1, <2>2 DEF CmdStopped, Leave
<1>14. ASSUME Finalize PROVE DataTypes'
  BY <1>1, <1>14 DEF Finalize
<1>15. ASSUME FinalizeJoin PROVE DataTypes'
  BY <1>1, <1>15 DEF FinalizeJoin
<1>16. ASSUME Interrupt PROVE DataTypes'
  <2>2. sigints' \in 0..MaxSigints
    BY <1>1, <1>16, BoundsAssumption DEF Interrupt
  <2>. QED
    BY <1>1, <1>16, <2>2 DEF Interrupt
<1>17. ASSUME CmdPlay PROVE DataTypes'
  <2>1. flags' \in [Tracks -> SUBSET {"PLAYING", "PAUSED", "DOWNLOADING"}]
    BY <1>1, <1>17 DEF CmdPlay, StopFlags
  <2>2. plays' \in 0..MaxPlays
    BY <1>1, <1>17, BoundsAssumption DEF CmdPlay
  <2>3. overlap' \in BOOLEAN
    BY <1>1, <1>17 DEF CmdPlay
  <2>4. PICK t \in Tracks : arg' = [arg EXCEPT !["main"] = t] /\ playing' = t
    BY <1>1, <1>17 DEF CmdPlay
  <2>. QED
    BY <1>1, <1>17, <2>1, <2>2, <2>3, <2>4 DEF CmdPlay
<1>18. ASSUME CmdStop PROVE DataTypes'
  BY <1>1, <1>18 DEF CmdStop, Undefined, NoTrack
<1>19. ASSUME CmdSeek PROVE DataTypes'
  BY <1>1, <1>19 DEF CmdSeek
<1>20. ASSUME CmdRepeat PROVE DataTypes'
  BY <1>1, <1>20 DEF CmdRepeat
<1>21. ASSUME CmdExit PROVE DataTypes'
  BY <1>1, <1>21 DEF CmdExit
<1>22. ASSUME PlayerWait PROVE DataTypes'
  BY <1>1, <1>22 DEF PlayerWait
<1>23. ASSUME PlayerOpen PROVE DataTypes'
  <2>1. handle' \in States \cup {NULL} /\ done' \in BOOLEAN
    BY <1>1, <1>23 DEF PlayerOpen
  <2>. QED
    BY <1>1, <1>23, <2>1 DEF PlayerOpen
<1>24. ASSUME PlayerLoop PROVE DataTypes'
  BY <1>1, <1>24 DEF PlayerLoop
<1>25. ASSUME Decode PROVE DataTypes'
  BY <1>1, <1>25 DEF Decode
<1>26. ASSUME DecodeEnd PROVE DataTypes'
  <2>2. plays' \in 0..MaxPlays
    BY <1>1, <1>26, BoundsAssumption DEF DecodeEnd
  <2>3. overlap' \in BOOLEAN
    BY <1>1, <1>26 DEF DecodeEnd
  <2>. QED
    BY <1>1, <1>26, <2>2, <2>3 DEF DecodeEnd
<1>27. ASSUME TimeRead PROVE DataTypes'
  <2>1. arg' \in [Threads -> Tracks \cup {NoTrack, Count}]
    BY <1>1, <1>27 DEF TimeRead
  <2>. QED
    BY <1>1, <1>27, <2>1 DEF TimeRead
<1>28. ASSUME TimeSet PROVE DataTypes'
  <2>1. trackOf[handle] \in Tracks \cup {NoTrack}
    BY <1>1, <1>28 DEF At, TimeSet, Points, ppc, Typing, InUse
  <2>2. position' \in [Tracks -> Tracks \cup {NoTrack}]
    BY <1>1, <1>28, <2>1 DEF TimeSet
  <2>3. arg' \in [Threads -> Tracks \cup {NoTrack, Count}]
    BY <1>1, <1>28 DEF TimeSet, Leave
  <2>. QED
    BY <1>1, <1>28, <2>2, <2>3 DEF TimeSet, Leave
<1>29. ASSUME AdvanceEnd PROVE DataTypes'
  <2>1. flags' \in [Tracks -> SUBSET {"PLAYING", "PAUSED", "DOWNLOADING"}]
    BY <1>1, <1>29 DEF AdvanceEnd
  <2>2. position' \in [Tracks -> Tracks \cup {NoTrack}]
    BY <1>1, <1>29 DEF AdvanceEnd
  <2>3. /\ arg' \in [Threads -> Tracks \cup {NoTrack, Count}]
        /\ nested' \in [Threads -> BOOLEAN]
    BY <1>1, <1>29 DEF AdvanceEnd, Leave
  <2>. QED
    BY <1>1, <1>29, <2>1, <2>2, <2>3 DEF AdvanceEnd
<1>30. ASSUME AdvanceNext PROVE DataTypes'
  <2>1. arg["play"] \in Tracks
    BY <1>1, <1>30, AdvanceReads DEF At, AdvanceNext, ppc, Typing
  <2>2. Following(arg["play"]) \in Tracks \cup {Count}
    BY <2>1, FollowingType
  <2>3. flags' \in [Tracks -> SUBSET {"PLAYING", "PAUSED", "DOWNLOADING"}]
    BY <1>1, <1>30, <2>1 DEF AdvanceNext, AdvanceFlags
  <2>4. position' \in [Tracks -> Tracks \cup {NoTrack}]
    BY <1>1, <1>30 DEF AdvanceNext
  <2>5. arg' \in [Threads -> Tracks \cup {NoTrack, Count}]
    BY <1>1, <1>30, <2>2 DEF AdvanceNext
  <2>. QED
    BY <1>1, <1>30, <2>2, <2>3, <2>4, <2>5 DEF AdvanceNext
<1>31. ASSUME PlayerSeek PROVE DataTypes'
  BY <1>1, <1>31 DEF PlayerSeek
<1>32. ASSUME PlayerUnseek PROVE DataTypes'
  BY <1>1, <1>32 DEF PlayerUnseek
<1>33. ASSUME PlayerClose PROVE DataTypes'
  BY <1>1, <1>33 DEF PlayerClose
<1>34. ASSUME PlayerAgain PROVE DataTypes'
  BY <1>1, <1>34 DEF PlayerAgain
<1>35. ASSUME NEW d \in States, WorkerTake(d) PROVE DataTypes'
  BY <1>1, <1>35 DEF WorkerTake, WorkerAt
<1>36. ASSUME NEW d \in States, WorkerComplete(d) PROVE DataTypes'
  BY <1>1, <1>36 DEF WorkerComplete, WorkerAt, InUse, Typing
<1>37. ASSUME NEW d \in States, WorkerUnmark(d) PROVE DataTypes'
  <2>1. flags' \in [Tracks -> SUBSET {"PLAYING", "PAUSED", "DOWNLOADING"}]
    BY <1>1, <1>37 DEF WorkerUnmark
  <2>2. phase' \in [States -> {"none", "cached", "queued", "running", "closing", "finished"}]
    BY <1>1, <1>37 DEF WorkerUnmark, WorkerAt
  <2>. QED
    BY <1>1, <1>37, <2>1, <2>2 DEF WorkerUnmark, WorkerAt
<1>. QED
  BY <1>2, <1>3, <1>4, <1>5, <1>6, <1>7, <1>8, <1>9, <1>10, <1>11, <1>12, <1>13, <1>14,
     <1>15, <1>16, <1>17, <1>18, <1>19, <1>20, <1>21, <1>22, <1>23, <1>24, <1>25, <1>26,
     <1>27, <1>28, <1>29, <1>30, <1>31, <1>32, <1>33, <1>34, <1>35, <1>36, <1>37
  DEF Next, Main, Player, Sound, Worker, Threads

\* Each step moves one thread, or a worker.
LEMMA TypeKept ==
  ASSUME Typing, Next
  PROVE  TypeInvariant'
<1>1. pc' \in [Threads -> {pc'["main"], pc'["play"]}]
  BY DEF Next, Main, Player, Sound, Worker, StopTest, StopHalt, StopWake, StopAwait,
         StopFree, StopForget, StopUnstop, PlayTest, PlayResume, PlayGet, PlayGo,
         CmdStopped, Finalize, FinalizeJoin, Interrupt, CmdPlay, CmdStop, CmdSeek,
         CmdRepeat, CmdExit, PlayerWait, PlayerOpen, PlayerLoop, Decode, DecodeEnd,
         TimeRead, TimeSet, AdvanceEnd, AdvanceNext, PlayerSeek, PlayerUnseek, PlayerClose,
         PlayerAgain, WorkerTake, WorkerComplete, WorkerUnmark, At, WorkerAt, Typing,
         TypeInvariant, Threads
<1>2. /\ pc'["main"] \in MainPoints
      /\ pc'["play"] \in PlayPoints
  BY PointsKept DEF Typing, Points, mpc, ppc
<1>3. pc' \in [Threads -> MainPoints \cup PlayPoints]
  BY <1>1, <1>2
<1>. QED
  BY <1>3, DataKept DEF TypeInvariant, DataTypes, MainPoints, PlayPoints

\* Whatever state is in use stays created: nothing is taken back.
LEMMA InUseKept ==
  ASSUME Typing, Next
  PROVE  InUse'
<1>. USE DEF Typing, InUse, At, Threads
<1> DEFINE Frame == UNCHANGED <<state, handle, trackOf, phase, freed>>
<1>1. ASSUME NEW x \in Threads,
             \/ StopTest(x) \/ StopHalt(x) \/ StopWake(x) \/ StopAwait(x) \/ StopUnstop(x)
             \/ PlayTest(x) \/ PlayResume(x) \/ PlayGo(x)
      PROVE  Frame
  BY <1>1 DEF StopTest, StopHalt, StopWake, StopAwait, StopUnstop, PlayTest, PlayResume,
              PlayGo, sound, player, downloads
<1>2. ASSUME \/ CmdStopped \/ Finalize \/ FinalizeJoin \/ Interrupt \/ CmdPlay \/ CmdStop
             \/ CmdSeek \/ CmdRepeat \/ CmdExit
      PROVE  Frame
  BY <1>2 DEF CmdStopped, Finalize, FinalizeJoin, Interrupt, CmdPlay, CmdStop, CmdSeek,
              CmdRepeat, CmdExit, sound, player, downloads
<1>3. ASSUME \/ PlayerWait \/ PlayerLoop \/ Decode \/ DecodeEnd \/ TimeRead \/ TimeSet
             \/ AdvanceEnd \/ AdvanceNext \/ PlayerSeek \/ PlayerUnseek \/ PlayerAgain
      PROVE  Frame
  BY <1>3 DEF PlayerWait, PlayerLoop, Decode, DecodeEnd, TimeRead, TimeSet, AdvanceEnd,
              AdvanceNext, PlayerSeek, PlayerUnseek, PlayerAgain, sound, player, downloads
<1>4. CASE Frame
  BY <1>4
<1>5. ASSUME NEW x \in Threads, StopFree(x) PROVE InUse'
  BY <1>5 DEF StopFree, Undefined, sound, player
<1>6. ASSUME NEW x \in Threads, StopForget(x) PROVE InUse'
  BY <1>6 DEF StopForget, player, downloads
<1>7. ASSUME NEW x \in Threads, PlayGet(x) PROVE InUse'
  <2>1. arg[x] \in Tracks /\ arg[x] # NoTrack
    BY <1>7, ArgInTracks DEF PlayGet, Tracks, NoTrack
  <2>. DEFINE n == NewState
  <2>2. n \in States /\ trackOf[n] = NoTrack
    <3>1. MainPending \/ PlayPending
      BY <1>7 DEF PlayGet, MainPending, PlayPending, mpc, ppc
    <3>. QED
      BY <3>1, NewStateExists
  <2>3. /\ trackOf' = [trackOf EXCEPT ![n] = arg[x]]
        /\ state' = n /\ handle' = handle /\ freed' = freed
    BY <1>7 DEF PlayGet, player
  <2>4. PICK p \in {"cached", "queued"} : phase' = [phase EXCEPT ![n] = p]
    BY <1>7 DEF PlayGet
  <2>. HIDE DEF n
  <2>5. \A d \in States : phase'[d] = "none" <=> trackOf'[d] = NoTrack
    BY <2>1, <2>2, <2>3, <2>4 DEF TypeInvariant
  <2>6. \A d \in States : trackOf[d] # NoTrack => trackOf'[d] # NoTrack
    BY <2>1, <2>2, <2>3 DEF TypeInvariant
  <2>7. trackOf'[n] # NoTrack
    BY <2>1, <2>2, <2>3 DEF TypeInvariant
  <2>. QED
    BY <2>3, <2>5, <2>6, <2>7 DEF TypeInvariant
<1>8. CASE PlayerOpen
  BY <1>8 DEF PlayerOpen, sound, player, downloads
<1>9. CASE PlayerClose
  BY <1>9 DEF PlayerClose, downloads
<1>10. ASSUME NEW d \in States, Worker(d) PROVE InUse'
  BY <1>10 DEF Worker, WorkerTake, WorkerComplete, WorkerUnmark, WorkerAt, TypeInvariant,
               sound, player
<1>. QED
  BY <1>1, <1>2, <1>3, <1>4, <1>5, <1>6, <1>7, <1>8, <1>9, <1>10
  DEF Next, Main, Player, Sound

\* Only a command, or the end of a track, begins a track.
PendingStays ==
    /\ trackOf' = trackOf /\ plays' = plays
    /\ MainPending' => MainPending
    /\ PlayPending' => PlayPending

\* No other step makes a thread begin a track, or changes what a state plays.
LEMMA PendingKept ==
  ASSUME Typing, Next
  PROVE  PendingStays \/ CmdPlay \/ DecodeEnd \/ \E x \in Threads : PlayGet(x)
<1>. USE DEF PendingStays, MainPending, PlayPending, Stopping, Typing, TypeInvariant,
             Points,
             PlayPoints, At, Threads, mpc, ppc, locals, downloads, history
<1>1. ASSUME NEW x \in Threads,
             \/ StopTest(x) \/ StopHalt(x) \/ StopWake(x) \/ StopAwait(x) \/ StopFree(x)
             \/ StopForget(x) \/ StopUnstop(x)
      PROVE  PendingStays
  <2>1. trackOf' = trackOf /\ plays' = plays
    BY <1>1 DEF StopTest, StopHalt, StopWake, StopAwait, StopFree, StopForget, StopUnstop
  <2>2. CASE x = "main"
    BY <1>1, <2>1, <2>2 DEF StopTest, StopReturn, StopHalt, StopWake, StopAwait, StopFree,
                            StopForget, StopUnstop
  <2>3. CASE x = "play"
    BY <1>1, <2>1, <2>3 DEF StopTest, StopReturn, StopHalt, StopWake, StopAwait, StopFree,
                            StopForget, StopUnstop
  <2>. QED
    BY <2>2, <2>3
<1>2. ASSUME NEW x \in Threads, PlayTest(x) \/ PlayResume(x) \/ PlayGo(x)
      PROVE  PendingStays
  BY <1>2 DEF PlayTest, PlayResume, PlayGo, Leave
<1>3. ASSUME \/ CmdStopped \/ Finalize \/ FinalizeJoin \/ Interrupt \/ CmdStop
             \/ CmdSeek \/ CmdRepeat \/ CmdExit
      PROVE  PendingStays
  BY <1>3 DEF CmdStopped, Finalize, FinalizeJoin, Interrupt, CmdStop, CmdSeek, CmdRepeat,
              CmdExit, Leave
<1>4. ASSUME \/ PlayerWait \/ PlayerOpen \/ PlayerLoop \/ Decode \/ TimeRead \/ TimeSet
             \/ AdvanceEnd \/ AdvanceNext \/ PlayerSeek \/ PlayerUnseek \/ PlayerClose
             \/ PlayerAgain
      PROVE  PendingStays
  BY <1>4 DEF PlayerWait, PlayerOpen, PlayerLoop, Decode, TimeRead, TimeSet, AdvanceEnd,
              AdvanceNext, PlayerSeek, PlayerUnseek, PlayerClose, PlayerAgain, Leave
<1>5. ASSUME NEW d \in States, Worker(d) PROVE PendingStays
  BY <1>5 DEF Worker, WorkerTake, WorkerComplete, WorkerUnmark
<1>. HIDE DEF PendingStays
<1>. QED
  BY <1>1, <1>2, <1>3, <1>4, <1>5 DEF Next, Main, Player, Sound

\* A state that is created uses up what a command, or the end of a track, has set aside.
LEMMA BudgetKept ==
  ASSUME Typing, Next
  PROVE  Budget'
<1>. USE DEF Typing
<1>1. /\ One(MainPending) \in {0, 1} /\ One(PlayPending) \in {0, 1}
      /\ One(MainPending)' \in {0, 1} /\ One(PlayPending)' \in {0, 1}
  BY DEF One
<1>2. CASE PendingStays
  <2>1. Cardinality(Used)' = Cardinality(Used) /\ plays' = plays
    BY <1>2 DEF PendingStays, Used
  <2>2. One(MainPending)' <= One(MainPending) /\ One(PlayPending)' <= One(PlayPending)
    BY <1>2 DEF PendingStays, One
  <2>. QED
    BY <2>1, <2>2, <1>1, CountOfUsed DEF Budget, TypeInvariant
<1>3. CASE CmdPlay
  <2>1. Cardinality(Used)' = Cardinality(Used) /\ plays' = plays + 1
    BY <1>3 DEF CmdPlay, downloads, Used
  <2>2. ~MainPending /\ (PlayPending' => PlayPending)
    BY <1>3 DEF CmdPlay, MainPending, PlayPending, Stopping, Points, At, Threads,
                TypeInvariant, mpc, ppc
  <2>3. One(MainPending)' <= One(MainPending) + 1 /\ One(PlayPending)' <= One(PlayPending)
    BY <2>2 DEF One
  <2>. QED
    BY <2>1, <2>3, <1>1, CountOfUsed DEF Budget, TypeInvariant
<1>4. CASE DecodeEnd
  <2>1. Cardinality(Used)' = Cardinality(Used) /\ plays' = plays + 1
    BY <1>4 DEF DecodeEnd, downloads, Used
  <2>2. ~PlayPending /\ (MainPending' => MainPending)
    BY <1>4 DEF DecodeEnd, MainPending, PlayPending, Stopping, At, Threads, TypeInvariant,
                mpc, ppc, locals
  <2>3. One(PlayPending)' <= One(PlayPending) + 1 /\ One(MainPending)' <= One(MainPending)
    BY <2>2 DEF One
  <2>. QED
    BY <2>1, <2>3, <1>1, CountOfUsed DEF Budget, TypeInvariant
<1>5. ASSUME NEW x \in Threads, PlayGet(x) PROVE Budget'
  <2>1. PICK n \in States : n = NewState /\ trackOf[n] = NoTrack
    <3>1. MainPending \/ PlayPending
      BY <1>5 DEF PlayGet, At, MainPending, PlayPending, Threads, mpc, ppc
    <3>. QED
      BY <3>1, NewStateExists
  <2>2. trackOf' = [trackOf EXCEPT ![n] = arg[x]] /\ plays' = plays
    BY <1>5, <2>1 DEF PlayGet, history
  <2>3. Used' \subseteq Used \cup {n} /\ n \notin Used
    BY <2>1, <2>2 DEF Used, TypeInvariant
  <2>4. Cardinality(Used') \in Nat /\ Cardinality(Used') <= Cardinality(Used) + 1
    <3>1. IsFiniteSet(Used \cup {n}) /\ Cardinality(Used \cup {n}) = Cardinality(Used) + 1
      BY <2>3, CountOfUsed, FS_AddElement
    <3>. QED
      BY <2>3, <3>1, FS_Subset, FS_CardinalityType
  <2>5. \/ /\ One(MainPending) = 1 /\ One(MainPending)' = 0
           /\ One(PlayPending)' <= One(PlayPending)
        \/ /\ One(PlayPending) = 1 /\ One(PlayPending)' = 0
           /\ One(MainPending)' <= One(MainPending)
    BY <1>5 DEF PlayGet, One, MainPending, PlayPending, Stopping, At, Threads,
                TypeInvariant,
                mpc, ppc, locals
  <2>6. Cardinality(Used') + One(MainPending)' + One(PlayPending)'
          <= Cardinality(Used) + One(MainPending) + One(PlayPending)
    BY ONLY <2>4, <2>5, <1>1, CountOfUsed, TypeInvariant
  <2>. QED
    BY <2>2, <2>4, <2>6, <1>1, CountOfUsed DEF Budget, TypeInvariant
<1>. QED
  BY <1>2, <1>3, <1>4, <1>5, PendingKept

\* At the start nothing is played.
LEMMA TypingInit == Init => Typing
<1> SUFFICES ASSUME Init PROVE Typing
  OBVIOUS
<1>1. TypeInvariant
  <2>1. /\ pc["main"] = "idle" /\ pc["play"] = "wait" /\ pc \in [Threads -> {"idle", "wait"}]
        /\ arg \in [Threads -> {NoTrack}] /\ nested \in [Threads -> {FALSE}]
    BY DEF Init, Threads
  <2>2. repeat \in Repeats /\ plays \in 0..MaxPlays /\ sigints \in 0..MaxSigints
    BY RepeatsAssumption, BoundsAssumption DEF Init
  <2>. QED
    BY <2>1, <2>2 DEF Init, TypeInvariant
<1>2. Points /\ InUse
  BY CountAssumption DEF Init, Points, InUse, MainPoints, PlayPoints, Stopping, mpc, ppc,
                         Threads, NoTrack
<1>3. Budget
  <2>1. Used = {}
    BY DEF Init, Used
  <2>2. ~MainPending /\ ~PlayPending /\ plays = 0
    BY DEF Init, MainPending, PlayPending, Stopping, mpc, ppc, Threads
  <2>. QED
    BY <2>1, <2>2, FS_EmptySet DEF Budget, One
<1>. QED
  BY <1>1, <1>2, <1>3 DEF Typing

\* The four parts together are inductive.
LEMMA TypingKept ==
  ASSUME Typing, [Next]_vars
  PROVE  Typing'
<1>1. CASE Next
  BY <1>1, TypeKept, PointsKept, InUseKept, BudgetKept DEF Typing
<1>2. CASE UNCHANGED vars
  <2>. USE <1>2 DEF Typing, vars, locals, sound, player, tracks, downloads, program, history
  <2>1. TypeInvariant'
    BY DEF TypeInvariant
  <2>2. Points'
    BY DEF Points, mpc, ppc
  <2>3. InUse'
    BY DEF InUse
  <2>4. Budget'
    BY DEF Budget, MainPending, PlayPending, Used, mpc, ppc
  <2>. QED
    BY <2>1, <2>2, <2>3, <2>4
<1>. QED
  BY <1>1, <1>2

\* The inductive invariant the types need.
THEOREM TypingHolds == Spec => []Typing
  BY TypingInit, TypingKept, PTL DEF Spec

\* The variables keep their types: every state that is played has a number, and every
\* track that is used is one of the list, up to the one behind the last.
THEOREM TypeCorrect == Spec => []TypeInvariant
  BY TypingHolds, PTL DEF Typing

-----------------------------------------------------------------------------
(* What the downloader has is not freed *)

\* A track the downloader works on is marked, unless it was queued a second time.
Requeued(d) ==
    \E e \in States \ {d} : trackOf[e] = trackOf[d] /\ phase[e] \notin {"none", "cached"}
DownloadsMarked ==
    \A d \in States :
        InDownload(d) => "DOWNLOADING" \in flags[trackOf[d]] \/ Requeued(d)

Downloads == DownloadsMarked /\ FreedAfterDownload

\* sound_stop reads the mark in the step in which it frees.
LEMMA DownloadsKept ==
  ASSUME Typing, Downloads, Next
  PROVE  Downloads'
<1>. USE DEF Downloads
<1>. DEFINE Frame == /\ trackOf' = trackOf /\ phase' = phase /\ freed' = freed
                     /\ \A t \in Tracks :
                           "DOWNLOADING" \in flags[t] => "DOWNLOADING" \in flags'[t]
<1>1. ASSUME NEW x \in Threads,
             \/ StopTest(x) \/ StopHalt(x) \/ StopWake(x) \/ StopAwait(x) \/ StopForget(x)
             \/ StopUnstop(x) \/ PlayTest(x) \/ PlayResume(x) \/ PlayGo(x)
      PROVE  Frame
  BY <1>1 DEF StopTest, StopHalt, StopWake, StopAwait, StopForget, StopUnstop, PlayTest,
              PlayResume, PlayGo, tracks, downloads
<1>2. ASSUME \/ Finalize \/ FinalizeJoin \/ Interrupt \/ CmdStop \/ CmdSeek \/ CmdRepeat
             \/ CmdExit
      PROVE  Frame
  BY <1>2 DEF Finalize, FinalizeJoin, Interrupt, CmdStop, CmdSeek, CmdRepeat, CmdExit,
              tracks, downloads
<1>3. ASSUME \/ CmdPlay \/ CmdStopped PROVE Frame
  <2>1. flags \in [Tracks -> SUBSET Flags]
    BY DEF Typing, TypeInvariant, Flags
  <2>. QED
    BY <1>3, <2>1 DEF CmdPlay, CmdStopped, StopFlags, downloads
<1>4. ASSUME \/ PlayerWait \/ PlayerOpen \/ PlayerLoop \/ Decode \/ DecodeEnd \/ TimeRead
             \/ TimeSet \/ PlayerSeek \/ PlayerUnseek \/ PlayerClose \/ PlayerAgain
      PROVE  Frame
  BY <1>4 DEF PlayerWait, PlayerOpen, PlayerLoop, Decode, DecodeEnd, TimeRead, TimeSet,
              PlayerSeek, PlayerUnseek, PlayerClose, PlayerAgain, tracks, downloads
<1>5. ASSUME \/ AdvanceEnd \/ AdvanceNext PROVE Frame
  <2>1. flags \in [Tracks -> SUBSET Flags]
    BY DEF Typing, TypeInvariant, Flags
  <2>. QED
    BY <1>5, <2>1 DEF AdvanceEnd, AdvanceNext, AdvanceFlags, downloads
<1>6. CASE Frame
  <2>1. \A d \in States : InDownload(d) => trackOf[d] \in Tracks
    BY DEF InDownload, Typing, TypeInvariant, InUse
  <2>. QED
    BY <1>6, <2>1 DEF DownloadsMarked, FreedAfterDownload, InDownload, Requeued
<1>7. ASSUME NEW x \in Threads, StopFree(x) PROVE Downloads'
  <2>1. /\ state \in States /\ trackOf' = trackOf /\ phase' = phase /\ flags' = flags
        /\ \/ freed' = freed
           \/ "DOWNLOADING" \notin flags[trackOf[state]] /\ freed' = freed \cup {state}
    BY <1>7 DEF StopFree, At, Undefined, Typing, TypeInvariant, tracks
  <2>. QED
    BY <2>1 DEF DownloadsMarked, FreedAfterDownload, InDownload, Requeued
<1>8. ASSUME NEW x \in Threads, PlayGet(x) PROVE Downloads'
  <2>1. /\ MainPending \/ PlayPending
        /\ arg[x] \in Tracks
    BY <1>8, ArgInTracks DEF PlayGet, At, MainPending, PlayPending, mpc, ppc, Threads,
                             Typing
  <2>2. PICK n \in States : n = NewState /\ trackOf[n] = NoTrack
    BY <2>1, NewStateExists
  <2>3. /\ trackOf' = [trackOf EXCEPT ![n] = arg[x]] /\ freed' = freed
        /\ \/ phase' = [phase EXCEPT ![n] = "cached"] /\ flags' = flags
           \/ /\ phase' = [phase EXCEPT ![n] = "queued"]
              /\ flags' = [flags EXCEPT ![arg[x]] = @ \cup {"DOWNLOADING"}]
    BY <1>8, <2>2 DEF PlayGet
  <2>4. n \notin freed /\ phase[n] = "none"
    BY <2>2 DEF Typing, InUse
  <2>5. ASSUME NEW d \in States, d # n, InDownload(d)'
        PROVE  /\ InDownload(d) /\ trackOf'[d] = trackOf[d] /\ trackOf[d] \in Tracks
               /\ Requeued(d) => Requeued(d)'
    BY <2>2, <2>3, <2>4, <2>5 DEF InDownload, Requeued, Typing, TypeInvariant, InUse
  <2>6. \A t \in Tracks : "DOWNLOADING" \in flags[t] => "DOWNLOADING" \in flags'[t]
    BY <2>3 DEF Typing, TypeInvariant
  <2>7. ASSUME InDownload(n)' PROVE "DOWNLOADING" \in flags'[trackOf'[n]]
    <3>1. trackOf'[n] = arg[x] /\ arg[x] \in Tracks
      BY <2>1, <2>2, <2>3 DEF Typing, TypeInvariant
    <3>2. phase'[n] # "cached"
      BY <2>7 DEF InDownload
    <3>3. flags' = [flags EXCEPT ![arg[x]] = @ \cup {"DOWNLOADING"}]
      BY <2>2, <2>3, <3>2 DEF Typing, TypeInvariant
    <3>. QED
      BY <3>1, <3>3 DEF Typing, TypeInvariant
  <2>8. DownloadsMarked'
    <3>1. ASSUME NEW d \in States, d # n, InDownload(d)'
          PROVE  "DOWNLOADING" \in flags'[trackOf'[d]] \/ Requeued(d)'
      <4>1. "DOWNLOADING" \in flags[trackOf[d]] \/ Requeued(d)
        BY <2>5, <3>1 DEF DownloadsMarked
      <4>. QED
        BY <2>5, <2>6, <3>1, <4>1
    <3>. QED
      BY <2>7, <3>1 DEF DownloadsMarked
  <2>9. FreedAfterDownload'
    BY <2>3, <2>4, <2>5 DEF FreedAfterDownload, Requeued, Typing, TypeInvariant
  <2>. QED
    BY <2>8, <2>9
<1>9. ASSUME NEW d \in States, Worker(d) PROVE Downloads'
  <2>1. ASSUME WorkerTake(d) \/ WorkerComplete(d) PROVE Downloads'
    <3>1. /\ trackOf' = trackOf /\ freed' = freed /\ flags' = flags
          /\ \A e \in States : /\ InDownload(e)' <=> InDownload(e)
                               /\ phase'[e] \in {"none", "cached"}
                                    <=> phase[e] \in {"none", "cached"}
      BY <2>1 DEF WorkerTake, WorkerComplete, WorkerAt, InDownload, Typing, TypeInvariant,
                  tracks
    <3>. QED
      BY <3>1 DEF DownloadsMarked, FreedAfterDownload, Requeued, Typing, TypeInvariant
  <2>2. CASE WorkerUnmark(d)
    <3>1. /\ trackOf' = trackOf /\ freed' = freed
          /\ phase[d] = "closing" /\ phase' = [phase EXCEPT ![d] = "finished"]
          /\ flags' = [flags EXCEPT ![trackOf[d]] = @ \ {"DOWNLOADING"}]
      BY <2>2 DEF WorkerUnmark, WorkerAt
    <3>2. ASSUME NEW e \in States, InDownload(e)'
          PROVE  InDownload(e) /\ e # d /\ (Requeued(e) => Requeued(e)')
      BY <3>1, <3>2 DEF InDownload, Requeued, Typing, TypeInvariant
    <3>3. ASSUME NEW e \in States, InDownload(e)', trackOf[e] = trackOf[d]
          PROVE  Requeued(e)'
      BY <3>1, <3>2, <3>3 DEF Requeued, Typing, TypeInvariant
    <3>4. \A t \in Tracks : t # trackOf[d] => flags'[t] = flags[t]
      BY <3>1 DEF Typing, TypeInvariant
    <3>5. \A e \in States : InDownload(e) => trackOf[e] \in Tracks
      BY DEF InDownload, Typing, TypeInvariant, InUse
    <3>6. DownloadsMarked'
      BY <3>1, <3>2, <3>3, <3>4, <3>5 DEF DownloadsMarked
    <3>7. FreedAfterDownload'
      BY <3>1, <3>2 DEF FreedAfterDownload, Requeued, Typing, TypeInvariant
    <3>. QED
      BY <3>6, <3>7
  <2>. QED
    BY <1>9, <2>1, <2>2 DEF Worker
<1>. HIDE DEF Frame, Downloads
<1>. QED
  BY <1>1, <1>2, <1>3, <1>4, <1>5, <1>6, <1>7, <1>8, <1>9
  DEF Next, Main, Player, Sound, Threads

\* No state is freed while the downloader has it, unless its track was queued again: at
\* the time sound_stop looks, the mark of the track tells, and a worker that removes
\* the mark of a track another state of which is being loaded is the only exception.
THEOREM FreedAfterDownloadHolds == Spec => []FreedAfterDownload
<1>1. Init => Downloads
  BY DEF Init, Downloads, DownloadsMarked, FreedAfterDownload, InDownload
<1>2. ASSUME Typing, Downloads, [Next]_vars PROVE Downloads'
  <2>1. CASE UNCHANGED vars
    BY <1>2, <2>1 DEF Downloads, DownloadsMarked, FreedAfterDownload, InDownload, Requeued,
                vars, tracks, downloads
  <2>. QED
    BY <1>2, <2>1, DownloadsKept
<1>3. Downloads => FreedAfterDownload
  BY DEF Downloads
<1>. QED
  BY <1>1, <1>2, <1>3, TypingHolds, PTL DEF Spec

-----------------------------------------------------------------------------
(* The hand-shake of the main thread and the play thread *)

Live == state # NULL /\ state \notin freed
Posted(p, s) == semPlay = p /\ semStopped = s

\* What the play thread is about, while no track has ended: nothing, a state it has been
\* asked to play, one it plays, one it stops to play, or an answer not yet received.
Resting == ppc \in {"again", "wait"} /\ Posted(0, 0)
Asked == ppc \in {"again", "wait"} /\ Posted(1, 0)
Underway ==
    /\ Posted(0, 0)
    /\ \/ ppc = "check"
       \/ ppc \in {"loop", "decode", "time", "time_set", "seek", "unseek"} /\ handle = state
Closing == ppc = "close" /\ handle = state /\ Posted(0, 0)
Answered == ppc \in {"again", "wait"} /\ Posted(0, 1)

\* What the main thread may rely on, before the end of a track.
Handshake ==
    \/ /\ mpc \in {"idle", "exit", "play", "stop", "resume", "get", "stopped"}
       /\ ~stopped /\ state = NULL /\ Resting
    \/ /\ mpc \in {"idle", "exit", "play", "stop", "halt"}
       /\ ~stopped /\ Live /\ (Asked \/ Underway)
    \/ /\ mpc \in {"wake", "await"}
       /\ stopped /\ Live /\ (Asked \/ Underway \/ Closing \/ Answered)
    \/ mpc = "free" /\ stopped /\ Live /\ Resting
    \/ mpc = "forget" /\ stopped /\ state # NULL /\ Resting
    \/ mpc = "unstop" /\ stopped /\ state = NULL /\ Resting
    \/ mpc = "go" /\ ~stopped /\ Live /\ Resting

\* What the play thread may rely on while it moves on to the next track by itself.
Succession ==
    \/ /\ ppc \in {"ended", "advance", "play", "stop", "halt"}
       /\ ~stopped /\ state # NULL /\ Posted(0, 0)
    \/ ppc \in {"free", "forget"} /\ stopped /\ state # NULL /\ Posted(0, 0)
    \/ ppc = "unstop" /\ stopped /\ state = NULL /\ Posted(0, 0)
    \/ ppc \in {"resume", "get"} /\ ~stopped /\ state = NULL /\ Posted(0, 0)
    \/ ppc \in {"go", "check"} /\ ~stopped /\ Live /\ Posted(0, 0)
    \/ /\ ppc \in {"seek", "unseek", "loop", "close", "again", "wait"}
       /\ ~stopped /\ (Posted(0, 0) \/ (Live /\ Posted(1, 0)))

Cycle == {"wait", "check", "loop", "decode", "time", "time_set", "seek", "unseek", "close",
          "again", "exited"}

Turns ==
    /\ done => mpc \in {"idle", "exit", "join", "left"}
    /\ terminate <=> mpc \in {"join", "left"}
    /\ ~done => ppc \in Cycle
    /\ ppc \in {"decode", "time", "time_set"} => ~done
    /\ ~done /\ ~terminate => Handshake
    /\ done /\ ~terminate => Succession
    /\ ~done /\ terminate /\ Decoding => handle # NULL /\ handle \notin freed

\* That a command met the end of a track is never forgotten.
LEMMA OverlapStays ==
  ASSUME TypeInvariant, Next, ~overlap'
  PROVE  ~overlap
  BY DEF Next, Main, Player, Sound, Worker, StopTest, StopHalt, StopWake, StopAwait,
         StopFree, StopForget, StopUnstop, PlayTest, PlayResume, PlayGet, PlayGo,
         CmdStopped, Finalize, FinalizeJoin, Interrupt, CmdPlay, CmdStop, CmdSeek,
         CmdRepeat, CmdExit, PlayerWait, PlayerOpen, PlayerLoop, Decode, DecodeEnd,
         TimeRead, TimeSet, AdvanceEnd, AdvanceNext, PlayerSeek, PlayerUnseek, PlayerClose,
         PlayerAgain, WorkerTake, WorkerComplete, WorkerUnmark, history, TypeInvariant

\* The state a thread creates is a new one, which nobody has freed.
LEMMA CreatesState ==
  ASSUME Typing, NEW x \in Threads, PlayGet(x)
  PROVE  /\ state' \in States /\ state' # NULL /\ state' \notin freed
         /\ freed' = freed
<1>1. MainPending \/ PlayPending
  BY DEF PlayGet, At, MainPending, PlayPending, mpc, ppc, Threads
<1>2. NewState \in States /\ trackOf[NewState] = NoTrack
  BY <1>1, NewStateExists
<1>. QED
  BY <1>2 DEF PlayGet, Typing, InUse, States, NULL

\* Every step passes the turn on, or leaves it where it is.
LEMMA TurnsKept ==
  ASSUME Typing, Turns, Next, ~overlap'
  PROVE  Turns'
<1>. USE DEF At, locals, sound, player, tracks, downloads, program, history
<1>. USE DEF Turns, Handshake, Succession, Cycle, Decoding, Live, Posted, Resting, Asked,
            Underway, Closing, Answered, Typing, TypeInvariant, Points, MainPoints,
            PlayPoints, Stopping, mpc, ppc, Undefined, Threads
<1>1. ASSUME StopTest("main") PROVE Turns'
  BY <1>1 DEF StopTest, StopReturn
<1>2. ASSUME StopTest("play") PROVE Turns'
  BY <1>2 DEF StopTest, StopReturn
<1>3. ASSUME StopHalt("main") PROVE Turns'
  BY <1>3 DEF StopHalt
<1>4. ASSUME StopHalt("play") PROVE Turns'
  BY <1>4 DEF StopHalt
<1>5. ASSUME StopWake("main") PROVE Turns'
  BY <1>5 DEF StopWake
<1>6. ASSUME StopWake("play") PROVE Turns'
  BY <1>6 DEF StopWake
<1>7. ASSUME StopAwait("main") PROVE Turns'
  BY <1>7 DEF StopAwait
<1>8. ASSUME StopAwait("play") PROVE Turns'
  BY <1>8 DEF StopAwait
<1>9. ASSUME StopFree("main") PROVE Turns'
  BY <1>9 DEF StopFree
<1>10. ASSUME StopFree("play") PROVE Turns'
  BY <1>10 DEF StopFree
<1>11. ASSUME StopForget("main") PROVE Turns'
  BY <1>11 DEF StopForget
<1>12. ASSUME StopForget("play") PROVE Turns'
  BY <1>12 DEF StopForget
<1>13. ASSUME StopUnstop("main") PROVE Turns'
  BY <1>13 DEF StopUnstop, StopReturn
<1>14. ASSUME StopUnstop("play") PROVE Turns'
  BY <1>14 DEF StopUnstop, StopReturn
<1>15. ASSUME PlayTest("main") PROVE Turns'
  BY <1>15 DEF PlayTest
<1>16. ASSUME PlayTest("play") PROVE Turns'
  BY <1>16 DEF PlayTest
<1>17. ASSUME PlayResume("main") PROVE Turns'
  BY <1>17 DEF PlayResume
<1>18. ASSUME PlayResume("play") PROVE Turns'
  BY <1>18 DEF PlayResume
<1>19. ASSUME PlayGet("main") PROVE Turns'
  BY <1>19, CreatesState DEF PlayGet
<1>20. ASSUME PlayGet("play") PROVE Turns'
  BY <1>20, CreatesState DEF PlayGet
<1>21. ASSUME PlayGo("main") PROVE Turns'
  BY <1>21 DEF PlayGo, Leave
<1>22. ASSUME PlayGo("play") PROVE Turns'
  BY <1>22 DEF PlayGo, Leave
<1>23. ASSUME CmdStopped PROVE Turns'
  BY <1>23 DEF CmdStopped, Leave
<1>24. ASSUME Finalize PROVE Turns'
  BY <1>24 DEF Finalize
<1>25. ASSUME FinalizeJoin PROVE Turns'
  BY <1>25 DEF FinalizeJoin
<1>26. ASSUME Interrupt PROVE Turns'
  BY <1>26 DEF Interrupt
<1>27. ASSUME CmdPlay PROVE Turns'
  BY <1>27 DEF CmdPlay
<1>28. ASSUME CmdStop PROVE Turns'
  BY <1>28 DEF CmdStop
<1>29. ASSUME CmdSeek PROVE Turns'
  BY <1>29 DEF CmdSeek
<1>30. ASSUME CmdRepeat PROVE Turns'
  BY <1>30 DEF CmdRepeat
<1>31. ASSUME CmdExit PROVE Turns'
  BY <1>31 DEF CmdExit
<1>32. ASSUME PlayerWait PROVE Turns'
  BY <1>32 DEF PlayerWait
<1>33. ASSUME PlayerOpen PROVE Turns'
  BY <1>33 DEF PlayerOpen
<1>34. ASSUME PlayerLoop PROVE Turns'
  BY <1>34 DEF PlayerLoop
<1>35. ASSUME Decode PROVE Turns'
  BY <1>35 DEF Decode
<1>36. ASSUME DecodeEnd PROVE Turns'
  BY <1>36 DEF DecodeEnd
<1>37. ASSUME TimeRead PROVE Turns'
  BY <1>37 DEF TimeRead
<1>38. ASSUME TimeSet PROVE Turns'
  BY <1>38 DEF TimeSet, Leave
<1>39. ASSUME AdvanceEnd PROVE Turns'
  BY <1>39 DEF AdvanceEnd, Leave
<1>40. ASSUME AdvanceNext PROVE Turns'
  BY <1>40 DEF AdvanceNext
<1>41. ASSUME PlayerSeek PROVE Turns'
  BY <1>41 DEF PlayerSeek
<1>42. ASSUME PlayerUnseek PROVE Turns'
  BY <1>42 DEF PlayerUnseek
<1>43. ASSUME PlayerClose PROVE Turns'
  BY <1>43 DEF PlayerClose
<1>44. ASSUME PlayerAgain PROVE Turns'
  BY <1>44 DEF PlayerAgain
<1>45. ASSUME NEW d \in States, Worker(d) PROVE Turns'
  BY <1>45 DEF Worker, WorkerTake, WorkerComplete, WorkerUnmark
<1>. QED
  BY <1>1, <1>2, <1>3, <1>4, <1>5, <1>6, <1>7, <1>8, <1>9, <1>10, <1>11, <1>12, <1>13,
     <1>14, <1>15, <1>16, <1>17, <1>18, <1>19, <1>20, <1>21, <1>22, <1>23, <1>24, <1>25,
     <1>26, <1>27, <1>28, <1>29, <1>30, <1>31, <1>32, <1>33, <1>34, <1>35, <1>36, <1>37,
     <1>38, <1>39, <1>40, <1>41, <1>42, <1>43, <1>44, <1>45
  DEF Next, Main, Player, Sound

\* The hand-shake is kept as long as no command meets the end of a track.
LEMMA TurnsHolds == Spec => [](~overlap => Turns)
<1>1. Init => Turns
  BY DEF Init, Turns, Handshake, Posted, Resting, Cycle, Decoding, mpc, ppc, Threads, NULL
<1>2. ASSUME Typing, ~overlap => Turns, [Next]_vars PROVE (~overlap => Turns)'
  <2>1. CASE UNCHANGED vars
    BY <1>2, <2>1 DEF Turns, Handshake, Succession, Cycle, Decoding, Live, Posted, Resting,
                      Asked, Underway, Closing, Answered, Typing, TypeInvariant, Points,
                      MainPoints, PlayPoints, Stopping, mpc, ppc, Undefined, Threads, vars,
                      locals, sound, player, tracks, downloads, program, history
  <2>2. CASE Next
    BY <1>2, <2>2, TurnsKept, OverlapStays DEF Typing
  <2>. QED
    BY <1>2, <2>1, <2>2
<1>. QED
  BY <1>1, <1>2, TypingHolds, PTL DEF Spec

\* The play thread never begins without a state, and never reads one that was freed:
\* sound_stop frees a state only after the play thread has answered, and the play thread
\* answers only once it has closed the decoder.
THEOREM PlaysLiveStateHolds == Spec => []PlaysLiveState
<1>1. ~overlap /\ Turns => PlaysLiveState
  BY DEF PlaysLiveState, Turns, Handshake, Succession, Cycle, Decoding, Live, Posted,
         Resting, Asked, Underway, Closing, Answered, Typing, TypeInvariant, Points,
         MainPoints, PlayPoints, Stopping, mpc, ppc, Undefined, Threads
<1>. QED
  BY <1>1, TurnsHolds, PTL DEF PlaysLiveState

-----------------------------------------------------------------------------
(* The mark of the current track *)

MarkedTracks == {t \in Tracks : "PLAYING" \in flags[t]}

\* After the end of a track and until the play thread has begun the next one the mark
\* is out of date, if nothing follows the track.
MarkIsDue ==
    \/ ~done
    \/ ppc \in {"ended", "advance", "play", "resume", "get", "go"} \cup Stopping
    \/ ~terminate /\ (semPlay > 0 \/ ppc = "check")

Marks ==
    /\ playing = Count => done
    /\ ppc = "advance" => arg["play"] = playing
    /\ mpc \in {"wake", "await", "stopped"} \cup Stopping /\ ~nested["main"]
         => arg["main"] = playing /\ playing # NoTrack
    /\ playing # Count /\ MarkIsDue => MarkedTracks = {playing} \ {NoTrack}

\* Every step that moves the current track moves its mark.
LEMMA MarksKept ==
  ASSUME Typing, Turns, Marks, Next, ~overlap'
  PROVE  Marks'
<1>. USE DEF At, locals, sound, player, tracks, downloads, program, history
<1>. USE DEF Marks, MarkedTracks, MarkIsDue, Turns, Handshake, Succession, Cycle, Live,
            Posted, Resting, Asked, Underway, Closing, Answered, Typing, TypeInvariant,
            Points, MainPoints, PlayPoints, Stopping, mpc, ppc, Undefined, Threads
<1>1. ASSUME StopTest("main") PROVE Marks'
  BY <1>1 DEF StopTest, StopReturn
<1>2. ASSUME StopTest("play") PROVE Marks'
  BY <1>2 DEF StopTest, StopReturn
<1>3. ASSUME StopHalt("main") PROVE Marks'
  BY <1>3 DEF StopHalt
<1>4. ASSUME StopHalt("play") PROVE Marks'
  BY <1>4 DEF StopHalt
<1>5. ASSUME StopWake("main") PROVE Marks'
  BY <1>5 DEF StopWake
<1>6. ASSUME StopWake("play") PROVE Marks'
  BY <1>6 DEF StopWake
<1>7. ASSUME StopAwait("main") PROVE Marks'
  BY <1>7 DEF StopAwait
<1>8. ASSUME StopAwait("play") PROVE Marks'
  BY <1>8 DEF StopAwait
<1>9. ASSUME StopFree("main") PROVE Marks'
  BY <1>9 DEF StopFree
<1>10. ASSUME StopFree("play") PROVE Marks'
  BY <1>10 DEF StopFree
<1>11. ASSUME StopForget("main") PROVE Marks'
  BY <1>11 DEF StopForget
<1>12. ASSUME StopForget("play") PROVE Marks'
  BY <1>12 DEF StopForget
<1>13. ASSUME StopUnstop("main") PROVE Marks'
  BY <1>13 DEF StopUnstop, StopReturn
<1>14. ASSUME StopUnstop("play") PROVE Marks'
  BY <1>14 DEF StopUnstop, StopReturn
<1>15. ASSUME PlayTest("main") PROVE Marks'
  BY <1>15 DEF PlayTest
<1>16. ASSUME PlayTest("play") PROVE Marks'
  BY <1>16 DEF PlayTest
<1>17. ASSUME PlayResume("main") PROVE Marks'
  BY <1>17 DEF PlayResume
<1>18. ASSUME PlayResume("play") PROVE Marks'
  BY <1>18 DEF PlayResume
<1>19. ASSUME PlayGet("main") PROVE Marks'
  BY <1>19 DEF PlayGet
<1>20. ASSUME PlayGet("play") PROVE Marks'
  BY <1>20 DEF PlayGet
<1>21. ASSUME PlayGo("main") PROVE Marks'
  BY <1>21 DEF PlayGo, Leave
<1>22. ASSUME PlayGo("play") PROVE Marks'
  BY <1>22 DEF PlayGo, Leave
<1>23. ASSUME CmdStopped PROVE Marks'
  <2>1. /\ arg["main"] = playing /\ playing \in Tracks /\ ~done
        /\ MarkedTracks = {playing} /\ playing' = NoTrack
    BY <1>23, CountAssumption DEF CmdStopped, Tracks, NoTrack
  <2>2. flags' = [flags EXCEPT ![playing] = StopFlags(playing, position'[playing])]
    BY <1>23, <2>1 DEF CmdStopped
  <2>3. MarkedTracks' = {}
    BY <2>1, <2>2 DEF StopFlags
  <2>. QED
    BY <1>23, <2>1, <2>3, CountAssumption DEF CmdStopped, Leave, NoTrack
<1>24. ASSUME Finalize PROVE Marks'
  BY <1>24 DEF Finalize
<1>25. ASSUME FinalizeJoin PROVE Marks'
  BY <1>25 DEF FinalizeJoin
<1>26. ASSUME Interrupt PROVE Marks'
  BY <1>26 DEF Interrupt
<1>27. ASSUME CmdPlay PROVE Marks'
  BY <1>27 DEF CmdPlay, StopFlags, NoTrack, Tracks
<1>28. ASSUME CmdStop PROVE Marks'
  BY <1>28 DEF CmdStop
<1>29. ASSUME CmdSeek PROVE Marks'
  BY <1>29 DEF CmdSeek
<1>30. ASSUME CmdRepeat PROVE Marks'
  BY <1>30 DEF CmdRepeat
<1>31. ASSUME CmdExit PROVE Marks'
  BY <1>31 DEF CmdExit
<1>32. ASSUME PlayerWait PROVE Marks'
  BY <1>32 DEF PlayerWait
<1>33. ASSUME PlayerOpen PROVE Marks'
  BY <1>33 DEF PlayerOpen
<1>34. ASSUME PlayerLoop PROVE Marks'
  BY <1>34 DEF PlayerLoop
<1>35. ASSUME Decode PROVE Marks'
  BY <1>35 DEF Decode
<1>36. ASSUME DecodeEnd PROVE Marks'
  BY <1>36 DEF DecodeEnd
<1>37. ASSUME TimeRead PROVE Marks'
  BY <1>37 DEF TimeRead
<1>38. ASSUME TimeSet PROVE Marks'
  BY <1>38 DEF TimeSet, Leave
<1>39. ASSUME AdvanceEnd PROVE Marks'
  BY <1>39 DEF AdvanceEnd, Leave
<1>40. ASSUME AdvanceNext PROVE Marks'
  <2>1. /\ arg["play"] = playing /\ playing \in Tracks /\ done
        /\ MarkedTracks = {playing} /\ playing' = Following(playing)
    BY <1>40, AdvanceReads DEF AdvanceNext, Tracks, NoTrack
  <2>2. PICK next \in Tracks \cup {Count} : next = Following(playing)
    BY <2>1, FollowingType
  <2>3. CASE next = Count
    BY <1>40, <2>1, <2>2, <2>3 DEF AdvanceNext
  <2>4. CASE next \in Tracks
    <3>1. flags' = AdvanceFlags(playing, next)
      BY <1>40, <2>1, <2>2, <2>4 DEF AdvanceNext
    <3>2. MarkedTracks' = {next}
      BY <2>1, <2>4, <3>1 DEF AdvanceFlags
    <3>. QED
      BY <1>40, <2>1, <2>2, <2>4, <3>2 DEF AdvanceNext, Tracks, NoTrack
  <2>. QED
    BY <2>2, <2>3, <2>4
<1>41. ASSUME PlayerSeek PROVE Marks'
  BY <1>41 DEF PlayerSeek
<1>42. ASSUME PlayerUnseek PROVE Marks'
  BY <1>42 DEF PlayerUnseek
<1>43. ASSUME PlayerClose PROVE Marks'
  BY <1>43 DEF PlayerClose
<1>44. ASSUME PlayerAgain PROVE Marks'
  BY <1>44 DEF PlayerAgain
<1>45. ASSUME NEW d \in States, Worker(d) PROVE Marks'
  BY <1>45 DEF Worker, WorkerTake, WorkerComplete, WorkerUnmark
<1>. QED
  BY <1>1, <1>2, <1>3, <1>4, <1>5, <1>6, <1>7, <1>8, <1>9, <1>10, <1>11, <1>12, <1>13,
     <1>14, <1>15, <1>16, <1>17, <1>18, <1>19, <1>20, <1>21, <1>22, <1>23, <1>24, <1>25,
     <1>26, <1>27, <1>28, <1>29, <1>30, <1>31, <1>32, <1>33, <1>34, <1>35, <1>36, <1>37,
     <1>38, <1>39, <1>40, <1>41, <1>42, <1>43, <1>44, <1>45
  DEF Next, Main, Player, Sound

\* The mark is kept under the hand-shake.
LEMMA MarksHolds == Spec => [](~overlap => Marks)
<1>1. Init => Marks
  BY CountAssumption DEF Init, Marks, MarkedTracks, MarkIsDue, Stopping, mpc, ppc, Threads,
                         NoTrack
<1>2. ASSUME Typing, ~overlap => Turns, ~overlap => Marks, [Next]_vars
      PROVE  (~overlap => Marks)'
  <2>1. CASE UNCHANGED vars
    BY <1>2, <2>1 DEF Marks, MarkedTracks, MarkIsDue, mpc, ppc, vars, locals, sound, player,
                      tracks, program, history
  <2>2. CASE Next
    BY <1>2, <2>2, MarksKept, OverlapStays DEF Typing
  <2>. QED
    BY <1>2, <2>1, <2>2
<1>. QED
  BY <1>1, <1>2, TypingHolds, TurnsHolds, PTL DEF Spec

\* When no command runs and no track has ended, FLAG_PLAYING marks the current track and
\* no other: cmd_pl_play, stop_playback and the callback at the end of a track move the
\* mark together with the current track.
THEOREM MarksCurrentTrackHolds == Spec => []MarksCurrentTrack
<1>1. (~overlap => Marks) => MarksCurrentTrack
  BY DEF MarksCurrentTrack, AtRest, Marks, MarkIsDue, MarkedTracks
<1>. QED
  BY <1>1, MarksHolds, PTL
=============================================================================
