------------------------------ MODULE Playback ------------------------------
(***************************************************************************)
(* Playing tracks: the play thread and sound_play / sound_stop of          *)
(* src/src/sound.c, the commands of the main thread that call them         *)
(* (src/src/commands), the time callback of src/src/main.c that the play   *)
(* thread calls, and the life of a download_state between the sound code   *)
(* and the download workers of src/src/downloader.c.                       *)
(*                                                                         *)
(* sound_play and sound_stop are run by the main thread for a command, and *)
(* by the play thread itself when a track has ended and the next one is    *)
(* selected.  Submitting to the TUI thread, the decoder and the data of a  *)
(* track are abstracted (modules TuiHandoff and Stream); a statement that  *)
(* changes the flags of a track is one step.                               *)
(***************************************************************************)
EXTENDS Integers, FiniteSets

CONSTANTS
    Count,      \* list->count: the tracks of the list are 0 .. Count - 1
    Repeats,    \* the repeat modes the user chooses from
    MaxPlays,   \* bound: tracks begun, by a command or after another one
    MaxSigints  \* bound: SIGINTs that interrupt the main thread's wait

ASSUME CountAssumption == Count \in Nat \ {0}
ASSUME RepeatsAssumption == "none" \in Repeats /\ Repeats \subseteq {"none", "one", "all"}
ASSUME BoundsAssumption == MaxPlays \in Nat /\ MaxSigints \in Nat

Tracks == 0..Count - 1
NoTrack == -1                \* NO_TRACK; as a position: the start of a track
ByUser == -2                 \* a position the user asked for
NULL == 0                    \* download states are numbered from 1
States == 1..MaxPlays
Threads == {"main", "play"}

VARIABLES
    pc,          \* where the main thread and the play thread are
    arg,         \* the track a thread's command or callback is about
    nested,      \* sound_stop was called by sound_play
    reset,       \* the argument of stop_playback
    state,       \* `state': the download state being played, or NULL
    stopped, terminate,
    semPlay, semStopped,
    seekTo,      \* seek_to_pos: the track the position was reached in, or ByUser
    handle,      \* the play thread's decoder: the download state it reads
    done,        \* playback_done
    playing,     \* current_playback.track
    repeat,      \* the repeat mode
    position,    \* current_position of each track: the track it was reached in
    flags,       \* the flags of each track
    trackOf,     \* trackOf[d]: d->track, NoTrack if there is no state d yet
    phase,       \* what the downloader does with each state
    freed,       \* the states that have been freed
    cached,      \* the tracks whose data is in the cache
    destroyed,   \* track_list_destroy has been called for the lists
    plays, sigints,  \* bounded by MaxPlays and MaxSigints
    overlap      \* history: a command and the end of a track met, or a wait was cut

locals == <<arg, nested, reset>>
history == <<plays, overlap>>
sound == <<state, stopped, semPlay, semStopped, seekTo>>
player == <<handle, done>>
tracks == <<playing, position, flags>>
downloads == <<trackOf, phase, freed, cached>>
program == <<terminate, repeat, destroyed, sigints>>
vars == <<pc, locals, sound, player, tracks, downloads, program, history>>

Init ==
    /\ pc = [main |-> "idle", play |-> "wait"]
    /\ arg = [x \in Threads |-> NoTrack] /\ nested = [x \in Threads |-> FALSE]
    /\ reset = FALSE
    /\ state = NULL /\ stopped = FALSE /\ terminate = FALSE
    /\ semPlay = 0 /\ semStopped = 0 /\ seekTo = NoTrack
    /\ handle = NULL /\ done = FALSE
    /\ playing = NoTrack /\ repeat = "none"
    /\ position = [t \in Tracks |-> NoTrack] /\ flags = [t \in Tracks |-> {}]
    /\ trackOf = [d \in States |-> NoTrack] /\ phase = [d \in States |-> "none"]
    /\ freed = {}
    /\ \E c \in SUBSET Tracks : cached = c
    /\ destroyed = FALSE /\ plays = 0 /\ sigints = 0 /\ overlap = FALSE

\* The program has undefined behaviour: it uses the track behind the last one, the one
\* with the index NO_TRACK, or a state through a null pointer.  Behaviours end there.
Undefined ==
    \/ playing = Count
    \/ pc["play"] \in {"time_set", "advance"} /\ arg["play"] = NoTrack
    \/ pc["play"] = "decode" /\ handle = NULL
    \/ \E x \in Threads : pc[x] = "free" /\ state = NULL

At(x, from, to) ==
    /\ pc[x] = from /\ ~Undefined
    /\ pc' = [pc EXCEPT ![x] = to]

\* A thread's locals are gone when its command or callback returns.
Leave(x) == arg' = [arg EXCEPT ![x] = NoTrack] /\ nested' = [nested EXCEPT ![x] = FALSE]

-----------------------------------------------------------------------------
(* sound_stop, run by thread x *)

\* Where sound_stop returns to: into sound_play or into stop_playback.
StopReturn(x) == IF nested[x] THEN "resume" ELSE "stopped"

\* if(!state) return false;
StopTest(x) ==
    /\ At(x, "stop", IF state = NULL THEN StopReturn(x) ELSE "halt")
    /\ UNCHANGED <<locals, sound, player, tracks, downloads, program, history>>

\* Mutated form: the main thread does not wait for the play thread.
StopHaltAtOnce(x) ==
    /\ At(x, "halt", "free")
    /\ stopped' = TRUE
    /\ UNCHANGED <<locals, state, semPlay, semStopped, seekTo, player, tracks, downloads,
                   program, history>>

\* stopped = true; the play thread must not wait for itself.
StopHalt(x) ==
    /\ At(x, "halt", IF x = "play" THEN "free" ELSE "wake")
    /\ stopped' = TRUE
    /\ UNCHANGED <<locals, state, semPlay, semStopped, seekTo, player, tracks, downloads,
                   program, history>>

\* if(!state) sem_post(&sem_play): the other thread has stopped the playback meanwhile.
StopWake(x) ==
    /\ At(x, "wake", "await")
    /\ semPlay' = IF state = NULL THEN semPlay + 1 ELSE semPlay
    /\ UNCHANGED <<locals, state, stopped, semStopped, seekTo, player, tracks, downloads,
                   program, history>>

\* Mutated form: the wait does not block.
StopAwaitOpen(x) ==
    /\ At(x, "await", "free")
    /\ semStopped' = semStopped - 1
    /\ UNCHANGED <<locals, state, stopped, semPlay, seekTo, player, tracks, downloads,
                   program, history>>

StopAwait(x) ==
    /\ semStopped > 0
    /\ At(x, "await", "free")
    /\ semStopped' = semStopped - 1
    /\ UNCHANGED <<locals, state, stopped, semPlay, seekTo, player, tracks, downloads,
                   program, history>>

\* SIGINT's handler is installed without SA_RESTART and what sem_wait returns is not
\* looked at: a wait that blocks ends without the play thread having stopped.
Interrupt ==
    /\ sigints < MaxSigints /\ semStopped = 0
    /\ At("main", "await", "free")
    /\ sigints' = sigints + 1 /\ overlap' = TRUE
    /\ UNCHANGED <<locals, sound, player, tracks, downloads, terminate, repeat, destroyed,
                   plays>>

\* Mutated form: the state is freed whatever the downloader does with it.
StopFreeAlways(x) ==
    /\ At(x, "free", "forget")
    /\ freed' = freed \cup {state}
    /\ UNCHANGED <<locals, sound, player, tracks, trackOf, phase, cached, program, history>>

\* A state is freed unless its track is marked as being downloaded.
StopFree(x) ==
    /\ At(x, "free", "forget")
    /\ freed' = IF "DOWNLOADING" \in flags[trackOf[state]] THEN freed ELSE freed \cup {state}
    /\ UNCHANGED <<locals, sound, player, tracks, trackOf, phase, cached, program, history>>

StopForget(x) ==
    /\ At(x, "forget", "unstop")
    /\ state' = NULL
    /\ UNCHANGED <<locals, stopped, semPlay, semStopped, seekTo, player, tracks, downloads,
                   program, history>>

StopUnstop(x) ==
    /\ At(x, "unstop", StopReturn(x))
    /\ stopped' = FALSE
    /\ UNCHANGED <<locals, state, semPlay, semStopped, seekTo, player, tracks, downloads,
                   program, history>>

-----------------------------------------------------------------------------
(* sound_play(arg[x]), run by thread x; its allocations do not fail here *)

\* if(state) sound_stop();
PlayTest(x) ==
    /\ At(x, "play", IF state # NULL THEN "stop" ELSE "resume")
    /\ nested' = [nested EXCEPT ![x] = TRUE]
    /\ UNCHANGED <<arg, reset, sound, player, tracks, downloads, program, history>>

\* seek_to_pos = track->current_position, or none if that is 0
PlayResume(x) ==
    /\ At(x, "resume", "get")
    /\ seekTo' = position[arg[x]]
    /\ UNCHANGED <<locals, state, stopped, semPlay, semStopped, player, tracks, downloads,
                   program, history>>

NewState == CHOOSE d \in States : trackOf[d] = NoTrack

\* The track's data is in the cache, or a download of it is queued.
PlayGet(x) ==
    /\ At(x, "get", "go")
    /\ state' = NewState
    /\ trackOf' = [trackOf EXCEPT ![NewState] = arg[x]]
    /\ IF arg[x] \in cached
       THEN phase' = [phase EXCEPT ![NewState] = "cached"] /\ UNCHANGED flags
       ELSE /\ phase' = [phase EXCEPT ![NewState] = "queued"]
            /\ flags' = [flags EXCEPT ![arg[x]] = @ \cup {"DOWNLOADING"}]
    /\ UNCHANGED <<locals, stopped, semPlay, semStopped, seekTo, player, playing, position,
                   freed, cached, program, history>>

PlayGo(x) ==
    /\ At(x, "go", IF x = "main" THEN "idle" ELSE "seek")
    /\ semPlay' = semPlay + 1
    /\ Leave(x)
    /\ UNCHANGED <<reset, state, stopped, semStopped, seekTo, player, tracks, downloads,
                   program, history>>

-----------------------------------------------------------------------------
(* The main thread's commands *)

\* The flags of track t once it is not played any longer (update_flags_stop_playback),
\* pos being where it was left.
StopFlags(t, pos) ==
    (flags[t] \ {"PLAYING"}) \cup (IF pos # NoTrack THEN {"PAUSED"} ELSE {})

\* cmd_pl_play: the new track is the current one before the old one is stopped.
CmdPlay ==
    /\ plays < MaxPlays
    /\ At("main", "idle", "play")
    /\ \E t \in Tracks :
        /\ arg' = [arg EXCEPT !["main"] = t]
        /\ playing' = t
        /\ LET left == [flags EXCEPT ![playing] = StopFlags(playing, position[playing])]
               old  == IF playing = NoTrack THEN flags ELSE left
           IN flags' = [old EXCEPT ![t] = (@ \ {"PAUSED"}) \cup {"PLAYING"}]
    /\ plays' = plays + 1
    /\ overlap' = (overlap \/ done)
    /\ UNCHANGED <<nested, reset, sound, player, position, downloads, program>>

\* cmd_gl_pause and cmd_gl_stop: nothing happens without a current track.
CmdStop ==
    /\ playing # NoTrack
    /\ At("main", "idle", "stop")
    /\ reset' \in BOOLEAN
    /\ arg' = [arg EXCEPT !["main"] = playing]
    /\ overlap' = (overlap \/ done)
    /\ UNCHANGED <<nested, sound, player, tracks, downloads, program, plays>>

\* Mutated form: the track keeps the mark of the track being played.
CmdStoppedMarked ==
    /\ At("main", "stopped", "idle")
    /\ position' = IF reset THEN [position EXCEPT ![arg["main"]] = NoTrack] ELSE position
    /\ playing' = NoTrack /\ reset' = FALSE /\ Leave("main")
    /\ UNCHANGED <<sound, player, flags, downloads, program, history>>

\* The rest of stop_playback.
CmdStopped ==
    /\ At("main", "stopped", "idle")
    /\ LET t == arg["main"] IN
        /\ position' = IF reset THEN [position EXCEPT ![t] = NoTrack] ELSE position
        /\ flags' = [flags EXCEPT ![t] = StopFlags(t, position'[t])]
    /\ playing' = NoTrack /\ reset' = FALSE /\ Leave("main")
    /\ UNCHANGED <<sound, player, downloads, program, history>>

\* cmd_gl_seek
CmdSeek ==
    /\ At("main", "idle", "idle")
    /\ seekTo' = ByUser
    /\ UNCHANGED <<locals, state, stopped, semPlay, semStopped, player, tracks, downloads,
                   program, history>>

\* cmd_gl_repeat
CmdRepeat ==
    /\ At("main", "idle", "idle")
    /\ repeat' \in Repeats
    /\ UNCHANGED <<locals, sound, player, tracks, downloads, terminate, destroyed, sigints,
                   history>>

\* cmd_pl_exit destroys the lists, then calls exit().
CmdExit ==
    /\ At("main", "idle", "exit")
    /\ destroyed' = TRUE
    /\ UNCHANGED <<locals, sound, player, tracks, downloads, terminate, repeat, sigints,
                   history>>

\* Mutated form: the play thread is not woken.
FinalizeSilent ==
    /\ At("main", "exit", "join")
    /\ terminate' = TRUE
    /\ UNCHANGED <<locals, sound, player, tracks, downloads, repeat, destroyed, sigints,
                   history>>

\* sound_finalize
Finalize ==
    /\ At("main", "exit", "join")
    /\ terminate' = TRUE
    /\ semPlay' = semPlay + 1
    /\ UNCHANGED <<locals, state, stopped, semStopped, seekTo, player, tracks, downloads,
                   repeat, destroyed, sigints, history>>

FinalizeJoin ==
    /\ pc["play"] = "exited"
    /\ At("main", "join", "left")
    /\ UNCHANGED <<locals, sound, player, tracks, downloads, program, history>>

-----------------------------------------------------------------------------
(* _thread_play_function *)

PlayerWait ==
    /\ semPlay > 0
    /\ At("play", "wait", "check")
    /\ semPlay' = semPlay - 1
    /\ UNCHANGED <<locals, state, stopped, semStopped, seekTo, player, tracks, downloads,
                   program, history>>

\* if(terminate) return NULL; mpg123_init_playback(state)
PlayerOpen ==
    /\ At("play", "check", IF terminate THEN "exited" ELSE "loop")
    /\ IF terminate THEN UNCHANGED player ELSE handle' = state /\ done' = FALSE
    /\ UNCHANGED <<locals, sound, tracks, downloads, program, history>>

\* while(!terminate && !stopped && !playback_done)
PlayerLoop ==
    /\ At("play", "loop", IF terminate \/ stopped \/ done THEN "close" ELSE "decode")
    /\ UNCHANGED <<locals, sound, player, tracks, downloads, program, history>>

\* mpg123_decode_frame: a frame whose position is to be reported, or nothing of that
\* kind (a frame within the same second, a new format, an error).
Decode ==
    /\ \E to \in {"time", "seek"} : At("play", "decode", to)
    /\ UNCHANGED <<locals, sound, player, tracks, downloads, program, history>>

\* mpg123_decode_frame: the end of the track.
DecodeEnd ==
    /\ plays < MaxPlays
    /\ At("play", "decode", "ended")
    /\ done' = TRUE /\ plays' = plays + 1
    /\ overlap' = (overlap \/ pc["main"] # "idle")
    /\ UNCHANGED <<locals, sound, handle, tracks, downloads, program>>

\* tui_update_time reads the current track ...
TimeRead ==
    /\ \/ At("play", "time", "time_set")
       \/ At("play", "ended", "advance")
    /\ arg' = [arg EXCEPT !["play"] = playing]
    /\ UNCHANGED <<nested, reset, sound, player, tracks, downloads, program, history>>

\* ... and notes the position reached in what it plays, which is 0 in the first second.
TimeSet ==
    /\ At("play", "time_set", "seek")
    /\ \E p \in {NoTrack, trackOf[handle]} :
          position' = [position EXCEPT ![arg["play"]] = p]
    /\ Leave("play")
    /\ UNCHANGED <<reset, sound, player, playing, flags, downloads, program, history>>

\* The flags when track `next' follows track t.
AdvanceFlags(t, next) ==
    LET ended == [flags EXCEPT ![t] = @ \ {"PAUSED", "PLAYING"}]
    IN [ended EXCEPT ![next] = (@ \ {"PAUSED"}) \cup {"PLAYING"}]

\* The track that follows track t: Count, behind the last one, when the whole list is
\* repeated and t is the last.
Following(t) ==
    IF repeat = "one" THEN t
    ELSE IF t >= Count THEN 0 ELSE t + 1

\* tui_update_time(-1): nothing follows the last track unless something is repeated ...
AdvanceEnd ==
    LET t == arg["play"] IN
    /\ t >= Count - 1 /\ repeat = "none"
    /\ At("play", "advance", "seek")
    /\ position' = [position EXCEPT ![t] = NoTrack]
    /\ flags' = [flags EXCEPT ![t] = @ \ {"PAUSED", "PLAYING"}]
    /\ Leave("play")
    /\ UNCHANGED <<reset, sound, player, playing, downloads, program, history>>

\* ... otherwise the following track becomes the current one and sound_play is called.
\* What the program does with a track behind the last one is undefined.
AdvanceNext ==
    LET t == arg["play"]
        next == Following(t) IN
    /\ ~(t >= Count - 1 /\ repeat = "none")
    /\ At("play", "advance", "play")
    /\ position' = [position EXCEPT ![t] = NoTrack]
    /\ flags' = IF next \in Tracks THEN AdvanceFlags(t, next) ELSE flags
    /\ playing' = next
    /\ arg' = [arg EXCEPT !["play"] = next]
    /\ UNCHANGED <<nested, reset, sound, player, downloads, program, history>>

\* if(SEEKPOS_NONE != seek_to_pos) the decoder seeks there ...
PlayerSeek ==
    /\ At("play", "seek", IF seekTo # NoTrack THEN "unseek" ELSE "loop")
    /\ UNCHANGED <<locals, sound, player, tracks, downloads, program, history>>

\* ... and seek_to_pos is reset.
PlayerUnseek ==
    /\ At("play", "unseek", "loop")
    /\ seekTo' = NoTrack
    /\ UNCHANGED <<locals, state, stopped, semPlay, semStopped, player, tracks, downloads,
                   program, history>>

\* Mutated form: sound_stop is never answered.
PlayerCloseSilent ==
    /\ At("play", "close", "again")
    /\ handle' = NULL
    /\ UNCHANGED <<locals, sound, done, tracks, downloads, program, history>>

\* The decoder is closed; if(stopped) sem_post(&sem_stopped);
PlayerClose ==
    /\ At("play", "close", "again")
    /\ semStopped' = IF stopped THEN semStopped + 1 ELSE semStopped
    /\ handle' = NULL
    /\ UNCHANGED <<locals, state, stopped, semPlay, seekTo, done, tracks, downloads,
                   program, history>>

\* while(!terminate)
PlayerAgain ==
    /\ At("play", "again", IF terminate THEN "exited" ELSE "wait")
    /\ UNCHANGED <<locals, sound, player, tracks, downloads, program, history>>

-----------------------------------------------------------------------------
(* A download worker, as far as it uses the state d *)

WorkerAt(d, from, to) == phase[d] = from /\ ~Undefined /\ phase' = [phase EXCEPT ![d] = to]

WorkerTake(d) ==
    /\ WorkerAt(d, "queued", "running")
    /\ UNCHANGED <<pc, locals, sound, player, tracks, trackOf, freed, cached, program,
                   history>>

\* The last chunk and io_callback, which saves the track to the cache.
WorkerComplete(d) ==
    /\ WorkerAt(d, "running", "closing")
    /\ cached' = cached \cup {trackOf[d]}
    /\ UNCHANGED <<pc, locals, sound, player, tracks, trackOf, freed, program, history>>

\* my->state->track->flags &= ~FLAG_DOWNLOADING, the last use of the state.
WorkerUnmark(d) ==
    /\ WorkerAt(d, "closing", "finished")
    /\ flags' = [flags EXCEPT ![trackOf[d]] = @ \ {"DOWNLOADING"}]
    /\ UNCHANGED <<pc, locals, sound, player, playing, position, trackOf, freed, cached,
                   program, history>>

-----------------------------------------------------------------------------
Sound(x) ==
    \/ StopTest(x) \/ StopHalt(x) \/ StopWake(x) \/ StopAwait(x) \/ StopFree(x) \/ StopForget(x)
    \/ StopUnstop(x) \/ PlayTest(x) \/ PlayResume(x) \/ PlayGet(x) \/ PlayGo(x)
Main == Sound("main") \/ CmdStopped \/ Finalize \/ FinalizeJoin
Player ==
    \/ Sound("play") \/ PlayerWait \/ PlayerOpen \/ PlayerLoop \/ Decode \/ DecodeEnd
    \/ TimeRead \/ TimeSet \/ AdvanceEnd \/ AdvanceNext
    \/ PlayerSeek \/ PlayerUnseek \/ PlayerClose \/ PlayerAgain
Worker(d) == WorkerTake(d) \/ WorkerComplete(d) \/ WorkerUnmark(d)

Next ==
    \/ Main \/ Player \/ Interrupt
    \/ CmdPlay \/ CmdStop \/ CmdSeek \/ CmdRepeat \/ CmdExit
    \/ \E d \in States : Worker(d)

Spec == Init /\ [][Next]_vars

\* Both threads run and the data the decoder waits for comes.  No command has to come,
\* and no track has to end.
FairSpec == Spec /\ WF_vars(Main) /\ WF_vars(Player)

-----------------------------------------------------------------------------
TypeInvariant ==
    /\ pc \in [Threads -> {"idle", "play", "stop", "halt", "wake", "await", "free", "forget",
                            "unstop", "stopped", "resume", "get", "go", "exit", "join",
                            "left", "wait", "check", "loop", "decode", "time", "time_set",
                            "ended", "advance", "seek", "unseek", "close", "again", "exited"}]
    /\ arg \in [Threads -> Tracks \cup {NoTrack, Count}]
    /\ nested \in [Threads -> BOOLEAN] /\ reset \in BOOLEAN
    /\ state \in States \cup {NULL} /\ stopped \in BOOLEAN /\ terminate \in BOOLEAN
    /\ semPlay \in Nat /\ semStopped \in Nat
    /\ seekTo \in Tracks \cup {NoTrack, ByUser}
    /\ handle \in States \cup {NULL} /\ done \in BOOLEAN
    /\ playing \in Tracks \cup {NoTrack, Count} /\ repeat \in Repeats
    /\ position \in [Tracks -> Tracks \cup {NoTrack}]
    /\ flags \in [Tracks -> SUBSET {"PLAYING", "PAUSED", "DOWNLOADING"}]
    /\ trackOf \in [States -> Tracks \cup {NoTrack}]
    /\ phase \in [States -> {"none", "cached", "queued", "running", "closing", "finished"}]
    /\ freed \subseteq States /\ cached \subseteq Tracks
    /\ destroyed \in BOOLEAN /\ plays \in 0..MaxPlays /\ sigints \in 0..MaxSigints
    /\ overlap \in BOOLEAN

\* The play thread opens the state it is asked to play and decodes it until sound_stop
\* may free it: it never starts without one, and never reads one that has been freed.
\* Left out are the behaviours in which a command meets the end of a track.
Decoding == pc["play"] \in {"loop", "decode", "time", "time_set", "seek", "unseek", "close"}
PlaysLiveState ==
    ~overlap =>
        /\ pc["play"] = "check" /\ ~terminate => state # NULL /\ state \notin freed
        /\ Decoding /\ ~done => handle # NULL /\ handle \notin freed

\* A state is not freed while the downloader still has it, if its track has not been
\* queued for downloading another time.
InDownload(d) == phase[d] \in {"queued", "running", "closing"}
FreedAfterDownload ==
    \A d \in freed : InDownload(d) =>
        \E e \in States \ {d} : trackOf[e] = trackOf[d] /\ phase[e] \notin {"none", "cached"}

\* Between commands and callbacks FLAG_PLAYING marks the current track and no other.
AtRest == pc["main"] = "idle" /\ ~done /\ ~overlap
MarksCurrentTrack == AtRest => {t \in Tracks : "PLAYING" \in flags[t]} = {playing} \ {NoTrack}

\* sound_stop's wait for the play thread ends, unless a command meets the end of a track.
StopIsAnswered == pc["main"] = "await" ~> (pc["main"] # "await" \/ overlap)

\* exit() gets past the play thread.
ExitJoinsPlayer == pc["main"] = "join" ~> (pc["main"] = "left" \/ Undefined)

-----------------------------------------------------------------------------
(* What comments of the program say and the program does not do *)

\* global.c:53: ``Nothing happens in case no track is currently playing.''  The main
\* thread does not wait for a play thread that has nothing to play.
NoStopWithoutPlayback ==
    ~(pc["main"] = "await" /\ semStopped = 0 /\ pc["play"] = "wait" /\ semPlay = 0)

\* track.h:51: FLAG_DOWNLOADING says ``this track is currently being downloaded''.
DownloadIsMarked ==
    \A d \in States : phase[d] = "running" => "DOWNLOADING" \in flags[trackOf[d]]

\* state.h:56: rep_all is ``Repeating the whole list''; the current track is one of it.
CurrentTrackInList == playing \in Tracks \cup {NoTrack}

\* global.c:55-57: the position of a track ``can be used lateron to continue playing''.
\* The position the play thread seeks to was reached in the track it plays.
SeeksOwnPosition == pc["play"] = "unseek" /\ seekTo \in Tracks => trackOf[handle] = seekTo

\* track.h:153: ``Do not use the list after calling this function.''
NoCallbackAfterDestroy == destroyed => pc["play"] \notin {"time_set", "advance"}
=============================================================================
