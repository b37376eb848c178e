----------------------------- MODULE TrackFlags -----------------------------
(***************************************************************************)
(* The flags of one track (track.h), one byte that three threads change:   *)
(* the main thread by its commands, the play thread at the end of the      *)
(* track (main.c), a download worker when it has saved it (sound.c) and    *)
(* when it is done (downloader.c).  A statement reads the byte and later   *)
(* writes it, with no lock.                                                *)
(***************************************************************************)
EXTENDS Integers, Sequences

CONSTANT MaxCommands \* bound: commands

MaxCommandsAssumption == MaxCommands \in Nat

Threads == {"main", "player", "worker"}
Flags == {"playing", "paused", "bookmarked", "cached", "downloading"}

VARIABLES
    flags,    \* the byte
    due,      \* what it would be if every statement were one step
    todo,     \* of a thread: the statements it is about to execute
    loaded,   \* the byte it has read for the first of them, or Unread
    commands,
    marked,   \* a thread other than main has set a flag
    lost      \* a statement has written over another's change

vars == <<flags, due, todo, loaded, commands, marked, lost>>

Unread == {"unread"}
Change(add, del) == [add |-> add, del |-> del]
Apply(c, f) == (f \ c.del) \cup c.add

\* The statements.
MarkPlayed == Change({"playing"}, {"paused"})
MarkPaused == Change({"paused"}, {})
MarkBookmarked == Change({"bookmarked"}, {})
MarkDownloading == Change({"downloading"}, {})
MarkCached == Change({"cached"}, {})
Unplay == Change({}, {"playing"})
UnplayUnpause == Change({}, {"paused", "playing"})
Downloaded == Change({}, {"downloading"})
If(b, c) == IF b THEN <<c>> ELSE <<>>

Init ==
    /\ flags = {} /\ due = {} /\ todo = [t \in Threads |-> <<>>]
    /\ loaded = [t \in Threads |-> Unread] /\ commands = 0
    /\ marked = FALSE /\ lost = FALSE

Begin(t, changes) ==
    /\ todo[t] = <<>> /\ commands < MaxCommands /\ commands' = commands + 1
    /\ todo' = [todo EXCEPT ![t] = changes] /\ UNCHANGED <<flags, due, loaded, marked, lost>>

\* Mutated form: the mark of a pause stays.
PlayPaused(queued) ==
    /\ queued => todo["worker"] = <<>>
    /\ Begin("main", <<Change({"playing"}, {})>> \o If(queued, MarkDownloading))
\* cmd_pl_play, and downloader_queue_buffer if the track has to be fetched.
Play(queued) ==
    /\ queued => todo["worker"] = <<>>
    /\ Begin("main", <<MarkPlayed>> \o If(queued, MarkDownloading))
\* update_flags_stop_playback: `paused' is for a track that has got anywhere.
Pause(moved) == Begin("main", <<Unplay>> \o If(moved, MarkPaused))
Bookmark == Begin("main", <<MarkBookmarked>>)
\* tui_update_time: the track has ended, is the one to go on with, or both; sound_play may
\* have to fetch it.  It may end while a command is about to stop it.
EndOfTrack(ended, next, queued) ==
    /\ ended \/ next
    /\ ended => "playing" \in due \/ todo["main"] # <<>>
    /\ queued => next /\ todo["worker"] = <<>>
    /\ Begin("player",
             If(ended, UnplayUnpause) \o If(next, MarkPlayed) \o If(queued, MarkDownloading))

Load(t) ==
    /\ todo[t] # <<>> /\ loaded[t] = Unread /\ loaded' = [loaded EXCEPT ![t] = flags]
    /\ UNCHANGED <<flags, due, todo, commands, marked, lost>>

\* Mutated form: the callback's flag is set with `=' instead of `|='.
StoreOver(t) ==
    LET c == todo[t][1] IN
    /\ todo[t] # <<>> /\ loaded[t] # Unread /\ loaded' = [loaded EXCEPT ![t] = Unread]
    /\ flags' = IF c.add = {"cached"} THEN c.add ELSE Apply(c, loaded[t])
    /\ due' = Apply(c, due) /\ lost' = (lost \/ loaded[t] # flags)
    /\ todo' = [u \in Threads |-> IF u = t THEN Tail(todo[t])
                                  ELSE IF u = "worker" /\ "downloading" \in c.add
                                       THEN todo[u] \o <<MarkCached, Downloaded>>
                                  ELSE todo[u]]
    /\ marked' = (marked \/ (t # "main" /\ c.add # {})) /\ UNCHANGED commands
\* Mutated form: a byte once read is used for the next statement, too.
StoreKept(t) ==
    LET c == todo[t][1] IN
    /\ todo[t] # <<>> /\ loaded[t] # Unread /\ loaded' = [loaded EXCEPT ![t] = Apply(c, @)]
    /\ flags' = Apply(c, loaded[t]) /\ due' = Apply(c, due) /\ lost' = (lost \/ loaded[t] # flags)
    /\ todo' = [todo EXCEPT ![t] = Tail(@)] /\ UNCHANGED <<commands, marked>>
\* The write; a worker takes the download up when it is marked.
Store(t) ==
    LET c == todo[t][1] IN
    /\ todo[t] # <<>> /\ loaded[t] # Unread /\ loaded' = [loaded EXCEPT ![t] = Unread]
    /\ flags' = Apply(c, loaded[t]) /\ due' = Apply(c, due) /\ lost' = (lost \/ loaded[t] # flags)
    /\ todo' = [u \in Threads |-> IF u = t THEN Tail(todo[t])
                                  ELSE IF u = "worker" /\ "downloading" \in c.add
                                       THEN todo[u] \o <<MarkCached, Downloaded>>
                                  ELSE todo[u]]
    /\ marked' = (marked \/ (t # "main" /\ c.add # {})) /\ UNCHANGED commands

Next ==
    \/ \E b \in BOOLEAN : Play(b) \/ Pause(b)
    \/ Bookmark \/ \E e, n, q \in BOOLEAN : EndOfTrack(e, n, q)
    \/ \E t \in Threads : Load(t) \/ Store(t)

Spec == Init /\ [][Next]_vars

-----------------------------------------------------------------------------
(* Properties *)

Changes == [add : SUBSET Flags, del : SUBSET Flags]

TypeInvariant ==
    /\ flags \subseteq Flags /\ due \subseteq Flags /\ commands \in 0..MaxCommands
    /\ marked \in BOOLEAN /\ lost \in BOOLEAN
    /\ todo \in [Threads -> Seq(Changes)] /\ DOMAIN loaded = Threads
    /\ \A t \in Threads : loaded[t] = Unread \/ (loaded[t] \subseteq Flags /\ todo[t] # <<>>)

\* The flags are what the statements make them, unless one has come between another's read
\* and write.
FlagsAreDue == ~lost => flags = due

\* Commands and the ends of tracks, however they interleave, do not leave a track marked
\* both as played and as paused, until another thread has set a flag: the play thread going
\* on with the track, or a worker that brings back a byte it has read before.
PlayedOrPaused == ~marked => ~({"playing", "paused"} \subseteq flags)

\* Why: what main and player have to do begins and goes on as the source has it; main marks a
\* pause after `playing' has gone, and until a flag is set by another thread nobody but main
\* brings it back.
TodoOfMain ==
    {<<>>, <<MarkPlayed>>, <<MarkPlayed, MarkDownloading>>, <<MarkDownloading>>,
     <<Unplay>>, <<Unplay, MarkPaused>>, <<MarkPaused>>, <<MarkBookmarked>>}
TodoOfPlayer ==
    {<<>>, <<UnplayUnpause>>, <<UnplayUnpause, MarkPlayed>>,
     <<UnplayUnpause, MarkPlayed, MarkDownloading>>, <<MarkPlayed>>,
     <<MarkPlayed, MarkDownloading>>, <<MarkDownloading>>}
Both(f) == {"playing", "paused"} \subseteq f
PausesUnplayed ==
    /\ todo["main"] \in TodoOfMain /\ todo["player"] \in TodoOfPlayer
    /\ ~marked =>
          /\ ~Both(flags) /\ ~Both(loaded["main"])
          /\ todo["main"] = <<MarkPaused>> => "playing" \notin flags \cup loaded["main"]
          /\ todo["worker"] = <<>> \/ todo["worker"][1] = MarkCached

\* track.h: a flag says that the track `is currently being downloaded'; so it goes when
\* the worker has finished, and with it nothing else.
DownloadingEnds == todo["worker"] = <<>> /\ "downloading" \notin due => "downloading" \notin flags
\* track.h: `this track is currently being played'.
PlayingIsDue == (\A t \in Threads : todo[t] = <<>>) => ("playing" \in flags <=> "playing" \in due)
=============================================================================
