------------------------------- MODULE Parts --------------------------------
(***************************************************************************)
(* The parts of the program whose promises are about every state they      *)
(* reach, one at a time: `part', which never changes, says which.  They    *)
(* share no state, so their state graphs are explored side by side instead *)
(* of as a product.  Description comes by EXTENDS; while it is not the     *)
(* part its variables stay as they are in its beginning.  Each other part  *)
(* is an instance of its module on the first of the variables s1 ... s13,  *)
(* in the order of its VARIABLES; the rest is "off".                       *)
(***************************************************************************)
EXTENDS Description, Sequences, TLC

CONSTANTS
    Unknown,                            \* a key or a scope there is not
    NStream, Saved, User, Streamable,   \* References: the lists and their tracks
    MaxLists, MaxBlocks, MaxCount,
    Names, Listview, Typed,             \* CommandLine: the commands and what is typed
    BufferSize, Height, NUL,
    Commands, Words, Keys,              \* Keys: the command table and the configuration
    Opens, Closes, MaxLines,
    NUsers, NUrls, GotoLimit,           \* Textbox: its entries
    MaxPos, MaxWins, MaxSubs,
    Writers, Main, MaxTitles, MaxRedraws, \* Title: the threads that set it
    MaxCommands,                        \* TrackFlags
    Steps, Deltas, Supported, MaxExternals, \* Volume: the mixer
    PageLimit, MaxTracks, MaxTime, MaxRuns \* Soundcloud: what NUsers users publish

VARIABLES part, s1, s2, s3, s4, s5, s6, s7, s8, s9, s10, s11, s12, s13

After11 == <<s12, s13>>
After9 == <<s10, s11, After11>>
After7 == <<s8, s9, After9>>
After5 == <<s6, s7, After7>>
All == <<s1, s2, s3, s4, s5, After5>>
partvars == <<part, vars, All>>

Off11 == s12 = "off" /\ s13 = "off"
Off9 == s10 = "off" /\ s11 = "off" /\ Off11
Off7 == s8 = "off" /\ s9 = "off" /\ Off9
Off5 == s6 = "off" /\ s7 = "off" /\ Off7
AllOff == s1 = "off" /\ s2 = "off" /\ s3 = "off" /\ s4 = "off" /\ s5 = "off" /\ Off5

-----------------------------------------------------------------------------
(* The parts *)

R == INSTANCE References WITH
        heap <- s1, freed <- s2, lists <- s3, playing <- s4, flagged <- s5
C == INSTANCE CommandLine WITH Size <- BufferSize,
        mode <- s1, buffer <- s2, pos <- s3, matching <- s4, shown <- s5, selected <- s6,
        suggest <- s7, prior <- s8, retab <- s9, window <- s10, ran <- s11
K == INSTANCE Keys WITH
        pc <- s1, table <- s2, kcm_count <- s3, lines <- s4, meant <- s5, view <- s6, ran <- s7
X == INSTANCE Textbox WITH Limit <- GotoLimit,
        title <- s1, items <- s2, pos <- s3, selected <- s4, win <- s5, wins <- s6, screen <- s7,
        url_count <- s8, subs <- s9, saved <- s10, unsaved <- s11
T == INSTANCE Title WITH
        pc <- s1, new <- s2, title <- s3, made <- s4, rc <- s5, tui <- s6, drawn <- s7,
        asked <- s8, redraws <- s9, disturbed <- s10, fault <- s11
F == INSTANCE TrackFlags WITH
        flags <- s1, due <- s2, todo <- s3, loaded <- s4, commands <- s5, marked <- s6, lost <- s7
V == INSTANCE Volume WITH
        main <- s1, vol <- s2, watcher <- s3, seen <- s4, raw <- s5, event <- s6, shown <- s7,
        externals <- s8, disturbed <- s9
U == INSTANCE Soundcloud WITH Limit <- PageLimit,
        now <- s1, published <- s2, file <- s3, pc <- s4, user <- s5, before <- s6, cached <- s7,
        list <- s8, rest <- s9, merged <- s10, stream <- s11, failed <- s12, runs <- s13

ASSUME PartsAssumption ==
    /\ R!SizesAssumption /\ C!TableAssumption /\ K!TableAssumption
    /\ X!SizesAssumption /\ T!WritersAssumption /\ F!MaxCommandsAssumption
    /\ V!RangeAssumption /\ U!SizesAssumption

PartsInit ==
    /\ Init
    /\ \/ part = "description" /\ AllOff
       \/ part = "references" /\ R!Init /\ Off5
       \/ part = "commandline" /\ C!Init /\ Off11
       \/ part = "keys" /\ K!Init /\ Off7
       \/ part = "textbox" /\ X!Init /\ Off11
       \/ part = "title" /\ T!Init /\ Off11
       \/ part = "flags" /\ F!Init /\ Off7
       \/ part = "volume" /\ V!Init /\ Off9
       \/ part = "users" /\ U!Init

\* A step of part p, the variables after its own being left as they are.
Step(p, action, after) == part = p /\ action /\ UNCHANGED <<part, vars, after>>

PartsNext ==
    \/ part = "description" /\ Next /\ UNCHANGED <<part, All>>
    \/ Step("references", R!Next, After5)
    \/ Step("commandline", C!Next, After11)
    \/ Step("keys", K!Next, After7)
    \/ Step("textbox", X!Next, After11)
    \/ Step("title", T!Next, After11)
    \/ Step("flags", F!Next, After7)
    \/ Step("volume", V!Next, After9)
    \/ Step("users", U!Next, <<>>)

PartsSpec == PartsInit /\ [][PartsNext]_partvars

-----------------------------------------------------------------------------
(* Properties: those of the parts, each while its part is explored; that   *)
(* of Description, DescriptionFits, under its own name.                    *)

\* Every variable of every part keeps to its type: no count, index or buffer leaves its
\* range, and no reference is to a block that never was.
PartsTypeInvariant ==
    /\ TypeInvariant
    /\ part = "references" => R!TypeInvariant
    /\ part = "commandline" => C!TypeInvariant
    /\ part = "keys" => K!TypeInvariant
    /\ part = "textbox" => X!TypeInvariant
    /\ part = "title" => T!TypeInvariant
    /\ part = "flags" => F!TypeInvariant
    /\ part = "volume" => V!TypeInvariant
    /\ part = "users" => U!TypeInvariant

\* track.c: whatever is added, deleted and referred to, every list owns one array that is
\* not freed, a reference to a track of the Stream stays one to this track, and a track of
\* the Stream the bookmarks refer to is flagged.
ReferencesKept ==
    part = "references" => R!OwnsArray /\ R!StreamReferencesHold /\ R!BookmarksFlagged

\* handle_command, handle_search: by whatever keys the input line is left and completed,
\* the suggestions are on the screen while a command is typed and no longer, and a search
\* is for what was typed.
InputLineKept == part = "commandline" => C!WindowWhileCommand /\ C!SearchesTyped

\* config.c, main.c: a key never runs a command of the view that is not shown, and function
\* and parameter are those of one line of the configuration, the last for this key.
KeysRunLines == part = "keys" => K!RunsInScope /\ K!RunsLastLine

\* tui.c, commands/textbox.c, config.c: the box on the screen is that of the state and opens
\* at its top; the file holds the subscriptions in use, but for a write that failed.
BoxKept == part = "textbox" => X!ScreenShowsState /\ X!OpensAtTop /\ X!SavedIsUsed

\* rc_string.c, state.c: while one call at a time replaces or draws the title, no freed
\* string is used and every replaced one is freed.
TitleCounted == part = "title" => T!FreedOnlyWhenDisturbed /\ T!OldTitlesFreed

\* track.h: commands and the ends of tracks never leave a track marked both as played and as
\* paused, although either thread may write a byte the other has changed since it was read,
\* until the play thread goes on with the track or a worker writes; and all flags are due
\* unless a statement came in between the read and the write of another.
FlagsKept == part = "flags" => F!PlayedOrPaused /\ F!FlagsAreDue

\* sound.c, audio/alsa.c: once the command and the watching thread are done the volume
\* shown is the mixer's, unless another program or an error came between them.
ShowsVolume == part = "volume" => V!ShowsVolume

\* audio/alsa.c: a command never makes it louder than asked for, however the percentages are
\* rounded.
NeverLouder == [][part = "volume" => V!SetsAtMost]_partvars

\* soundcloud.c, jspf.c: whatever pages fail, and whenever the program dies while a list is
\* written, a cached list has no gap, no track is in the stream twice, and the stream is
\* sorted.
StreamKept == part = "users" => U!NoGap /\ U!NoTrackTwice /\ U!StreamSorted
=============================================================================
