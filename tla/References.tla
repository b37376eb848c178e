----------------------------- MODULE References -----------------------------
(***************************************************************************)
(* Tracks, lists of tracks and references between them (track.c, the       *)
(* start-up in main.c, the commands of commands/playlist.c that change a   *)
(* list).  A list is an array of entries; an entry is a normal track, or,  *)
(* with name NULL, a reference: the address of a normal track, which is    *)
(* usually one of the Stream.  Addresses are <<block, index>>.             *)
(*                                                                         *)
(* Arrays grow by realloc(), which may move them; a deletion moves the     *)
(* entries behind it.  What a freed block holds is undefined, so nothing   *)
(* is followed that reads one.                                             *)
(***************************************************************************)
EXTENDS Integers, Sequences

CONSTANTS
    NStream,    \* the Stream's tracks are 1..NStream
    Saved,      \* length of the list of bookmarks in its file
    User,       \* length of the list of another user
    Streamable, \* the tracks with a stream_url
    MaxLists,   \* MAX_LISTS
    MaxBlocks,  \* bound: blocks ever allocated
    MaxCount    \* bound: entries of a list

SizesAssumption ==
    /\ NStream \in Nat \ {0} /\ Saved \in Nat /\ User \in Nat \ {0}
    /\ MaxLists \in Nat \ {0, 1} /\ MaxBlocks \in Nat \ {0, 1} /\ MaxCount \in Nat

VARIABLES
    heap,     \* the blocks, a sequence: block -> entries
    freed,    \* the blocks that have been freed
    lists,    \* per list its block (entries); the Stream is 1, Bookmarks 2
    playing,  \* current_playback: <<list, index>>, or <<>>
    flagged   \* the addresses with FLAG_PLAYING and those with FLAG_BOOKMARKED

vars == <<heap, freed, lists, playing, flagged>>

Permalinks == 1..NStream + 1   \* one track is not in the Stream

\* `is' is the track an entry stands for, whatever memory makes of it later.
Normal(t) == [name |-> t, href |-> <<>>, is |-> t]
\* Mutated form: the name is not reset.
ReferenceNamed(t, address) == [name |-> t, href |-> address, is |-> t]
Reference(t, address) == [name |-> 0, href |-> address, is |-> t]
Block(l) == heap[lists[l]]
Count(l) == Len(Block(l))
Entries == {e \in (DOMAIN lists) \X (1..MaxCount + NStream) : e[2] <= Count(e[1])}
Track(l, i) == IF Block(l)[i].name # 0 THEN <<lists[l], i>> ELSE Block(l)[i].href \* TRACK
TrackAt(a) == heap[a[1]][a[2]].is
Readable(l, i) == LET a == Track(l, i) IN a[1] \notin freed /\ a[2] <= Len(heap[a[1]])

\* track_list_href_to: the first entry of every track of the target becomes a reference.
HrefTo(list, target, block) ==
    [j \in DOMAIN list |->
        IF \E i \in DOMAIN target : target[i].is = list[j].is /\ \A k \in 1..j - 1 : list[k].is # list[j].is
        THEN Reference(list[j].is, <<block, CHOOSE i \in DOMAIN target : target[i].is = list[j].is>>)
        ELSE list[j]]

Init ==
    /\ \E saved \in [1..Saved -> Permalinks] :
        LET stream == [i \in 1..NStream |-> Normal(i)]
        IN  /\ heap = <<stream, HrefTo([j \in 1..Saved |-> Normal(saved[j])], stream, 1)>>
            /\ flagged = [playing |-> {},
                 bookmarked |-> {<<1, i>> : i \in {saved[j] : j \in 1..Saved} \ {NStream + 1}}]
    /\ freed = {} /\ lists = <<1, 2>> /\ playing = <<>>

-----------------------------------------------------------------------------

Moved(places, from, to) == {IF a[1] = from THEN <<to, a[2]>> ELSE a : a \in places}
GrowInPlace(l, entry, flags) ==
    /\ heap' = [heap EXCEPT ![lists[l]] = Append(@, entry)] /\ flagged' = flags
    /\ UNCHANGED <<freed, lists>>
GrowMoved(l, entry, flags) ==
    /\ Len(heap) < MaxBlocks
    /\ heap' = Append([heap EXCEPT ![lists[l]] = <<>>], Append(Block(l), entry))
    /\ flagged' = [f \in DOMAIN flags |-> Moved(flags[f], lists[l], Len(heap) + 1)]
    /\ freed' = freed \cup {lists[l]}

\* Mutated form: the list keeps the address of the array before realloc().
GrowKeep(l, entry, flags) ==
    GrowInPlace(l, entry, flags) \/ (GrowMoved(l, entry, flags) /\ UNCHANGED lists)

\* track_list_add: the array grows where it is, or in a new block, with its flags.
Grow(l, entry, flags) ==
    \/ GrowInPlace(l, entry, flags)
    \/ GrowMoved(l, entry, flags) /\ lists' = [lists EXCEPT ![l] = Len(heap) + 1]

\* Mutated form: a track added to the bookmarks is not flagged.
AddUnflagged(c, i, l) ==
    /\ l # 1 /\ Readable(c, i) /\ Count(l) < MaxCount /\ UNCHANGED playing
    /\ Grow(l, Reference(Block(c)[i].is, Track(c, i)), flagged)

\* Add the track selected in list c to list l; the address is taken before the array grows.
Add(c, i, l) ==
    /\ l # 1 /\ Readable(c, i) /\ Count(l) < MaxCount /\ UNCHANGED playing
    /\ Grow(l, Reference(Block(c)[i].is, Track(c, i)),
            IF l = 2 THEN [flagged EXCEPT !.bookmarked = @ \cup {Track(c, i)}] ELSE flagged)

\* track_list_del moves the entries behind down by one place, with their flags.
Shifted(places, b, i) ==
    {IF a[1] = b /\ a[2] > i THEN <<b, a[2] - 1>> ELSE a : a \in places \ {<<b, i>>}}
\* Mutated form: tracks of the Stream can be deleted, too.
DelAnywhere(l, i) ==
    /\ heap' = [heap EXCEPT ![lists[l]] = SubSeq(@, 1, i - 1) \o SubSeq(@, i + 1, Len(@))]
    /\ flagged' = [f \in DOMAIN flagged |-> Shifted(flagged[f], lists[l], i)]
    /\ UNCHANGED <<freed, lists, playing>>

Del(l, i) ==
    /\ l # 1
    /\ heap' = [heap EXCEPT ![lists[l]] = SubSeq(@, 1, i - 1) \o SubSeq(@, i + 1, Len(@))]
    /\ flagged' = [f \in DOMAIN flagged |-> Shifted(flagged[f], lists[l], i)]
    /\ UNCHANGED <<freed, lists, playing>>

\* state_add_list, with an empty list (list-new) or one of normal tracks (open).
AddList(tracks) ==
    /\ Len(lists) < MaxLists /\ Len(heap) < MaxBlocks
    /\ heap' = Append(heap, [i \in DOMAIN tracks |-> Normal(tracks[i])])
    /\ lists' = Append(lists, Len(heap) + 1)
    /\ UNCHANGED <<freed, playing, flagged>>

\* update_flags_stop_playback and the player's new track.
Stopped == IF playing = <<>> THEN flagged.playing ELSE flagged.playing \ {Track(playing[1], playing[2])}
MayStop == playing # <<>> => playing \in Entries /\ Readable(playing[1], playing[2])
Play(l, i) ==
    /\ Readable(l, i) /\ TrackAt(Track(l, i)) \in Streamable /\ MayStop
    /\ playing' = <<l, i>>
    /\ flagged' = [flagged EXCEPT !.playing = Stopped \cup {Track(l, i)}]
    /\ UNCHANGED <<heap, freed, lists>>

Stop ==
    /\ playing # <<>> /\ MayStop
    /\ playing' = <<>> /\ flagged' = [flagged EXCEPT !.playing = Stopped]
    /\ UNCHANGED <<heap, freed, lists>>

\* cmd_pl_exit writes every list and frees it; track_destroy passes over references.
Exit ==
    /\ lists # <<>> /\ \A e \in Entries : Readable(e[1], e[2])
    /\ freed' = freed \cup {lists[l] : l \in DOMAIN lists} /\ lists' = <<>>
    /\ heap' = [b \in DOMAIN heap |-> <<>>]
    /\ playing' = <<>> /\ flagged' = [f \in DOMAIN flagged |-> {}]

Next ==
    \/ \E e \in Entries : Play(e[1], e[2]) \/ Del(e[1], e[2])
    \/ \E e \in Entries, l \in DOMAIN lists : Add(e[1], e[2], l)
    \/ lists # <<>> /\ (AddList(<<>>) \/ \E t \in [1..User -> Permalinks] : AddList(t))
    \/ Stop \/ Exit

Spec == Init /\ [][Next]_vars

-----------------------------------------------------------------------------
(* Properties *)

TypeInvariant ==
    /\ freed \subseteq DOMAIN heap /\ Len(heap) <= MaxBlocks
    /\ lists \in Seq(DOMAIN heap) /\ Len(lists) <= MaxLists
    /\ \A b \in DOMAIN heap : \A i \in DOMAIN heap[b] :
        heap[b][i].name \in Permalinks <=> heap[b][i].href = <<>>

\* Every list has an array of its own that has not been freed: the lists can be written
\* and freed at exit, whatever was added and deleted before.
OwnsArray ==
    \A l \in DOMAIN lists : lists[l] \notin freed /\ \A k \in DOMAIN lists \ {l} : lists[k] # lists[l]

\* A reference into the Stream stays the reference to its track, wherever the list that
\* holds it moves: the Stream itself never moves.
StreamReferencesHold ==
    \A e \in Entries : LET entry == Block(e[1])[e[2]]
        IN entry.name = 0 /\ entry.href[1] = 1 =>
            1 \notin freed /\ entry.href[2] <= NStream /\ TrackAt(entry.href) = entry.is

\* A track of the Stream is shown as bookmarked while the bookmarks refer to it.
BookmarksFlagged ==
    \A e \in Entries : e[1] = 2 /\ Track(2, e[2])[1] = 1 => Track(2, e[2]) \in flagged.bookmarked

\* track.h: `href' is a valid pointer to a normal track ...
ReferencesValid == \A e \in Entries : Readable(e[1], e[2])
\* ... which contains the actual data, that of the track that was added.
ReferencesHold ==
    \A e \in Entries : Readable(e[1], e[2]) =>
        TrackAt(Track(e[1], e[2])) = Block(e[1])[e[2]].is

\* track.h: FLAG_BOOKMARKED says `this track is bookmarked'.
FlaggedBookmarked ==
    lists # <<>> => \A i \in 1..NStream : <<1, i>> \in flagged.bookmarked =>
        \E j \in 1..Count(2) : Block(2)[j].is = i

\* track.h: FLAG_PLAYING is for the track that is played, and current_playback says which.
FlaggedPlaying ==
    \A e \in Entries : Readable(e[1], e[2]) /\ Track(e[1], e[2]) \in flagged.playing =>
        playing \in Entries /\ (Readable(playing[1], playing[2]) => Track(playing[1], playing[2]) = Track(e[1], e[2]))
=============================================================================
