----------------------------- MODULE Selection ------------------------------
(***************************************************************************)
(* The lists on the screen: which one is shown, which track of it is       *)
(* selected, which part of it is visible (state.c), the commands that      *)
(* change this (commands/playlist.c), and the scrolling the TUI thread     *)
(* does while the command waits for it (tui_track_focus in tui.c).         *)
(*                                                                         *)
(* A list is its length with its entry of `lists'.  Indices are size_t: W  *)
(* stands for 2^64, and NoTrack, W - 1, for ~0.  The play thread may go on *)
(* to the next track at any time.                                          *)
(***************************************************************************)
EXTENDS Integers, Sequences

CONSTANTS
    MaxLists,  \* MAX_LISTS
    Streams,   \* lengths of the Stream at start-up
    Bookmarks, \* lengths of the list of bookmarks at start-up
    Users,     \* lengths of a list added later
    MaxTracks, \* bound: tracks of a list that tracks are added to
    Heights,   \* values of LINES
    Steps,     \* arguments of a relative goto, in tracks and without the sign
    Places,    \* arguments of an absolute goto
    W          \* a size_t is a number below W

Lengths == Streams \cup Bookmarks \cup Users \cup {MaxTracks}

SizesAssumption ==
    /\ W \in Nat /\ MaxLists \in Nat /\ MaxLists >= 2
    /\ Heights \subseteq Nat /\ \A h \in Heights : h >= 8
    /\ Lengths \subseteq Nat
    /\ \A n \in Lengths : n + 3 < W /\ \A h \in Heights : n + h <= W
    /\ Places \subseteq 0..W - 1 /\ Steps \subseteq 1..W - 1

VARIABLES
    lists,    \* per list its count, selected, old (old_selected) and position
    current,  \* _current_list
    playing,  \* current_playback: list and track
    lines,    \* LINES
    pc,       \* "ready", or the step of tui_track_focus the main thread waits for
    victim    \* the list and the index cmd_pl_del is about to delete

vars == <<lists, current, playing, lines, pc, victim>>

NoTrack == W - 1
Fresh(n) == [count |-> n, selected |-> 0, old |-> 0, position |-> 0]
Shown == lists[current]
Sel == Shown.selected
\* Mutated form: no wrap-around of an empty list's length.
LastSigned == Shown.count - 1
Last == (Shown.count - 1) % W

Init ==
    /\ \E stream \in Streams, bookmarks \in Bookmarks : lists = <<Fresh(stream), Fresh(bookmarks)>>
    /\ current = 1 /\ playing = [list |-> NoTrack, track |-> NoTrack]
    /\ lines \in Heights /\ pc = "focus" /\ victim = <<>>

-----------------------------------------------------------------------------
(* Commands.  Those that set the selection or the list wait for the TUI thread. *)

Select(n) == \* state_set_current_selected
    /\ lists' = [lists EXCEPT ![current].old = Sel, ![current].selected = n]
    /\ pc' = "focus" /\ UNCHANGED current

\* Mutated form: any existing list can be switched to.
SwitchAlways(l) ==
    /\ pc = "ready" /\ l \in DOMAIN lists
    /\ current' = l /\ pc' = "focus" /\ UNCHANGED <<lists, playing, lines, victim>>

SwitchToList(l) ==
    /\ pc = "ready" /\ l \in DOMAIN lists /\ lists[l].count > 0
    /\ current' = l /\ pc' = "focus" /\ UNCHANGED <<lists, playing, lines, victim>>

AddDelta(base, delta, upper) == \* add_delta_within_limits
    IF delta < 0 THEN IF base < -delta THEN 0 ELSE base + delta
    ELSE IF (base + delta) % W < upper THEN (base + delta) % W ELSE upper

Goto(n) == pc = "ready" /\ Select(n) /\ UNCHANGED <<playing, lines, victim>>
GotoPlaying == playing.list = current /\ Goto(playing.track)
GotoEnd == Goto(Last)
\* Mutated form: the limit is the number of tracks.
GotoByBeyond(d) == Goto(AddDelta(Sel, d, Shown.count))
GotoBy(d) == Goto(AddDelta(Sel, d, Last))
GotoAt(n) == Goto(n)

\* search_direction: any track of that side may be the first hit; without a hit nothing
\* is selected, and entries beyond the list are no hit.
Search(down) == \E n \in 0..Shown.count - 1 : (IF down THEN n > Sel ELSE n < Sel) /\ Goto(n)

\* Mutated form: the selection is left as it is.
DelKeepSelection ==
    /\ pc = "ready" /\ current # 1 /\ victim' = <<current, Sel>>
    /\ IF Shown.count = 1 THEN current' = 1 /\ pc' = "focus" /\ UNCHANGED lists
       ELSE pc' = "delete" /\ UNCHANGED <<lists, current>>
    /\ UNCHANGED <<playing, lines>>

\* cmd_pl_del moves the selection first and deletes afterwards.
Del ==
    /\ pc = "ready" /\ current # 1 /\ victim' = <<current, Sel>>
    /\ IF Shown.count = 1 THEN current' = 1 /\ pc' = "focus" /\ UNCHANGED lists
       ELSE IF Sel >= Last THEN Select((Shown.count - 2) % W)
       ELSE pc' = "delete" /\ UNCHANGED <<lists, current>>
    /\ UNCHANGED <<playing, lines>>

Delete == \* track_list_del
    /\ pc = "delete" /\ pc' = "ready" /\ victim' = <<>>
    /\ lists' = [lists EXCEPT ![victim[1]].count = (@ - 1) % W]
    /\ UNCHANGED <<current, playing, lines>>

\* Commands that use the selected track are followed only where there is one: what an
\* entry beyond the list holds is undefined.
Add(l) ==
    /\ pc = "ready" /\ Sel < Shown.count /\ l \in DOMAIN lists \ {1}
    /\ lists[l].count < MaxTracks /\ lists' = [lists EXCEPT ![l].count = @ + 1]
    /\ UNCHANGED <<current, playing, lines, pc, victim>>

\* state_add_list, for cmd_pl_list_new (no tracks) and cmd_pl_open_user (some).
AddList(n) ==
    /\ pc = "ready" /\ lists' = IF Len(lists) = MaxLists THEN lists ELSE Append(lists, Fresh(n))
    /\ UNCHANGED <<current, playing, lines, pc, victim>>

Play ==
    /\ pc = "ready" /\ Sel < Shown.count
    /\ playing' = [list |-> current, track |-> Sel]
    /\ UNCHANGED <<lists, current, lines, pc, victim>>

Stop == \* stop_playback
    /\ pc = "ready" /\ playing.track # NoTrack
    /\ playing' = [list |-> 1, track |-> NoTrack]
    /\ UNCHANGED <<lists, current, lines, pc, victim>>

\* tui_update_time(-1) in the play thread: without repeat nothing changes at the end of
\* the list, with `one' the track stays.
NextTrack ==
    LET count == lists[playing.list].count
    IN  /\ playing.track # NoTrack
        /\ playing' = [playing EXCEPT !.track = IF @ >= count THEN 0 ELSE @ + 1]
        /\ UNCHANGED <<lists, current, lines, pc, victim>>

\* ncurses takes the new size while the main thread waits for a key.
Resize ==
    /\ pc = "ready" /\ lines' \in Heights \ {lines}
    /\ UNCHANGED <<lists, current, playing, pc, victim>>

-----------------------------------------------------------------------------
(* tui_track_focus *)

Visible(n) == n >= Shown.position /\ n < (Shown.position + lines - 4) % W
Half == (Shown.count - lines \div 2) % W
Showing == pc \in {"focus", "up", "down"}
FocusDone == pc' = IF victim = <<>> THEN "ready" ELSE "delete"
MoveTo(p) == lists' = [lists EXCEPT ![current].position = p]
FocusAt(from) == pc = from /\ UNCHANGED <<current, playing, lines, victim>>

\* Without scrolling only two lines are drawn: the old selection's and the new one's.
Focus ==
    /\ FocusAt("focus") /\ UNCHANGED lists
    /\ IF Visible(Sel) THEN FocusDone ELSE pc' = "up"

ScrollUp ==
    /\ FocusAt("up")
    /\ IF Sel < Shown.position
       THEN MoveTo(IF Shown.position >= lines \div 4 THEN Shown.position - lines \div 4 ELSE 0)
            /\ UNCHANGED pc
       ELSE pc' = "down" /\ UNCHANGED lists

\* Mutated form: the list is not scrolled further than one step below its last half page.
ScrollDownShort ==
    /\ FocusAt("down")
    /\ IF Sel >= (Shown.position + lines - 4) % W /\ Shown.position + lines \div 4 < Half
       THEN MoveTo((Shown.position + lines \div 4) % W) /\ UNCHANGED pc
       ELSE FocusDone /\ UNCHANGED lists

\* Mutated form: near the end the loop waits for the position to move by itself.
ScrollDownStuck ==
    /\ FocusAt("down")
    /\ IF Sel < (Shown.position + lines - 4) % W THEN FocusDone /\ UNCHANGED lists
       ELSE MoveTo(IF Shown.position + lines \div 4 < Half THEN Shown.position + lines \div 4
                   ELSE Shown.position) /\ UNCHANGED pc

ScrollDown ==
    /\ FocusAt("down")
    /\ IF Sel < (Shown.position + lines - 4) % W THEN FocusDone /\ UNCHANGED lists
       ELSE IF Shown.position < Half
       THEN MoveTo((Shown.position + lines \div 4) % W) /\ UNCHANGED pc
       ELSE MoveTo(Half) /\ FocusDone

Show == Focus \/ ScrollUp \/ ScrollDown
Command ==
    \/ \E l \in 1..MaxLists : SwitchToList(l) \/ Add(l)
    \/ GotoPlaying \/ GotoEnd \/ Del \/ Play \/ Stop
    \/ \E d \in Steps : GotoBy(d) \/ GotoBy(-d)
    \/ \E n \in Places : GotoAt(n)
    \/ \E down \in BOOLEAN : Search(down)
    \/ \E n \in Users : AddList(n)

Next == Command \/ Delete \/ Show \/ NextTrack \/ Resize

Spec == Init /\ [][Next]_vars
FairSpec == Spec /\ WF_vars(Show) /\ WF_vars(Delete)

-----------------------------------------------------------------------------
(* Properties *)

TypeInvariant ==
    /\ lists \in Seq([count : 0..W - 1, selected : 0..W - 1, old : 0..W - 1, position : 0..W - 1])
    /\ Len(lists) \in 1..MaxLists /\ current \in DOMAIN lists
    /\ lines \in Heights /\ pc \in {"ready", "focus", "up", "down", "delete"}
    /\ playing.list \in DOMAIN lists \cup {NoTrack} /\ playing.track \in 0..W - 1

\* The selection of every list stays within the list, whatever commands come: only a
\* goto to a number, or to a track that is not or no longer there, leaves it.
AllListed == \A l \in DOMAIN lists : lists[l].selected < lists[l].count \/ lists[l].selected = 0
StraysByGoto ==
    AllListed /\ Shown.count > 0 => AllListed' \/ GotoPlaying \/ \E n \in Places : GotoAt(n)
OnlyGotoStrays == [][StraysByGoto]_vars

\* When the TUI thread is done the selected track is on the screen, however far the
\* selection moved and whatever the size of the terminal became meanwhile.
EndsWithSelection == Showing /\ ~Showing' /\ Sel < Shown.count => (Visible(Sel))'
ShowsSelection == [][EndsWithSelection]_vars

\* An empty list is never shown, the Stream excepted.
EmptyNotShown == current = 1 \/ Shown.count > 0

\* While the selection is within its list the TUI thread comes to an end with it.
ShowsListed == Showing /\ Sel < Shown.count
FocusEnds == ShowsListed ~> ~Showing

\* Comment in cmd_pl_del: a selection that points behind the list is taken care of.  So
\* the track that is deleted is one of the list.
DeletesListed == victim # <<>> => victim[2] < lists[victim[1]].count

\* Comment in tui_track_focus: where it needs not scroll the two lines can be drawn
\* without further checking, so the old selection is a track of the list, too.
FocusDrawsListed == pc = "focus" /\ AllListed /\ Visible(Sel) => Shown.old < Shown.count
=============================================================================
